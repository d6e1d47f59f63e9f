---------------------------- MODULE MCBotRunner ----------------------------
(* BotRunner with a bot that is started by requests and one that starts    *)
(* with the process, and with two clients, one that starts and resets and  *)
(* one that stops.                                                         *)
EXTENDS BotRunnerSafety

CONSTANTS b1, b2, h1, h2
MCRequests ==
    {h1} \X {"start", "reset"} \X {b1} \cup {h2} \X {"stop", "force_stop"} \X {b1}
=============================================================================
