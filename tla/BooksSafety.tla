---------------------------- MODULE BooksSafety ----------------------------
(***************************************************************************)
(* What the rows, the recoveries and the daemon promise together.          *)
(***************************************************************************)
EXTENDS Books

NothingLost == ~ lost

(* While the engine serves, a command is shown RUNNING only while a        *)
(* coroutine works for it, whatever crashed when.                          *)
(* engine/service.py:24-46, 344-423                                        *)
RunningIsRun ==
    up /\ NothingLost =>
        \A c \in Commands : cmd[c] = "running" =>
            \E o \in Orders : issued[o] = c /\ doing[o] \in {"sent", "working"}

(* An order that works at IB although its row says CANCELLED, or its trade *)
(* has been closed, does not stay unknown: the REPL warns of it or the     *)
(* daemon raises an alert, while the row is young and IB knows the order   *)
(* under the engine's id. engine/recovery.py:22-112,                       *)
(* daemon/reconciler.py:338-443, daemon/tui.py:181-236                     *)
LiveIsTold ==
    \A o \in Orders :
        at[o] = "working" /\ bound[o] /\ NothingLost
        /\ (last[o] = "cancelled" \/ trade[o] = "closed")
        ~> \/ o \in paged \cup warned
           \/ at[o] # "working" \/ ~ bound[o]
           \/ ~ recent[o] \/ ~ NothingLost
=============================================================================
