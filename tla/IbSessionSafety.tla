-------------------------- MODULE IbSessionSafety --------------------------
(***************************************************************************)
(* What the engine's session with IB promises to those who live on its     *)
(* feeds.                                                                  *)
(***************************************************************************)
EXTENDS IbSession

\* No other bot of the run trades the contract of b.
Alone(b) == \A c \in setup.bots \ {b} : SymbolOf[c] # SymbolOf[b]

\* An engine without a session always has a task that will connect again,
\* however drops, the operator's reconnects and failed attempts interleave: a
\* drop taken for an intended one leaves it disconnected until a restart
\* (_expected_disconnect in connect(), disconnect() and _on_disconnected()).
DownIsAttended ==
    engine # "connecting" /\ link = "down" =>
        loop # "idle" \/ manual \in {"settling", "connecting"}

\* The alerts that tell bots and operator the session is gone do not outlive
\* its return, a restart of the engine in between included
\* (_reconnect_with_backoff() against _resolve_ib_disconnect_alert()).
NoStaleBanner == Quiet => alerts \cap Banners = {}

\* Once a session has been restored, every contract of the watchlist and every
\* position has its quotes, whatever dropped, overlapped, failed or restarted
\* on the way (_on_disconnected(), _resubscribe_all_after_reconnect() and
\* prophylactic_resubscribe_all()), as long as no bot has given references up.
WatchedIsFed ==
    Quiet /\ ~setup.stops => Quotes(Watchlist \cup held) \subseteq served

\* A drop, a reconnect or a refresh of a session at rest gives a bot its own
\* quotes and bars back, also when bots that share a contract stop between
\* (the tables kept by _on_disconnected() and resubscribe_pending()).  The
\* exception: reconnect_ib()'s own subscription, awaiting the throttle beside
\* the replay's, writes the count of a shared contract back to one, and the
\* first of its bots to stop then takes the feed of the others.
BotsAreFed ==
    Quiet /\ setup.orderly =>
        \A b \in Bots : bots[b] = "on" /\ (Alone(b) \/ ~setup.byHand) =>
            FeedsOf(b) \subseteq served
============================================================================
