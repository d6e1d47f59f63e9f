--------------------------- MODULE IbSessionProofs ---------------------------
(***************************************************************************)
(* For every set of contracts and bots, every bound on the tasks and any   *)
(* number of drops, reconnects and crashes: an engine without a session    *)
(* has a task that will connect again; its alerts end with its return;     *)
(* what is watched has its quotes back, where bots keep their references;  *)
(* and bots that come and go, one thing at a time, have theirs.            *)
(***************************************************************************)
EXTENDS IbSessionSafety, FiniteSetTheorems, TLAPS

(* The table of post-reconnect tasks.                                      *)
Staged == stage \in [Replays -> {"none", "spawned", "pending", "ambient", "startup"}]

(* Only an engine that has connected runs the startup's walk, whose end    *)
(* makes it serve.                                                         *)
WalksConnected == \A r \in Replays : stage[r] = "startup" => engine # "connecting"

(* A drop is only expected while the operator's reconnect waits for the    *)
(* one it has caused: whatever comes first, the drop, the backoff loop's   *)
(* connect() or its own, has taken the announcement back by then.          *)
ExpectedIsCaused == expected => manual = "settling"

SessionInv == Staged /\ WalksConnected /\ ExpectedIsCaused /\ DownIsAttended

(* An engine begins with connecting, and nothing under way.                *)
LEMMA SessionStarts == Init => SessionInv
BY DEF Init, SessionInv, Staged, WalksConnected, ExpectedIsCaused, DownIsAttended

(* Feeds, bots, positions and alerts are not what SessionInv is about.     *)
LinkUntouched == UNCHANGED <<engine, link, expected, loop, manual, stage>>

LEMMA UntouchedKeeps == SessionInv /\ LinkUntouched => SessionInv'
BY DEF SessionInv, LinkUntouched, Staged, WalksConnected, ExpectedIsCaused, DownIsAttended

LEMMA FeedsUntouched ==
    ASSUME \/ \E a \in Actors \ {"cycle"}, f \in Feeds : Asks(a, f)
           \/ \E a \in Actors : Subscribed(a)
           \/ CycleStarts \/ CycleEnds
           \/ \E f \in Feeds : CycleCancels(f) \/ CycleAsks(f)
    PROVE  LinkUntouched
<1>1. ASSUME NEW a, NEW f, Asks(a, f) PROVE LinkUntouched
  BY <1>1 DEF Asks, LinkUntouched, callbackVars
<1>2. ASSUME NEW a, Subscribed(a) PROVE LinkUntouched
  BY <1>2 DEF Subscribed, LinkUntouched, callbackVars
<1>3. CASE CycleStarts
  BY <1>3 DEF CycleStarts, LinkUntouched, callbackVars
<1>4. CASE CycleEnds
  BY <1>4 DEF CycleEnds, LinkUntouched, callbackVars
<1>5. ASSUME NEW f, CycleCancels(f) PROVE LinkUntouched
  BY <1>5 DEF CycleCancels, LinkUntouched, callbackVars
<1>6. ASSUME NEW f, CycleAsks(f) PROVE LinkUntouched
  BY <1>6 DEF CycleAsks, LinkUntouched, callbackVars
<1> QED
  BY <1>1, <1>2, <1>3, <1>4, <1>5, <1>6

LEMMA OthersUntouched ==
    ASSUME \/ \E r \in Replays : Finds(r) \/ Removes(r)
           \/ AlertLands
           \/ \E b \in Bots : BotStarts(b) \/ BotIsOn(b) \/ BotStops(b)
           \/ \E s \in Symbols : PositionOpens(s)
           \/ Reload
    PROVE  LinkUntouched
<1>1. ASSUME NEW r, Finds(r) \/ Removes(r) PROVE LinkUntouched
  BY <1>1 DEF Finds, Removes, LinkUntouched
<1>2. CASE AlertLands
  BY <1>2 DEF AlertLands, LinkUntouched, callbackVars
<1>3. ASSUME NEW b, BotStarts(b) \/ BotIsOn(b) \/ BotStops(b) PROVE LinkUntouched
  BY <1>3 DEF BotStarts, BotIsOn, BotStops, LinkUntouched, callbackVars
<1>4. ASSUME NEW s, PositionOpens(s) PROVE LinkUntouched
  BY <1>4 DEF PositionOpens, LinkUntouched, callbackVars
<1>5. CASE Reload
  BY <1>5 DEF Reload, LinkUntouched, callbackVars
<1> QED
  BY <1>1, <1>2, <1>3, <1>4, <1>5

(* The Gateway's drop: an expected one is attended to by who has caused    *)
(* it, and any other starts the loop.                                      *)
LEMMA DropKeeps == SessionInv /\ Drop => SessionInv'
BY DEF SessionInv, Drop, AfterDrop, Raised, callbackVars, Staged, WalksConnected,
       ExpectedIsCaused, DownIsAttended

(* The connect callback gives a task that is free something to do.         *)
LEMMA CalledKeeps ==
    ASSUME Staged, WalksConnected, Called, UNCHANGED engine
    PROVE  Staged' /\ WalksConnected'
BY DEF Staged, WalksConnected, Called

(* The backoff loop ends only with a session, and a connect() of its own   *)
(* takes back what was announced.                                          *)
LEMMA LoopKeeps ==
    ASSUME SessionInv, LoopAlerts \/ LoopConnects \/ LoopSucceeds \/ LoopFails
    PROVE  SessionInv'
<1> USE DEF SessionInv, ExpectedIsCaused, DownIsAttended
<1>1. CASE LoopAlerts
  BY <1>1 DEF LoopAlerts, callbackVars, Staged, WalksConnected
<1>2. CASE LoopConnects
  BY <1>2 DEF LoopConnects, callbackVars, Staged, WalksConnected
<1>3. CASE LoopSucceeds
  <2>1. Staged' /\ WalksConnected'
    BY <1>3, CalledKeeps DEF LoopSucceeds
  <2> QED
    BY <1>3, <2>1 DEF LoopSucceeds
<1>4. CASE LoopFails
  BY <1>4 DEF LoopFails, Refused, callbackVars, Staged, WalksConnected
<1> QED
  BY <1>1, <1>2, <1>3, <1>4

(* The operator's reconnect leaves the engine with a session, or to the    *)
(* backoff loop.                                                           *)
LEMMA ManualKeeps ==
    ASSUME SessionInv,
           ManualDrops \/ ManualConnects \/ ManualSucceeds \/ ManualFails \/ ManualEnds
    PROVE  SessionInv'
<1> USE DEF SessionInv, ExpectedIsCaused, DownIsAttended
<1>1. CASE ManualDrops
  BY <1>1 DEF ManualDrops, callbackVars, Staged, WalksConnected
<1>2. CASE ManualConnects
  BY <1>2 DEF ManualConnects, callbackVars, Staged, WalksConnected
<1>3. CASE ManualSucceeds
  <2>1. Staged' /\ WalksConnected'
    BY <1>3, CalledKeeps DEF ManualSucceeds, Opened
  <2>2. link' = "up" /\ ~ expected'
    BY <1>3 DEF ManualSucceeds, Opened
  <2> QED
    BY <2>1, <2>2
<1>4. CASE ManualFails
  BY <1>4 DEF ManualFails, Refused, Raised, callbackVars, Staged, WalksConnected
<1>5. CASE ManualEnds
  BY <1>5 DEF ManualEnds, callbackVars, Staged, WalksConnected
<1> QED
  BY <1>1, <1>2, <1>3, <1>4, <1>5

(* A task of the connect callback only goes on in its walk; at startup its *)
(* end makes a connected engine serve.                                     *)
LEMMA ReplayKeeps ==
    ASSUME SessionInv, NEW r \in Replays, Drains(r) \/ WalksAmbient(r) \/ ReplayEnds(r)
    PROVE  SessionInv'
<1> USE DEF SessionInv, Staged, WalksConnected, ExpectedIsCaused, DownIsAttended
<1>1. CASE Drains(r)
  BY <1>1 DEF Drains
<1>2. CASE WalksAmbient(r)
  BY <1>2 DEF WalksAmbient
<1>3. CASE ReplayEnds(r)
  BY <1>3 DEF ReplayEnds
<1> QED
  BY <1>1, <1>2, <1>3

(* A crash forgets all of it, and a startup has a session.                 *)
LEMMA ProcessKeeps ==
    ASSUME SessionInv, Crash \/ Startup
    PROVE  SessionInv'
<1> USE DEF SessionInv, Staged, WalksConnected, ExpectedIsCaused, DownIsAttended
<1>1. CASE Crash
  BY <1>1 DEF Crash, Forgotten
<1>2. CASE Startup
  BY <1>2 DEF Startup
<1> QED
  BY <1>1, <1>2

LEMMA SessionKeeps == SessionInv /\ [Next]_vars => SessionInv'
<1> SUFFICES ASSUME SessionInv, [Next]_vars PROVE SessionInv'
  OBVIOUS
<1>1. CASE LinkUntouched
  BY <1>1, UntouchedKeeps
<1>2. CASE UNCHANGED vars
  BY <1>2, <1>1 DEF vars, LinkUntouched
<1>3. CASE Next
  BY <1>1, <1>3, FeedsUntouched, OthersUntouched, DropKeeps, LoopKeeps, ManualKeeps,
     ReplayKeeps, ProcessKeeps DEF Next
<1> QED
  BY <1>2, <1>3

(* An engine without a session always has a task that will connect again,  *)
(* however drops, the operator's reconnects, failed attempts and restarts  *)
(* interleave: _expected_disconnect never outlives the drop it is for.     *)
THEOREM SomebodyReconnects == Spec => []DownIsAttended
<1>1. SessionInv => DownIsAttended
  BY DEF SessionInv
<1> QED
  BY <1>1, SessionStarts, SessionKeeps, PTL DEF Spec
----------------------------------------------------------------------------
(* NoStaleBanner.                                                          *)

(* What a connect callback has found to remove.                            *)
Clearings == {None, {"asked"}} \cup SUBSET Banners
Cleaning == clearing \in [Replays -> Clearings]

(* An alert is on its way to Redis only while the backoff loop waits: it   *)
(* connects, and so ends, after the write.                                 *)
WrittenInTheWait == writing \subseteq Banners /\ (writing # {} => loop = "waiting")

(* Who will remove a banner: a connect callback that has still to read the *)
(* alerts, or one that has found it.                                       *)
Clears(r, x) == clearing[r] # None /\ (clearing[r] = {"asked"} \/ x \in clearing[r])

(* Where no loop runs, a connect callback has each banner still to remove. *)
(* A banner raised after the callback has read the alerts would break it,  *)
(* and the loop that would raise it has ended before the callback runs.    *)
BannersAreCleared ==
    engine # "connecting" /\ loop = "idle" =>
        \A x \in alerts \cap Banners : \E r \in Replays : Clears(r, x)

BannerInv == SessionInv /\ Cleaning /\ WrittenInTheWait /\ BannersAreCleared

LEMMA BannersStart == Init => BannerInv
BY SessionStarts DEF Init, BannerInv, Cleaning, Clearings, WrittenInTheWait, BannersAreCleared

BannersUntouched == UNCHANGED <<engine, loop, alerts, writing, clearing>>

LEMMA TasksLeaveBanners ==
    ASSUME \/ \E a \in Actors \ {"cycle"}, f \in Feeds : Asks(a, f)
           \/ \E a \in Actors : Subscribed(a)
           \/ ManualDrops \/ ManualConnects \/ ManualEnds
           \/ \E r \in Replays : Drains(r) \/ WalksAmbient(r)
           \/ \E f \in Feeds : CycleCancels(f) \/ CycleAsks(f)
    PROVE  BannersUntouched
<1> USE DEF BannersUntouched, callbackVars, alertVars
<1>1. ASSUME NEW a, NEW f, Asks(a, f) PROVE BannersUntouched
  BY <1>1 DEF Asks
<1>2. ASSUME NEW a, Subscribed(a) PROVE BannersUntouched
  BY <1>2 DEF Subscribed
<1>3. CASE ManualDrops
  BY <1>3 DEF ManualDrops
<1>4. CASE ManualConnects
  BY <1>4 DEF ManualConnects
<1>5. CASE ManualEnds
  BY <1>5 DEF ManualEnds
<1>6. ASSUME NEW r, Drains(r) \/ WalksAmbient(r) PROVE BannersUntouched
  BY <1>6 DEF Drains, WalksAmbient
<1>7. ASSUME NEW f, CycleCancels(f) PROVE BannersUntouched
  BY <1>7 DEF CycleCancels
<1>8. ASSUME NEW f, CycleAsks(f) PROVE BannersUntouched
  BY <1>8 DEF CycleAsks
<1> QED
  BY <1>1, <1>2, <1>3, <1>4, <1>5, <1>6, <1>7, <1>8

LEMMA BotsLeaveBanners ==
    ASSUME \/ \E b \in Bots : BotStarts(b) \/ BotIsOn(b) \/ BotStops(b)
           \/ \E s \in Symbols : PositionOpens(s)
           \/ Reload
    PROVE  BannersUntouched
<1> USE DEF BannersUntouched, callbackVars, alertVars
<1>1. ASSUME NEW b, BotStarts(b) \/ BotIsOn(b) \/ BotStops(b) PROVE BannersUntouched
  BY <1>1 DEF BotStarts, BotIsOn, BotStops
<1>2. ASSUME NEW s, PositionOpens(s) PROVE BannersUntouched
  BY <1>2 DEF PositionOpens
<1>3. CASE Reload
  BY <1>3 DEF Reload
<1> QED
  BY <1>1, <1>2, <1>3

(* A connect that has come through has its callback clear what is there.   *)
LEMMA CalledClears ==
    ASSUME Cleaning, WrittenInTheWait, Called, UNCHANGED alerts
    PROVE  Cleaning' /\ BannersAreCleared'
<1>1. PICK r \in Replays : clearing' = [clearing EXCEPT ![r] = {"asked"}]
  BY DEF Called
<1>2. Cleaning'
  BY <1>1 DEF Cleaning, Clearings
<1>3. clearing'[r] = {"asked"} /\ {"asked"} # None
  BY <1>1, SessionAssumption DEF Cleaning
<1> QED
  BY <1>2, <1>3 DEF BannersAreCleared, Clears

(* A drop, or an attempt that fails, ends no loop.                         *)
LEMMA DropsKeepBanners ==
    ASSUME BannerInv, Drop \/ ManualFails \/ LoopConnects
    PROVE  (Cleaning /\ WrittenInTheWait /\ BannersAreCleared)'
<1> USE DEF BannerInv, Cleaning, WrittenInTheWait, BannersAreCleared, Clears
<1>1. CASE Drop
  BY <1>1 DEF Drop, AfterDrop, Raised, callbackVars, alertVars
<1>2. CASE ManualFails
  BY <1>2 DEF ManualFails, Refused, Raised, callbackVars, alertVars
<1>3. CASE LoopConnects
  BY <1>3 DEF LoopConnects, callbackVars, alertVars
<1> QED
  BY <1>1, <1>2, <1>3

LEMMA AlertsKeepBanners ==
    ASSUME BannerInv, LoopAlerts \/ LoopFails \/ AlertLands
    PROVE  (Cleaning /\ WrittenInTheWait /\ BannersAreCleared)'
<1> USE DEF BannerInv, Cleaning, WrittenInTheWait, BannersAreCleared, Clears, Banners
<1>1. CASE LoopAlerts
  BY <1>1 DEF LoopAlerts, callbackVars
<1>2. CASE LoopFails
  BY <1>2 DEF LoopFails, Refused, callbackVars
<1>3. CASE AlertLands
  BY <1>3 DEF AlertLands, callbackVars
<1> QED
  BY <1>1, <1>2, <1>3

LEMMA ConnectsClearBanners ==
    ASSUME BannerInv, LoopSucceeds \/ ManualSucceeds \/ Startup
    PROVE  (Cleaning /\ WrittenInTheWait /\ BannersAreCleared)'
<1> USE DEF BannerInv
<1>1. CASE LoopSucceeds
  <2>1. Called /\ UNCHANGED alerts
    BY <1>1 DEF LoopSucceeds, alertVars
  <2>2. writing = {} \/ loop = "waiting"
    BY DEF WrittenInTheWait
  <2>3. WrittenInTheWait'
    BY <1>1, <2>2 DEF LoopSucceeds, alertVars, WrittenInTheWait
  <2> QED
    BY <2>1, <2>3, CalledClears
<1>2. CASE ManualSucceeds
  <2>1. Called /\ UNCHANGED alerts
    BY <1>2 DEF ManualSucceeds, Opened, alertVars
  <2>2. WrittenInTheWait'
    BY <1>2 DEF ManualSucceeds, Opened, Raised, alertVars, WrittenInTheWait
  <2> QED
    BY <2>1, <2>2, CalledClears
<1>3. CASE Startup
  <2>1. PICK r \in Replays : clearing' = [clearing EXCEPT ![r] = {"asked"}]
    BY <1>3 DEF Startup
  <2>2. clearing'[r] = {"asked"} /\ {"asked"} # None /\ Cleaning'
    BY <2>1, SessionAssumption DEF Cleaning, Clearings
  <2>3. WrittenInTheWait'
    BY <1>3 DEF Startup, alertVars, WrittenInTheWait
  <2> QED
    BY <2>2, <2>3 DEF BannersAreCleared, Clears
<1> QED
  BY <1>1, <1>2, <1>3

(* A callback finds every banner there is, and what it removes is gone.    *)
LEMMA CallbacksKeepBanners ==
    ASSUME BannerInv, NEW r \in Replays, Finds(r) \/ Removes(r)
    PROVE  (Cleaning /\ WrittenInTheWait /\ BannersAreCleared)'
<1> USE DEF BannerInv
<1>1. WrittenInTheWait'
  BY DEF Finds, Removes, alertVars, WrittenInTheWait
<1>2. CASE Finds(r)
  <2>1. clearing'[r] = IF alerts \cap Banners = {} THEN None ELSE alerts \cap Banners
    BY <1>2 DEF Finds, Cleaning
  <2>2. Cleaning'
    BY <1>2 DEF Finds, Cleaning, Clearings
  <2>3. alerts \cap Banners # None
    BY SessionAssumption
  <2>4. \A q \in Replays \ {r} : clearing'[q] = clearing[q]
    BY <1>2 DEF Finds, Cleaning
  <2>5. UNCHANGED <<engine, loop, alerts>>
    BY <1>2 DEF Finds, alertVars
  <2>6. \A x \in alerts \cap Banners : clearing'[r] # None /\ x \in clearing'[r]
    BY <2>1, <2>3
  <2> QED
    BY <1>1, <2>2, <2>5, <2>6 DEF BannersAreCleared, Clears
<1>3. CASE Removes(r)
  <2>1. Cleaning'
    BY <1>3 DEF Removes, Cleaning, Clearings
  <2>2. \A q \in Replays \ {r} : clearing'[q] = clearing[q]
    BY <1>3 DEF Removes, Cleaning
  <2>3. alerts' = alerts \ clearing[r] /\ clearing[r] # {"asked"} /\ UNCHANGED <<engine, loop>>
    BY <1>3 DEF Removes
  <2>4. \A x \in alerts' \cap Banners : ~ Clears(r, x)
    BY <2>3 DEF Clears
  <2> QED
    BY <1>1, <2>1, <2>2, <2>3, <2>4 DEF BannersAreCleared, Clears
<1> QED
  BY <1>2, <1>3

LEMMA RestKeepsBanners ==
    ASSUME BannerInv,
           \/ CycleStarts \/ CycleEnds \/ Crash
           \/ \E r \in Replays : ReplayEnds(r)
    PROVE  (Cleaning /\ WrittenInTheWait /\ BannersAreCleared)'
<1> USE DEF BannerInv, Cleaning, WrittenInTheWait, BannersAreCleared, Clears
<1>1. CASE CycleStarts
  BY <1>1 DEF CycleStarts, callbackVars, Banners
<1>2. CASE CycleEnds
  BY <1>2 DEF CycleEnds, callbackVars
<1>3. CASE Crash
  BY <1>3 DEF Crash, Forgotten, Clearings
<1>4. ASSUME NEW r \in Replays, ReplayEnds(r)
      PROVE  (Cleaning /\ WrittenInTheWait /\ BannersAreCleared)'
  <2>1. engine' # "connecting" => engine # "connecting"
    BY <1>4 DEF ReplayEnds, SessionInv, WalksConnected
  <2> QED
    BY <1>4, <2>1 DEF ReplayEnds, alertVars
<1> QED
  BY <1>1, <1>2, <1>3, <1>4

LEMMA BannersKeep == BannerInv /\ [Next]_vars => BannerInv'
<1> SUFFICES ASSUME BannerInv, [Next]_vars PROVE BannerInv'
  OBVIOUS
<1>1. SessionInv'
  BY SessionKeeps DEF BannerInv
<1>2. CASE BannersUntouched
  BY <1>1, <1>2 DEF BannersUntouched, BannerInv, Cleaning, WrittenInTheWait,
     BannersAreCleared, Clears
<1>3. CASE UNCHANGED vars
  BY <1>2, <1>3 DEF vars, BannersUntouched
<1>4. CASE Next
  BY <1>1, <1>2, <1>4, TasksLeaveBanners, BotsLeaveBanners, DropsKeepBanners,
     AlertsKeepBanners, ConnectsClearBanners, CallbacksKeepBanners, RestKeepsBanners
     DEF Next, BannerInv
<1> QED
  BY <1>3, <1>4

(* Once the session is back and its tasks are done, no banner says that it *)
(* is gone: the loop ends before the callback of its own connect reads the *)
(* alerts, the alarm of a failed attempt and a restart in between          *)
(* included.                                                               *)
THEOREM BannersAreTakenDown == Spec => []NoStaleBanner
<1>1. BannerInv => NoStaleBanner
  BY DEF BannerInv, BannersAreCleared, Clears, NoStaleBanner, Quiet, NoReplay
<1> QED
  BY <1>1, BannersStart, BannersKeep, PTL DEF Spec
----------------------------------------------------------------------------
(* WatchedIsFed.                                                           *)

Table == [Feeds -> Nat]
FeedTypes ==
    /\ setup \in SetupOf
    /\ refs \in Table /\ saved \in Table
    /\ counted \in [Actors -> Table]
    /\ ambient \in [Actors -> SUBSET Feeds]
    /\ asking \in [Actors -> Feeds \cup {None}]
    /\ held \subseteq Symbols
    /\ bots \in [Bots -> {"off", "starting", "on"}]

(* The table of references is what IB sends.                               *)
ServedIsCounted == served = {f \in Feeds : refs[f] > 0}

(* What a routine or a bot has been asked for is done before it is asked   *)
(* again.                                                                  *)
CycleRests == cycle = "idle" => counted["cycle"] = Nothing
BotsRest == \A b \in Bots : bots[b] # "starting" => counted[b] = Nothing

(* A feed somebody will ask for: the refresh asks again only for what it   *)
(* has cancelled with its references still counted, and a post-reconnect   *)
(* task that has not come to the watchlist yet will ask for all of it.     *)
AskedFor(f) ==
    \/ \E a \in Actors : counted[a][f] > 0
    \/ \E a \in Actors \ {"cycle"} : f \in ambient[a]
    \/ \E r \in Replays : stage[r] \in {"spawned", "pending"}

Watched == Quotes(Watchlist \cup held)
Attended ==
    engine # "connecting" /\ link = "up" /\ ~setup.stops =>
        \A q \in Watched : q \in served \/ AskedFor(q)

FeedParts == FeedTypes /\ ServedIsCounted /\ CycleRests /\ BotsRest /\ Attended
FeedInv == SessionInv /\ FeedParts

LEMMA NothingIsTable == Nothing \in Table /\ \A f \in Feeds : Nothing[f] = 0
BY DEF Nothing, Table

(* Taking one feed from what is asked for leaves nothing of nothing.       *)
LEMMA NothingStaysNothing ==
    ASSUME NEW C \in [Actors -> Table], NEW a \in Actors, NEW f \in Feeds,
           NEW x \in Actors, C[x] = Nothing
    PROVE  [C EXCEPT ![a][f] = 0][x] = Nothing
<1>1. CASE a = x
  <2>1. [C EXCEPT ![a][f] = 0][x] = [Nothing EXCEPT ![f] = 0]
    BY <1>1
  <2>2. [Nothing EXCEPT ![f] = 0] = Nothing
    BY DEF Nothing
  <2> QED
    BY <2>1, <2>2
<1> QED
  BY <1>1

LEMMA ActorsAreApart ==
    /\ Replays \subseteq Actors /\ Bots \subseteq Actors /\ Routines \subseteq Actors
    /\ \A r \in Replays : r \notin Bots /\ r # "cycle"
    /\ \A b \in Bots : b \notin Routines /\ b # "cycle"
    /\ "cycle" \notin Bots /\ "cycle" \in Actors
BY SessionAssumption DEF Actors, Routines

LEMMA WatchedAreFeeds ==
    held \subseteq Symbols => Watched \subseteq Feeds /\ Quotes(Seed \cup held) \subseteq Feeds
BY SessionAssumption DEF Watched, Quotes, Feeds

(* What is asked for stays so, or comes to be served.                      *)
LEMMA AttendedIsKept ==
    ASSUME FeedTypes, Attended, UNCHANGED <<held>>, setup'.stops = setup.stops,
           engine' # "connecting" /\ link' = "up" => engine # "connecting" /\ link = "up",
           \A f \in Feeds : f \in served \/ AskedFor(f) => (f \in served \/ AskedFor(f))'
    PROVE  Attended'
BY WatchedAreFeeds DEF FeedTypes, Attended, Watched

LEMMA FeedsStart == Init => FeedInv
<1> SUFFICES ASSUME Init PROVE FeedInv
  OBVIOUS
<1>1. SessionInv
  BY SessionStarts
<1>2. FeedTypes
  BY NothingIsTable, SessionAssumption DEF Init, FeedTypes
<1>3. ServedIsCounted
  BY NothingIsTable DEF Init, ServedIsCounted
<1>4. CycleRests /\ BotsRest
  BY ActorsAreApart DEF Init, CycleRests, BotsRest, Routines
<1>5. Attended
  BY DEF Init, Attended
<1> QED
  BY <1>1, <1>2, <1>3, <1>4, <1>5 DEF FeedInv, FeedParts

(* The loop, the operator's reconnect and the alerts have steps that touch *)
(* no feed.                                                                *)
FeedsLeft == UNCHANGED <<setup, engine, link, refs, served, saved, counted, ambient,
                         asking, held, bots, cycle, stage>>

LEMMA LeftKeepsFeeds == FeedParts /\ FeedsLeft => FeedParts'
BY DEF FeedParts, FeedsLeft, FeedTypes, ServedIsCounted, CycleRests, BotsRest, Attended,
       AskedFor, Watched

LEMMA SessionLeavesFeeds ==
    ASSUME \/ LoopAlerts \/ LoopConnects \/ ManualConnects \/ ManualEnds \/ AlertLands
           \/ \E r \in Replays : Finds(r) \/ Removes(r)
    PROVE  FeedsLeft
<1> USE DEF FeedsLeft, tableVars, taskVars, callbackVars
<1>1. CASE LoopAlerts
  BY <1>1 DEF LoopAlerts
<1>2. CASE LoopConnects
  BY <1>2 DEF LoopConnects
<1>3. CASE ManualConnects
  BY <1>3 DEF ManualConnects
<1>4. CASE ManualEnds
  BY <1>4 DEF ManualEnds
<1>5. CASE AlertLands
  BY <1>5 DEF AlertLands
<1>6. ASSUME NEW r, Finds(r) \/ Removes(r) PROVE FeedsLeft
  BY <1>6 DEF Finds, Removes
<1> QED
  BY <1>1, <1>2, <1>3, <1>4, <1>5, <1>6

(* An entry that is there takes the references; for one that is not the    *)
(* caller waits, and forgets nothing.                                      *)
LEMMA AsksKeeps ==
    ASSUME FeedParts, NEW a \in Actors \ {"cycle"}, NEW f \in Feeds, Asks(a, f)
    PROVE  FeedParts'
<1> USE DEF FeedParts
<1>1. CASE refs[f] > 0
  <2>1. /\ refs' = [refs EXCEPT ![f] = @ + counted[a][f]]
        /\ counted' = [counted EXCEPT ![a][f] = 0]
        /\ ambient' = IF counted[a][f] > 0 THEN ambient
                      ELSE [ambient EXCEPT ![a] = @ \ {f}]
        /\ UNCHANGED <<setup, engine, link, asking, served, saved, held, bots, cycle, stage>>
    BY <1>1 DEF Asks, callbackVars
  <2>2. FeedTypes'
    BY <2>1 DEF FeedTypes, Table
  <2>3. ServedIsCounted'
    BY <1>1, <2>1 DEF ServedIsCounted, FeedTypes, Table
  <2>4. CycleRests' /\ BotsRest'
    BY <2>1, ActorsAreApart, NothingStaysNothing DEF CycleRests, BotsRest, FeedTypes
  <2>5. f \in served
    BY <1>1 DEF ServedIsCounted
  <2>6. ASSUME NEW g \in Feeds, g # f, AskedFor(g) PROVE AskedFor(g)'
    BY <2>1, <2>6 DEF AskedFor, FeedTypes, Table
  <2>7. Attended'
    BY <2>1, <2>5, <2>6, AttendedIsKept
  <2> QED
    BY <2>2, <2>3, <2>4, <2>7
<1>2. CASE ~ refs[f] > 0
  <2>1. /\ asking' = [asking EXCEPT ![a] = f]
        /\ UNCHANGED <<setup, engine, link, refs, counted, ambient, served, saved, held, bots,
                       cycle, stage>>
    BY <1>2 DEF Asks, callbackVars
  <2>2. FeedTypes'
    BY <2>1 DEF FeedTypes
  <2> QED
    BY <2>1, <2>2 DEF ServedIsCounted, CycleRests, BotsRest, Attended, AskedFor, Watched
<1> QED
  BY <1>1, <1>2

(* A request that goes out serves its feed and leaves the others asked for. *)
LEMMA SubscribedKeeps ==
    ASSUME FeedParts, NEW a \in Actors, Subscribed(a)
    PROVE  FeedParts'
<1> USE DEF FeedParts
<1> DEFINE f == asking[a]
           n == IF counted[a][f] > 0 THEN counted[a][f] ELSE 1
<1>1. f \in Feeds /\ counted[a] \in Table
  BY DEF Subscribed, FeedTypes
<1>2. n \in Nat /\ n > 0
  BY <1>1 DEF Table
<1>3. /\ asking' = [asking EXCEPT ![a] = None]
      /\ ambient' = IF counted[a][f] > 0 THEN ambient ELSE [ambient EXCEPT ![a] = @ \ {f}]
      /\ UNCHANGED <<setup, engine, link, saved, held, cycle, stage>>
  BY DEF Subscribed, callbackVars
<1>4. CASE link = "up"
  <2>1. /\ refs' = [refs EXCEPT ![f] = n]
        /\ served' = served \cup {f}
        /\ counted' = [counted EXCEPT ![a][f] = 0]
        /\ bots' = bots
    BY <1>4 DEF Subscribed
  <2> HIDE DEF n
  <2>2. FeedTypes'
    BY <1>1, <1>2, <1>3, <2>1 DEF FeedTypes, Table
  <2>3. ServedIsCounted'
    BY <1>1, <1>2, <2>1 DEF ServedIsCounted, FeedTypes, Table
  <2>4. CycleRests' /\ BotsRest'
    BY <1>1, <1>3, <2>1, ActorsAreApart, NothingStaysNothing
       DEF CycleRests, BotsRest, FeedTypes
  <2>5. ASSUME NEW g \in Feeds, g # f, AskedFor(g) PROVE AskedFor(g)'
    BY <1>1, <1>3, <2>1, <2>5 DEF AskedFor, FeedTypes, Table
  <2>6. Attended'
    BY <1>3, <2>1, <2>5, AttendedIsKept
  <2> QED
    BY <2>2, <2>3, <2>4, <2>6
<1>5. CASE link # "up"
  <2>1. /\ UNCHANGED <<refs, served>>
        /\ counted' = IF a \in Bots /\ link = "down" THEN [counted EXCEPT ![a] = Nothing]
                      ELSE [counted EXCEPT ![a][f] = 0]
        /\ bots' = IF a \in Bots /\ link = "down" THEN [bots EXCEPT ![a] = "off"] ELSE bots
    BY <1>5 DEF Subscribed
  <2>2. counted' \in [Actors -> Table]
    BY <1>1, <2>1, NothingIsTable DEF FeedTypes, Table
  <2>3. FeedTypes'
    BY <1>1, <1>3, <2>1, <2>2 DEF FeedTypes
  <2>4. ServedIsCounted' /\ Attended'
    BY <1>3, <1>5, <2>1 DEF ServedIsCounted, Attended
  <2>5. \A x \in Actors : counted[x] = Nothing => counted'[x] = Nothing
    BY <1>1, <2>1, NothingStaysNothing DEF FeedTypes
  <2>6. CycleRests'
    BY <1>3, <2>5, ActorsAreApart DEF CycleRests
  <2>7. BotsRest'
    <3>1. CASE a \in Bots /\ link = "down"
      BY <2>1, <2>5, <3>1, ActorsAreApart DEF BotsRest, FeedTypes
    <3>2. CASE ~ (a \in Bots /\ link = "down")
      BY <2>1, <2>5, <3>2, ActorsAreApart DEF BotsRest
    <3> QED
      BY <3>1, <3>2
  <2> QED
    BY <2>3, <2>4, <2>6, <2>7
<1> QED
  BY <1>4, <1>5
(* Without a session nothing is attended to, and nothing has to be.        *)
LEMMA DownKeepsFeeds ==
    ASSUME FeedParts, Drop \/ ManualDrops \/ ManualFails \/ LoopFails
    PROVE  FeedParts'
<1>1. /\ UNCHANGED <<counted, ambient, asking, held, bots, cycle>>
      /\ link' = "down"
      /\ Wiped \/ UNCHANGED <<refs, served, saved>>
      /\ setup' \in SetupOf
  <2> USE DEF tableVars, taskVars, FeedParts, FeedTypes
  <2>1. CASE Drop
    BY <2>1 DEF Drop, Spend, SetupOf
  <2>2. CASE ManualDrops
    BY <2>2 DEF ManualDrops, Spend, SetupOf
  <2>3. CASE ManualFails
    BY <2>3 DEF ManualFails, Refused
  <2>4. CASE LoopFails
    BY <2>4 DEF LoopFails, Refused
  <2> QED
    BY <2>1, <2>2, <2>3, <2>4
<1>2. FeedTypes'
  BY <1>1, NothingIsTable DEF FeedParts, FeedTypes, Wiped
<1>3. ServedIsCounted'
  BY <1>1, NothingIsTable DEF FeedParts, ServedIsCounted, Wiped
<1>4. Attended'
  BY <1>1 DEF Attended
<1> QED
  BY <1>1, <1>2, <1>3, <1>4 DEF FeedParts, CycleRests, BotsRest

(* A session that is back has a task that will ask for the watchlist and   *)
(* the positions.                                                          *)
LEMMA ConnectKeepsFeeds ==
    ASSUME FeedInv, LoopSucceeds \/ ManualSucceeds
    PROVE  FeedParts'
<1>1. /\ UNCHANGED <<setup, counted, asking, held, bots, cycle>>
      /\ Wiped \/ UNCHANGED <<refs, served, saved>>
      /\ Called
      /\ \/ ambient' = ambient
         \/ ambient' = [ambient EXCEPT !["manual"] = Quotes(Seed \cup held)]
  <2>1. CASE LoopSucceeds
    BY <2>1 DEF LoopSucceeds, tableVars, taskVars
  <2>2. CASE ManualSucceeds
    BY <2>2 DEF ManualSucceeds, Opened, tableVars
  <2> QED
    BY <2>1, <2>2
<1>2. FeedTypes'
  BY <1>1, NothingIsTable, WatchedAreFeeds DEF FeedInv, FeedParts, FeedTypes, Wiped, Watched
<1>3. ServedIsCounted'
  BY <1>1, NothingIsTable DEF FeedInv, FeedParts, ServedIsCounted, Wiped
<1>4. \E r \in Replays : stage'[r] = "spawned"
  BY <1>1 DEF Called, FeedInv, SessionInv, Staged
<1>5. Attended'
  BY <1>4 DEF Attended, AskedFor
<1> QED
  BY <1>1, <1>2, <1>3, <1>5 DEF FeedInv, FeedParts, CycleRests, BotsRest

(* A restart forgets every feed, and its startup asks for what is watched. *)
LEMMA ProcessKeepsFeeds ==
    ASSUME FeedInv, Crash \/ Startup
    PROVE  FeedParts'
<1> USE DEF FeedInv, FeedParts
<1>1. CASE Crash
  <2>1. setup' \in SetupOf /\ UNCHANGED held
    BY <1>1 DEF Crash, Spend, SetupOf, FeedTypes
  <2>2. bots' \in [Bots -> {"off", "starting", "on"}]
    BY <1>1 DEF Crash, FeedTypes
  <2>3. FeedTypes'
    BY <1>1, <2>1, <2>2, NothingIsTable DEF Crash, Forgotten, FeedTypes
  <2>4. ServedIsCounted'
    BY <1>1, NothingIsTable DEF Crash, Forgotten, ServedIsCounted
  <2>5. CycleRests' /\ BotsRest'
    BY <1>1, ActorsAreApart DEF Crash, Forgotten, CycleRests, BotsRest
  <2>6. Attended'
    BY <1>1 DEF Crash, Attended
  <2> QED
    BY <2>3, <2>4, <2>5, <2>6
<1>2. CASE Startup
  <2>1. PICK r \in Replays : ambient' = [ambient EXCEPT ![r] = Watched]
    BY <1>2 DEF Startup, Watched
  <2>2. UNCHANGED <<setup, refs, served, saved, counted, asking, held, bots, cycle>>
    BY <1>2 DEF Startup, tableVars
  <2>3. FeedTypes'
    BY <2>1, <2>2, WatchedAreFeeds DEF FeedTypes
  <2>4. ambient'[r] = Watched /\ Watched' = Watched /\ r \in Actors \ {"cycle"}
    BY <2>1, <2>2, ActorsAreApart DEF FeedTypes, Watched
  <2>5. Attended'
    BY <2>4 DEF Attended, AskedFor
  <2> QED
    BY <2>2, <2>3, <2>5 DEF ServedIsCounted, CycleRests, BotsRest
<1> QED
  BY <1>1, <1>2

(* A post-reconnect task takes what was held at the drop, comes to the     *)
(* watchlist, and ends when nothing of it is left to ask.                  *)
LEMMA ReplayKeepsFeeds ==
    ASSUME FeedInv, NEW r \in Replays, Drains(r) \/ WalksAmbient(r) \/ ReplayEnds(r)
    PROVE  FeedParts'
<1> USE DEF FeedInv, FeedParts
<1> USE ActorsAreApart
<1>1. CASE Drains(r)
  <2>1. /\ stage' = [stage EXCEPT ![r] = "pending"]
        /\ counted' = [counted EXCEPT ![r] = saved]
        /\ saved' = Nothing
        /\ UNCHANGED <<setup, engine, link, refs, served, cycle, ambient, asking, bots, held>>
    BY <1>1 DEF Drains
  <2>2. FeedTypes'
    BY <2>1, NothingIsTable DEF FeedTypes
  <2>3. CycleRests' /\ BotsRest'
    BY <2>1 DEF CycleRests, BotsRest, FeedTypes
  <2>4. stage'[r] = "pending"
    BY <2>1 DEF SessionInv, Staged
  <2>5. Attended'
    BY <2>4 DEF Attended, AskedFor
  <2> QED
    BY <2>1, <2>2, <2>3, <2>5 DEF ServedIsCounted
<1>2. CASE WalksAmbient(r)
  <2>1. /\ ambient' = [ambient EXCEPT ![r] = Watched]
        /\ UNCHANGED <<setup, refs, served, saved, cycle, counted, asking, bots, held>>
    BY <1>2 DEF WalksAmbient, tableVars, Watched
  <2>2. FeedTypes'
    BY <2>1, WatchedAreFeeds DEF FeedTypes
  <2>3. ambient'[r] = Watched /\ Watched' = Watched
    BY <2>1 DEF FeedTypes, Watched
  <2>4. Attended'
    BY <2>3 DEF Attended, AskedFor
  <2> QED
    BY <2>1, <2>2, <2>4 DEF ServedIsCounted, CycleRests, BotsRest
<1>3. CASE ReplayEnds(r)
  <2>1. /\ UNCHANGED <<setup, link, refs, served, saved, cycle, counted, ambient, asking,
                       bots, held>>
        /\ stage' = [stage EXCEPT ![r] = "none"]
        /\ stage[r] \in {"ambient", "startup"}
    BY <1>3 DEF ReplayEnds, tableVars, taskVars
  <2>2. engine' # "connecting" => engine # "connecting"
    BY <1>3 DEF ReplayEnds, SessionInv, WalksConnected
  <2>3. ASSUME NEW f \in Feeds, AskedFor(f) PROVE AskedFor(f)'
    BY <2>1, <2>3 DEF AskedFor, SessionInv, Staged
  <2>4. Attended'
    BY <2>1, <2>2, <2>3, AttendedIsKept
  <2> QED
    BY <2>1, <2>4 DEF FeedTypes, ServedIsCounted, CycleRests, BotsRest
<1> QED
  BY <1>1, <1>2, <1>3

(* The refresh counts what it cancels as still to ask until it serves it.  *)
LEMMA CycleKeepsFeeds ==
    ASSUME FeedParts, CycleStarts \/ CycleEnds \/ \E f \in Feeds : CycleCancels(f) \/ CycleAsks(f)
    PROVE  FeedParts'
<1> USE DEF FeedParts
<1> USE ActorsAreApart
<1>1. CASE CycleStarts
  <2>1. /\ setup' \in SetupOf /\ setup'.stops = setup.stops
        /\ counted' = [counted EXCEPT !["cycle"] = refs]
        /\ cycle = "idle" /\ cycle' = "cycling"
        /\ UNCHANGED <<engine, link, refs, served, saved, ambient, asking, bots, held, stage>>
    BY <1>1 DEF CycleStarts, Spend, SetupOf, FeedTypes, tableVars, callbackVars
  <2>2. FeedTypes'
    BY <2>1 DEF FeedTypes
  <2>3. CycleRests' /\ BotsRest'
    BY <2>1 DEF CycleRests, BotsRest, FeedTypes
  <2>4. \A f \in Feeds : ~ (counted["cycle"][f] > 0)
    BY <2>1, NothingIsTable DEF CycleRests
  <2>5. ASSUME NEW f \in Feeds, AskedFor(f) PROVE AskedFor(f)'
    BY <2>1, <2>4, <2>5 DEF AskedFor, FeedTypes
  <2>6. Attended'
    BY <2>1, <2>5, AttendedIsKept
  <2> QED
    BY <2>1, <2>2, <2>3, <2>6 DEF ServedIsCounted
<1>2. CASE CycleEnds
  <2>1. /\ counted["cycle"] = Nothing
        /\ UNCHANGED <<setup, engine, link, refs, served, saved, counted, ambient, asking, bots,
                       held, stage>>
    BY <1>2 DEF CycleEnds, Busy, tableVars, taskVars, callbackVars
  <2> QED
    BY <2>1 DEF FeedTypes, ServedIsCounted, CycleRests, BotsRest, Attended, AskedFor, Watched
<1>3. ASSUME NEW f \in Feeds, CycleCancels(f) PROVE FeedParts'
  <2>1. /\ counted["cycle"][f] > 0 /\ cycle' = "pausing"
        /\ refs' = [refs EXCEPT ![f] = 0]
        /\ served' = served \ {f}
        /\ ambient' = [ambient EXCEPT !["cycle"] = {f}]
        /\ UNCHANGED <<setup, engine, link, saved, counted, asking, bots, held, stage>>
    BY <1>3 DEF CycleCancels, callbackVars
  <2>2. FeedTypes'
    BY <2>1 DEF FeedTypes, Table
  <2>3. ServedIsCounted'
    BY <2>1 DEF ServedIsCounted, FeedTypes, Table
  <2>4. ASSUME NEW g \in Feeds, g \in served \/ AskedFor(g) PROVE (g \in served \/ AskedFor(g))'
    BY <2>1, <2>4 DEF AskedFor, FeedTypes
  <2>5. Attended'
    BY <2>1, <2>4, AttendedIsKept
  <2> QED
    BY <2>1, <2>2, <2>3, <2>5 DEF CycleRests, BotsRest
<1>4. ASSUME NEW f \in Feeds, CycleAsks(f) PROVE FeedParts'
  <2>1. /\ cycle' = "cycling"
        /\ ambient' = [ambient EXCEPT !["cycle"] = {}]
        /\ UNCHANGED <<setup, engine, link, served, saved, bots, held, stage>>
    BY <1>4 DEF CycleAsks, callbackVars
  <2>2. CASE refs[f] > 0
    <3>1. /\ refs' = [refs EXCEPT ![f] = @ + counted["cycle"][f]]
          /\ counted' = [counted EXCEPT !["cycle"][f] = 0]
          /\ UNCHANGED asking
      BY <1>4, <2>2 DEF CycleAsks
    <3>2. FeedTypes'
      BY <2>1, <3>1 DEF FeedTypes, Table
    <3>3. ServedIsCounted'
      BY <2>1, <2>2, <3>1 DEF ServedIsCounted, FeedTypes, Table
    <3>4. CycleRests' /\ BotsRest'
      BY <2>1, <3>1 DEF CycleRests, BotsRest, FeedTypes
    <3>5. f \in served
      BY <2>2 DEF ServedIsCounted
    <3>6. ASSUME NEW g \in Feeds, g # f, AskedFor(g) PROVE AskedFor(g)'
      BY <2>1, <3>1, <3>6 DEF AskedFor, FeedTypes, Table
    <3>7. Attended'
      BY <2>1, <3>5, <3>6, AttendedIsKept
    <3> QED
      BY <3>2, <3>3, <3>4, <3>7
  <2>3. CASE ~ refs[f] > 0
    <3>1. asking' = [asking EXCEPT !["cycle"] = f] /\ UNCHANGED <<refs, counted>>
      BY <1>4, <2>3 DEF CycleAsks
    <3>2. FeedTypes'
      BY <2>1, <3>1 DEF FeedTypes
    <3>3. ASSUME NEW g \in Feeds, AskedFor(g) PROVE AskedFor(g)'
      BY <2>1, <3>1, <3>3 DEF AskedFor, FeedTypes
    <3>4. Attended'
      BY <2>1, <3>3, AttendedIsKept
    <3> QED
      BY <2>1, <3>1, <3>2, <3>4 DEF ServedIsCounted, CycleRests, BotsRest
  <2> QED
    BY <2>2, <2>3
<1> QED
  BY <1>1, <1>2, <1>3, <1>4

(* A bot, a position and a reload ask for more; only bots that stop give   *)
(* anything up.                                                            *)
LEMMA BotsKeepFeeds ==
    ASSUME FeedParts, NEW b \in Bots, BotStarts(b) \/ BotIsOn(b) \/ BotStops(b)
    PROVE  FeedParts'
<1> USE DEF FeedParts
<1> USE ActorsAreApart
<1>1. CASE BotStarts(b)
  <2>1. /\ bots[b] = "off" /\ bots' = [bots EXCEPT ![b] = "starting"]
        /\ counted' = [counted EXCEPT ![b] = [f \in Feeds |-> IF f \in FeedsOf(b) THEN 1 ELSE 0]]
        /\ UNCHANGED <<setup, engine, link, refs, served, saved, cycle, ambient, asking, held,
                       stage>>
    BY <1>1 DEF BotStarts, tableVars, callbackVars
  <2>2. [f \in Feeds |-> IF f \in FeedsOf(b) THEN 1 ELSE 0] \in Table
    BY DEF Table
  <2>3. FeedTypes'
    BY <2>1, <2>2 DEF FeedTypes
  <2>4. CycleRests' /\ BotsRest'
    BY <2>1 DEF CycleRests, BotsRest, FeedTypes
  <2>5. \A f \in Feeds : ~ (counted[b][f] > 0)
    BY <2>1, NothingIsTable DEF BotsRest
  <2>6. ASSUME NEW f \in Feeds, AskedFor(f) PROVE AskedFor(f)'
    BY <2>1, <2>5, <2>6 DEF AskedFor, FeedTypes
  <2>7. Attended'
    BY <2>1, <2>6, AttendedIsKept
  <2> QED
    BY <2>1, <2>3, <2>4, <2>7 DEF ServedIsCounted
<1>2. CASE BotIsOn(b)
  <2>1. /\ counted[b] = Nothing /\ bots' = [bots EXCEPT ![b] = "on"]
        /\ UNCHANGED <<setup, engine, link, refs, served, saved, cycle, counted, ambient, asking,
                       held, stage>>
    BY <1>2 DEF BotIsOn, Busy, tableVars, taskVars, callbackVars
  <2>2. FeedTypes' /\ BotsRest'
    BY <2>1 DEF FeedTypes, BotsRest
  <2> QED
    BY <2>1, <2>2 DEF ServedIsCounted, CycleRests, Attended, AskedFor, Watched
<1>3. CASE BotStops(b)
  <2>1. /\ setup.stops /\ Released(FeedsOf(b)) /\ bots[b] = "on"
        /\ bots' = [bots EXCEPT ![b] = "off"]
        /\ UNCHANGED <<setup, engine, link, saved, cycle, counted, ambient, asking, held, stage>>
    BY <1>3 DEF BotStops, taskVars, callbackVars
  <2>2. FeedTypes'
    BY <2>1 DEF FeedTypes, Released, Table
  <2>3. BotsRest'
    BY <2>1 DEF FeedTypes, BotsRest
  <2>4. ServedIsCounted'
    BY <2>1 DEF Released, ServedIsCounted, FeedTypes, Table
  <2> QED
    BY <2>1, <2>2, <2>3, <2>4 DEF CycleRests, Attended
<1> QED
  BY <1>1, <1>2, <1>3

LEMMA PositionKeepsFeeds ==
    ASSUME FeedParts, NEW s \in Symbols, PositionOpens(s)
    PROVE  FeedParts'
<1> USE DEF FeedParts
<1> USE ActorsAreApart DEF Routines
<1>1. /\ setup' \in SetupOf /\ setup'.stops = setup.stops
      /\ held' = held \cup {s}
      /\ ambient' = [ambient EXCEPT !["position"] = @ \cup Quotes({s})]
      /\ UNCHANGED <<engine, link, refs, served, saved, cycle, counted, asking, bots, stage>>
  BY DEF PositionOpens, Spend, SetupOf, FeedTypes, tableVars, callbackVars
<1>2. FeedTypes'
  BY <1>1 DEF FeedTypes, Quotes, Feeds
<1>3. ASSUME NEW f \in Feeds, AskedFor(f) PROVE AskedFor(f)'
  BY <1>1, <1>3 DEF AskedFor, FeedTypes
<1>4. ASSUME NEW q \in Quotes({s}) PROVE AskedFor(q)'
  BY <1>1 DEF AskedFor, FeedTypes
<1>5. Watched' = Watched \cup Quotes({s}) /\ Watched \subseteq Feeds
  BY <1>1, WatchedAreFeeds DEF Watched, Quotes, FeedTypes
<1>6. Attended'
  BY <1>1, <1>3, <1>4, <1>5 DEF Attended
<1> QED
  BY <1>1, <1>2, <1>6 DEF ServedIsCounted, CycleRests, BotsRest

LEMMA ReloadKeepsFeeds == FeedParts /\ Reload => FeedParts'
<1> SUFFICES ASSUME FeedParts, Reload PROVE FeedParts'
  OBVIOUS
<1> USE DEF FeedParts
<1> USE ActorsAreApart DEF Routines
<1>1. /\ setup' \in SetupOf /\ setup'.stops = setup.stops
      /\ counted["reload"] = Nothing
      /\ counted' = [counted EXCEPT !["reload"] =
                        [f \in Feeds |-> IF f \in Quotes(Watchlist) THEN 1 ELSE 0]]
      /\ UNCHANGED <<engine, link, refs, served, saved, cycle, ambient, asking, held, bots, stage>>
  BY DEF Reload, Busy, Spend, SetupOf, FeedTypes, tableVars, callbackVars
<1>2. [f \in Feeds |-> IF f \in Quotes(Watchlist) THEN 1 ELSE 0] \in Table
  BY DEF Table
<1>3. FeedTypes'
  BY <1>1, <1>2 DEF FeedTypes
<1>4. CycleRests' /\ BotsRest'
  BY <1>1 DEF CycleRests, BotsRest, FeedTypes
<1>5. \A f \in Feeds : ~ (counted["reload"][f] > 0)
  BY <1>1, NothingIsTable
<1>6. ASSUME NEW f \in Feeds, AskedFor(f) PROVE AskedFor(f)'
  BY <1>1, <1>5, <1>6 DEF AskedFor, FeedTypes
<1>7. Attended'
  BY <1>1, <1>6, AttendedIsKept
<1> QED
  BY <1>1, <1>3, <1>4, <1>7 DEF ServedIsCounted

LEMMA FeedsKeep == FeedInv /\ [Next]_vars => FeedInv'
<1> SUFFICES ASSUME FeedInv, [Next]_vars PROVE FeedInv'
  OBVIOUS
<1>1. SessionInv'
  BY SessionKeeps DEF FeedInv
<1>2. CASE FeedsLeft
  BY <1>1, <1>2, LeftKeepsFeeds DEF FeedInv
<1>3. CASE UNCHANGED vars
  BY <1>2, <1>3 DEF vars, FeedsLeft
<1>4. CASE Next
  BY <1>1, <1>2, <1>4, SessionLeavesFeeds, AsksKeeps, SubscribedKeeps, DownKeepsFeeds,
     ConnectKeepsFeeds, ProcessKeepsFeeds, ReplayKeepsFeeds, CycleKeepsFeeds, BotsKeepFeeds,
     PositionKeepsFeeds, ReloadKeepsFeeds DEF Next, FeedInv
<1> QED
  BY <1>3, <1>4

(* Where bots keep their references, a session that has come to rest       *)
(* serves the quotes of every contract of the watchlist and of every       *)
(* position: whatever is not served has somebody who will still ask.       *)
THEOREM WatchedAreFed == Spec => []WatchedIsFed
<1>1. ASSUME FeedInv, Quiet, ~setup.stops PROVE Watched \subseteq served
  <2>1. \A a \in Actors : counted[a] = Nothing /\ ambient[a] = {}
    BY <1>1 DEF Quiet, Busy
  <2>2. Watched \subseteq Feeds
    BY <1>1, WatchedAreFeeds DEF FeedInv, FeedParts, FeedTypes
  <2>3. \A q \in Watched : ~ AskedFor(q)
    BY <1>1, <2>1, <2>2, NothingIsTable DEF AskedFor, Quiet, NoReplay
  <2> QED
    BY <1>1, <2>3 DEF FeedInv, FeedParts, Attended, Quiet
<1>2. FeedInv => WatchedIsFed
  BY <1>1 DEF WatchedIsFed, Watched
<1> QED
  BY <1>2, FeedsStart, FeedsKeep, PTL DEF Spec
----------------------------------------------------------------------------
(* BotsAreFed.                                                             *)

(* In an orderly run one actor is at work at a time, but for the           *)
(* operator's reconnect beside the connect callback's task.                *)
Doing(a) ==
    \/ Busy(a)
    \/ a \in Replays /\ stage[a] # "none"
    \/ a = "manual" /\ manual # "idle"
    \/ a = "cycle" /\ cycle # "idle"
Together(a, c) == setup.byHand /\ a = "manual" /\ c \in Replays
OneAtATime ==
    \A a, c \in Actors : Doing(a) /\ Doing(c) => a = c \/ Together(a, c) \/ Together(c, a)

(* Who subscribes has got to where it does.                                *)
InPlace ==
    /\ \A r \in Replays : Busy(r) => stage[r] \in {"pending", "ambient", "startup"}
    /\ Busy("manual") => manual = "subscribing"

(* Nobody subscribes without a session, and one that is up is not being    *)
(* reconnected.                                                            *)
LinkRests ==
    /\ link = "down" =>
          \A a \in Actors : Doing(a) => a = "manual" /\ manual \in {"settling", "connecting"}
    /\ link # "down" => link = "up" /\ loop = "idle" /\ manual \in {"idle", "subscribing"}
    /\ loop # "idle" => manual = "idle"
    /\ ~setup.byHand => manual = "idle"
NotStarted ==
    engine = "connecting" =>
        link = "down" /\ loop = "idle" /\ manual = "idle" /\ \A b \in Bots : bots[b] = "off"
Uncrashed == setup.crashes = 0 /\ \A b \in Bots : bots[b] # "off" => b \in setup.bots

InTurn == OneAtATime /\ InPlace /\ LinkRests /\ NotStarted /\ Uncrashed

(* The bots that have taken their reference of a feed.                     *)
Owners(f) == {b \in Bots : bots[b] # "off" /\ f \in FeedsOf(b) /\ counted[b][f] = 0}

(* What was held at the drop counts until the callback's task takes it.    *)
Kept == link = "down" \/ \E r \in Replays : stage[r] = "spawned"

(* The reference of a bot alone in its contract is in the table, kept from *)
(* the drop, or in the hands of somebody who will ask again.               *)
CountedSomewhere(f) ==
    \/ refs[f] > 0
    \/ Kept /\ saved[f] > 0
    \/ \E a \in Actors : counted[a][f] > 0
AloneIsCounted ==
    \A b \in Bots : \A f \in FeedsOf(b) : Alone(b) /\ b \in Owners(f) => CountedSomewhere(f)

(* Where the operator does not reconnect, the references of all bots of a  *)
(* feed are in one place; the refresh has them of what it cancels; and     *)
(* who awaits the throttle finds no entry after it either.                 *)
HaveAll(f, n) == IsFiniteSet(Owners(f)) /\ Cardinality(Owners(f)) <= n
InOnePlace(f) ==
    \/ HaveAll(f, refs[f])
    \/ Kept /\ HaveAll(f, saved[f])
    \/ \E a \in Replays \cup {"cycle"} : HaveAll(f, counted[a][f])
Counted(f) ==
    /\ InOnePlace(f)
    /\ counted["cycle"][f] > 0 => HaveAll(f, counted["cycle"][f])
    /\ \A a \in Actors : asking[a] = f => refs[f] = 0
AllAreCounted == ~setup.byHand => \A f \in Feeds : Counted(f)

(* A restart of the engine gives no bot its bars back, so an orderly run   *)
(* has none.                                                               *)
Orderly == \A s \in Setups : s.orderly => s.crashes = 0
FedParts == setup.orderly => InTurn /\ AloneIsCounted /\ AllAreCounted
BotsFedInv == FeedInv /\ FedParts

LEMMA BotFeedsAreFeeds ==
    /\ \A b \in Bots : FeedsOf(b) \subseteq Feeds
    /\ \A b, c \in Bots : SymbolOf[b] # SymbolOf[c] => FeedsOf(b) \cap FeedsOf(c) = {}
BY SessionAssumption DEF FeedsOf, Feeds

LEMMA TasksAreNoRoutines ==
    \A x \in Replays \cup Bots : x \notin {"manual", "cycle", "position", "reload"}
BY SessionAssumption DEF Routines

(* Whoever starts something finds nobody at work.                          *)
LEMMA QuietIsIdle == Quiet => link = "up" /\ loop = "idle" /\ \A a \in Actors : ~Doing(a)
BY DEF Quiet, NoReplay, Doing

(* What nobody new joins stays in turn, and one alone is in turn.          *)
LEMMA NobodyNew ==
    ASSUME OneAtATime, setup'.byHand = setup.byHand,
           \A a \in Actors : Doing(a)' => Doing(a)
    PROVE  OneAtATime'
BY DEF OneAtATime, Together

LEMMA OneNew ==
    ASSUME NEW x, \A a \in Actors : Doing(a)' => a = x
    PROVE  OneAtATime'
BY DEF OneAtATime

(* Who subscribes has a session, and shares it with nobody but the         *)
(* operator's reconnect.                                                   *)
LEMMA BusyHasSession ==
    ASSUME InTurn, NEW a \in Actors, Busy(a)
    PROVE  link = "up" /\ loop = "idle" /\ engine # "connecting"
<1>1. Doing(a)
  BY DEF Doing
<1>2. link # "down"
  <2>1. SUFFICES ASSUME link = "down" PROVE FALSE
    OBVIOUS
  <2>2. a = "manual" /\ manual \in {"settling", "connecting"}
    BY <1>1, <2>1 DEF InTurn, LinkRests
  <2> QED
    BY <2>2 DEF InTurn, InPlace
<1> QED
  BY <1>2 DEF InTurn, LinkRests, NotStarted

(* Turns.                                                                  *)

LEMMA SetupStays ==
    ASSUME FeedTypes, [Next]_vars
    PROVE  /\ setup'.orderly = setup.orderly /\ setup'.byHand = setup.byHand
           /\ setup'.bots = setup.bots
           /\ setup.crashes = 0 => setup'.crashes = 0 /\ ~Crash
<1>1. setup' = setup \/ \E w \in {"drops", "manual", "cycles", "crashes", "reloads", "positions"} :
                           Spend(w) /\ (w = "crashes" => Crash)
  BY Zenon DEF Next, vars, Asks, Subscribed, Drop, LoopAlerts, LoopConnects, LoopSucceeds,
     LoopFails, ManualDrops, ManualConnects, ManualSucceeds, ManualFails, ManualEnds, Drains,
     WalksAmbient, ReplayEnds, Finds, Removes, AlertLands, CycleStarts, CycleEnds, CycleCancels,
     CycleAsks, BotStarts, BotIsOn, BotStops, PositionOpens, Reload, Crash, Startup
<1>2. ASSUME Crash PROVE setup.crashes > 0
  BY <1>2 DEF Crash, Spend
<1>3. setup.crashes = 0 => ~Crash
  BY <1>2
<1>4. CASE setup' = setup
  BY <1>3, <1>4
<1>5. ASSUME NEW w \in {"drops", "manual", "cycles", "crashes", "reloads", "positions"},
             Spend(w), w = "crashes" => Crash
      PROVE  /\ setup'.orderly = setup.orderly /\ setup'.byHand = setup.byHand
             /\ setup'.bots = setup.bots
             /\ setup.crashes = 0 => setup'.crashes = 0
  BY <1>3, <1>5 DEF Spend, FeedTypes, SetupOf
<1> QED
  BY <1>1, <1>3, <1>4, <1>5

(* The bots that run are the setup's, and what has started goes on.        *)
LEMMA UncrashedStays ==
    ASSUME FeedTypes, Uncrashed, [Next]_vars,
           \A b \in Bots : bots'[b] # "off" => bots[b] # "off" \/ b \in setup.bots
    PROVE  Uncrashed'
BY SetupStays DEF Uncrashed

LEMMA AsksInTurn ==
    ASSUME FeedInv, InTurn, NEW a \in Actors \ {"cycle"}, NEW f \in Feeds, Asks(a, f)
    PROVE  InTurn'
<1>1. /\ ambient \in [Actors -> SUBSET Feeds] /\ counted \in [Actors -> Table]
      /\ asking \in [Actors -> Feeds \cup {None}]
  BY DEF FeedInv, FeedParts, FeedTypes
<1>2. UNCHANGED <<setup, engine, link, loop, manual, cycle, stage, bots>>
  BY Zenon DEF Asks, callbackVars
<1>3. /\ counted' = counted \/ counted' = [counted EXCEPT ![a][f] = 0]
      /\ ambient' = ambient \/ ambient' = [ambient EXCEPT ![a] = @ \ {f}]
      /\ asking' = asking \/ asking' = [asking EXCEPT ![a] = f]
  BY Zenon DEF Asks
<1>4. Busy(a)
  BY <1>1, NothingIsTable DEF Asks, Busy
<1>5. ASSUME NEW c \in Actors, c # a PROVE Busy(c)' <=> Busy(c)
  BY <1>1, <1>3, <1>5 DEF Busy
<1>6. ASSUME NEW c \in Actors PROVE (Busy(c)' => Busy(c)) /\ (Doing(c)' => Doing(c))
  <2>1. Busy(c)' => Busy(c)
    BY <1>4, <1>5
  <2> QED
    BY <1>2, <2>1 DEF Doing
<1>7. OneAtATime'
  BY <1>2, <1>6, NobodyNew DEF InTurn
<1>8. InPlace'
  BY <1>2, <1>6, ActorsAreApart DEF InTurn, InPlace, Routines
<1>9. LinkRests' /\ NotStarted' /\ Uncrashed'
  BY <1>2, <1>6 DEF InTurn, LinkRests, NotStarted, Uncrashed
<1> QED
  BY <1>7, <1>8, <1>9 DEF InTurn

LEMMA SubscribedInTurn ==
    ASSUME FeedInv, InTurn, NEW a \in Actors, Subscribed(a)
    PROVE  InTurn' /\ link = "up" /\ bots' = bots
<1> DEFINE f == asking[a]
<1>1. /\ ambient \in [Actors -> SUBSET Feeds] /\ counted \in [Actors -> Table]
      /\ asking \in [Actors -> Feeds \cup {None}]
  BY DEF FeedInv, FeedParts, FeedTypes
<1>2. UNCHANGED <<setup, engine, link, loop, manual, cycle, stage>>
  BY Zenon DEF Subscribed, callbackVars
<1>3. Busy(a)
  BY DEF Subscribed, Busy
<1>4. link = "up"
  BY <1>3, BusyHasSession
<1>5. /\ counted' = [counted EXCEPT ![a][f] = 0]
      /\ ambient' = ambient \/ ambient' = [ambient EXCEPT ![a] = @ \ {f}]
      /\ asking' = [asking EXCEPT ![a] = None]
      /\ bots' = bots
  BY <1>4 DEF Subscribed
<1>6. ASSUME NEW c \in Actors, c # a PROVE Busy(c)' <=> Busy(c)
  BY <1>1, <1>5, <1>6 DEF Busy
<1>7. ASSUME NEW c \in Actors PROVE (Busy(c)' => Busy(c)) /\ (Doing(c)' => Doing(c))
  <2>1. Busy(c)' => Busy(c)
    BY <1>3, <1>6
  <2> QED
    BY <1>2, <2>1 DEF Doing
<1>8. OneAtATime'
  BY <1>2, <1>7, NobodyNew DEF InTurn
<1>9. InPlace'
  BY <1>2, <1>7, ActorsAreApart DEF InTurn, InPlace, Routines
<1>10. LinkRests' /\ NotStarted' /\ Uncrashed'
  BY <1>2, <1>5, <1>7 DEF InTurn, LinkRests, NotStarted, Uncrashed
<1> QED
  BY <1>4, <1>5, <1>8, <1>9, <1>10 DEF InTurn

(* The steps of the loop, the operator's reconnect and the callbacks that  *)
(* move no feed.                                                           *)
LEMMA LeavesInTurn ==
    ASSUME FeedInv, InTurn,
           \/ LoopAlerts \/ LoopConnects \/ ManualConnects \/ ManualEnds \/ AlertLands
           \/ \E r \in Replays : Finds(r) \/ Removes(r)
    PROVE  InTurn'
<1>1. FeedsLeft
  BY SessionLeavesFeeds
<1>2. engine' = engine /\ UNCHANGED <<setup, link, cycle, stage, bots>>
  <2>1. engine' = engine
    BY Zenon DEF LoopAlerts, LoopConnects, ManualConnects, ManualEnds, AlertLands, Finds, Removes
  <2> QED
    BY <1>1, <2>1 DEF FeedsLeft
<1>3. \A a \in Actors : Busy(a)' <=> Busy(a)
  BY <1>1 DEF FeedsLeft, Busy
<1>4. \/ UNCHANGED <<loop, manual>>
      \/ loop # "idle" /\ loop' # "idle" /\ manual' = manual
      \/ loop' = loop /\ manual = "settling" /\ manual' = "connecting"
      \/ loop' = loop /\ manual = "subscribing" /\ manual' = "idle" /\ ~Busy("manual")
  BY DEF LoopAlerts, LoopConnects, ManualConnects, ManualEnds, AlertLands, Finds, Removes
<1>5. \A a \in Actors : Doing(a)' => Doing(a)
  BY <1>2, <1>3, <1>4 DEF Doing
<1>6. OneAtATime'
  BY <1>2, <1>5, NobodyNew DEF InTurn
<1>7. InPlace'
  BY <1>2, <1>3, <1>4, ActorsAreApart DEF InTurn, InPlace, Routines
<1>8. LinkRests'
  BY <1>2, <1>4, <1>5 DEF InTurn, LinkRests
<1>9. NotStarted' /\ Uncrashed'
  BY <1>2, <1>4 DEF InTurn, NotStarted, Uncrashed
<1> QED
  BY <1>6, <1>7, <1>8, <1>9 DEF InTurn

(* A drop comes to a session at rest, and a failed attempt leaves it down. *)
LEMMA DownInTurn ==
    ASSUME FeedInv, InTurn, setup.orderly, [Next]_vars,
           Drop \/ ManualDrops \/ ManualFails \/ LoopFails
    PROVE  InTurn'
<1>1. UNCHANGED <<engine, cycle, stage, counted, ambient, asking, bots>> /\ link' = "down"
  <2>1. UNCHANGED <<engine, cycle, stage, counted, ambient, asking, bots>>
    BY Zenon DEF Drop, ManualDrops, ManualFails, LoopFails, Refused, callbackVars, taskVars
  <2>2. link' = "down"
    BY DEF Drop, ManualDrops, ManualFails, LoopFails, Refused
  <2> QED
    BY <2>1, <2>2
<1>2. setup'.byHand = setup.byHand
  BY SetupStays DEF FeedInv, FeedParts
<1>3. \A a \in Actors : Busy(a)' <=> Busy(a)
  BY <1>1 DEF Busy
<1>4. Uncrashed'
  BY <1>1, UncrashedStays DEF InTurn, FeedInv, FeedParts
<1>5. CASE Drop
  <2>1. Quiet /\ UNCHANGED manual /\ engine # "connecting"
    BY <1>5 DEF Drop, Calm
  <2>2. manual' = "idle" /\ \A a \in Actors : ~Doing(a)'
    BY <1>1, <1>3, <2>1, QuietIsIdle DEF Doing, Quiet
  <2>3. InPlace' /\ LinkRests' /\ NotStarted'
    BY <1>1, <2>1, <2>2, ActorsAreApart DEF InPlace, LinkRests, NotStarted, Doing, Routines
  <2>4. OneAtATime'
    BY <2>2 DEF OneAtATime
  <2> QED
    BY <1>4, <2>3, <2>4 DEF InTurn
<1>6. CASE ManualDrops
  <2>1. Quiet /\ manual' = "settling" /\ engine # "connecting" /\ setup.byHand /\ loop' = loop
    BY <1>6 DEF ManualDrops, Calm
  <2>2. loop = "idle" /\ \A a \in Actors : ~Doing(a)
    BY <2>1, QuietIsIdle
  <2>3. \A a \in Actors : Doing(a)' => a = "manual"
    BY <1>1, <1>3, <2>2 DEF Doing
  <2>4. InPlace'
    BY <1>1, <1>3, <2>2, ActorsAreApart DEF InPlace, Doing, Routines
  <2>5. LinkRests' /\ NotStarted'
    BY <1>1, <1>2, <2>1, <2>2, <2>3 DEF LinkRests, NotStarted
  <2>6. OneAtATime'
    BY <2>3, OneNew
  <2> QED
    BY <1>4, <2>4, <2>5, <2>6 DEF InTurn
<1>7. CASE ManualFails \/ LoopFails
  <2>1. link = "down" /\ manual' = "idle" /\ engine # "connecting"
    BY <1>7 DEF ManualFails, LoopFails, InTurn, LinkRests, NotStarted
  <2>2. \A a \in Actors : Doing(a) => a = "manual" /\ manual \in {"settling", "connecting"}
    BY <2>1 DEF InTurn, LinkRests
  <2>3. ~Busy("manual")
    BY <2>1, <2>2, ActorsAreApart DEF InTurn, InPlace, Doing, Routines
  <2>4. \A a \in Actors : ~Doing(a)'
    BY <1>1, <1>3, <2>1, <2>2, <2>3, ActorsAreApart, TasksAreNoRoutines DEF Doing
  <2>5. InPlace' /\ LinkRests' /\ NotStarted' /\ OneAtATime'
    BY <1>1, <2>1, <2>4, ActorsAreApart
       DEF InPlace, LinkRests, NotStarted, OneAtATime, Doing, Routines
  <2> QED
    BY <1>4, <2>5 DEF InTurn
<1> QED
  BY <1>5, <1>6, <1>7

(* A session that is back is restored by one task, and by the operator.    *)
LEMMA ConnectInTurn ==
    ASSUME FeedInv, InTurn, LoopSucceeds \/ ManualSucceeds
    PROVE  InTurn' /\ link = "down" /\ link' = "up"
<1>1. /\ UNCHANGED <<setup, engine, cycle, counted, asking, bots>>
      /\ Called /\ link' = "up"
  <2>1. UNCHANGED <<setup, engine, cycle, counted, asking, bots>>
    BY Zenon DEF LoopSucceeds, ManualSucceeds, taskVars
  <2>2. Called /\ link' = "up"
    BY DEF LoopSucceeds, ManualSucceeds, Opened
  <2> QED
    BY <2>1, <2>2
<1>2. link = "down"
  BY DEF LoopSucceeds, ManualSucceeds, InTurn, LinkRests
<1>3. \A a \in Actors : Doing(a) => a = "manual" /\ manual \in {"settling", "connecting"}
  BY <1>2 DEF InTurn, LinkRests
<1>4. ~Busy("manual")
  BY <1>2, <1>3, ActorsAreApart DEF InTurn, InPlace, Doing, Routines
<1>5. \A a \in Actors : ~Busy(a)
  BY <1>3, <1>4 DEF Doing
<1>6. PICK r \in Replays : stage' = [stage EXCEPT ![r] = "spawned"]
  BY <1>1 DEF Called
<1>7. \A q \in Replays : stage[q] = "none"
  BY <1>3, ActorsAreApart, TasksAreNoRoutines DEF Doing
<1>8. cycle = "idle"
  BY <1>3, ActorsAreApart DEF Doing
<1>9. stage \in [Replays -> {"none", "spawned", "pending", "ambient", "startup"}]
  BY DEF FeedInv, SessionInv, Staged
<1>10. engine # "connecting" /\ NotStarted' /\ Uncrashed'
  BY <1>1 DEF InTurn, NotStarted, LoopSucceeds, ManualSucceeds, Uncrashed
<1>11. CASE LoopSucceeds
  <2>1. loop = "connecting" /\ loop' = "idle" /\ manual' = manual /\ ambient' = ambient
    BY <1>11, Zenon DEF LoopSucceeds, taskVars
  <2>2. manual = "idle"
    BY <2>1 DEF InTurn, LinkRests
  <2>3. \A a \in Actors : ~Busy(a)'
    BY <1>1, <1>5, <2>1 DEF Busy
  <2>4. \A a \in Actors : Doing(a)' => a = r
    BY <1>1, <1>6, <1>7, <1>8, <2>1, <2>2, <2>3 DEF Doing
  <2>5. OneAtATime'
    BY <2>4, OneNew
  <2>6. InPlace' /\ LinkRests'
    BY <1>1, <2>1, <2>2, <2>3, ActorsAreApart DEF InPlace, LinkRests, Routines
  <2> QED
    BY <1>1, <1>2, <1>10, <2>5, <2>6 DEF InTurn
<1>12. CASE ManualSucceeds
  <2>1. /\ manual = "connecting" /\ manual' = "subscribing"
        /\ ambient' = [ambient EXCEPT !["manual"] = Quotes(Seed \cup held)]
        /\ loop' = loop
    BY <1>2, <1>12 DEF ManualSucceeds, Opened
  <2>2. setup.byHand /\ loop = "idle"
    BY <2>1 DEF InTurn, LinkRests
  <2>3. \A a \in Actors : Busy(a)' => a = "manual"
    <3>1. ambient \in [Actors -> SUBSET Feeds]
      BY DEF FeedInv, FeedParts, FeedTypes
    <3> QED
      BY <1>1, <1>5, <2>1, <3>1 DEF Busy
  <2>4. \A a \in Actors : Doing(a)' => a = r \/ a = "manual"
    BY <1>1, <1>6, <1>7, <1>8, <2>3 DEF Doing
  <2>5. OneAtATime'
    BY <1>1, <2>2, <2>4 DEF OneAtATime, Together
  <2>6. InPlace' /\ LinkRests'
    BY <1>1, <2>1, <2>2, <2>3, ActorsAreApart, TasksAreNoRoutines DEF InPlace, LinkRests
  <2> QED
    BY <1>1, <1>2, <1>10, <2>5, <2>6 DEF InTurn
<1> QED
  BY <1>11, <1>12

LEMMA StartupInTurn ==
    ASSUME FeedInv, InTurn, Startup
    PROVE  InTurn' /\ \A b \in Bots : bots'[b] = "off"
<1>1. /\ engine = "connecting" /\ engine' = "warming" /\ link' = "up"
      /\ UNCHANGED <<setup, loop, manual, cycle, counted, asking, bots>>
  BY DEF Startup
<1>2. /\ link = "down" /\ loop = "idle" /\ manual = "idle"
      /\ \A b \in Bots : bots[b] = "off"
  BY <1>1 DEF InTurn, NotStarted
<1>3. \A a \in Actors : ~Doing(a)
  BY <1>2 DEF InTurn, LinkRests
<1>4. PICK r \in Replays : /\ stage' = [stage EXCEPT ![r] = "startup"]
                           /\ ambient' = [ambient EXCEPT ![r] = Quotes(Watchlist \cup held)]
  BY DEF Startup
<1>5. /\ stage \in [Replays -> {"none", "spawned", "pending", "ambient", "startup"}]
      /\ ambient \in [Actors -> SUBSET Feeds]
  BY DEF FeedInv, SessionInv, FeedParts, FeedTypes, Staged
<1>6. \A a \in Actors : Busy(a)' => a = r
  BY <1>1, <1>3, <1>4, <1>5 DEF Busy, Doing
<1>7. \A a \in Actors : Doing(a)' => a = r
  BY <1>1, <1>3, <1>4, <1>5, <1>6, ActorsAreApart DEF Doing
<1>8. OneAtATime'
  BY <1>7, OneNew
<1>9. InPlace'
  BY <1>4, <1>5, <1>6, ActorsAreApart, TasksAreNoRoutines DEF InPlace, Routines
<1>10. LinkRests' /\ NotStarted' /\ Uncrashed'
  BY <1>1, <1>2 DEF LinkRests, NotStarted, Uncrashed, InTurn
<1> QED
  BY <1>1, <1>2, <1>8, <1>9, <1>10 DEF InTurn

LEMMA ReplayInTurn ==
    ASSUME FeedInv, InTurn, NEW r \in Replays, Drains(r) \/ WalksAmbient(r) \/ ReplayEnds(r)
    PROVE  InTurn'
<1>1. /\ stage[r] # "none" /\ r \in Actors /\ r # "manual" /\ r # "cycle"
      /\ stage \in [Replays -> {"none", "spawned", "pending", "ambient", "startup"}]
      /\ counted \in [Actors -> Table] /\ ambient \in [Actors -> SUBSET Feeds]
  BY ActorsAreApart, TasksAreNoRoutines
     DEF Drains, WalksAmbient, ReplayEnds, FeedInv, SessionInv, Staged, FeedParts, FeedTypes
<1>2. Doing(r) /\ link = "up" /\ engine # "connecting"
  <2>1. Doing(r)
    BY <1>1 DEF Doing
  <2> QED
    BY <1>1, <2>1 DEF InTurn, LinkRests, NotStarted
<1>3. UNCHANGED <<setup, link, loop, manual, cycle, asking, bots>>
  BY Zenon DEF Drains, WalksAmbient, ReplayEnds, tableVars, taskVars
<1>4. engine' # "connecting"
  BY <1>2 DEF Drains, WalksAmbient, ReplayEnds
<1>5. /\ \E s \in {"none", "pending", "ambient"} : stage' = [stage EXCEPT ![r] = s]
      /\ counted' = counted \/ counted' = [counted EXCEPT ![r] = saved]
      /\ ambient' = ambient \/ ambient' = [ambient EXCEPT ![r] = Quotes(Watchlist \cup held)]
      /\ stage'[r] = "none" => ~Busy(r) /\ counted' = counted /\ ambient' = ambient
  BY <1>1 DEF Drains, WalksAmbient, ReplayEnds, taskVars
<1>6. ASSUME NEW a \in Actors, a # r PROVE (Busy(a)' <=> Busy(a)) /\ (Doing(a)' => Doing(a))
  <2>1. Busy(a)' <=> Busy(a)
    BY <1>1, <1>3, <1>5, <1>6 DEF Busy
  <2> QED
    BY <1>1, <1>3, <1>5, <1>6, <2>1 DEF Doing
<1>7. \A a \in Actors : Doing(a)' => Doing(a)
  BY <1>2, <1>6
<1>8. OneAtATime'
  BY <1>3, <1>7, NobodyNew DEF InTurn
<1>9. Busy(r)' => stage'[r] \in {"pending", "ambient", "startup"}
  <2>1. CASE stage'[r] = "none"
    BY <1>3, <1>5, <2>1 DEF Busy
  <2>2. CASE stage'[r] # "none"
    BY <1>1, <1>5, <2>2
  <2> QED
    BY <2>1, <2>2
<1>10. InPlace'
  BY <1>1, <1>3, <1>5, <1>6, <1>9, ActorsAreApart DEF InTurn, InPlace, Routines
<1>11. LinkRests' /\ NotStarted' /\ Uncrashed'
  BY <1>2, <1>3, <1>4 DEF InTurn, LinkRests, NotStarted, Uncrashed
<1> QED
  BY <1>8, <1>10, <1>11 DEF InTurn

LEMMA CycleInTurn ==
    ASSUME FeedInv, InTurn, setup.orderly, [Next]_vars,
           CycleStarts \/ CycleEnds \/ \E f \in Feeds : CycleCancels(f) \/ CycleAsks(f)
    PROVE  InTurn' /\ link = "up"
<1>1. UNCHANGED <<engine, link, loop, manual, stage, bots>>
  BY Zenon DEF CycleStarts, CycleEnds, CycleCancels, CycleAsks, callbackVars
<1>2. /\ counted \in [Actors -> Table] /\ ambient \in [Actors -> SUBSET Feeds]
      /\ asking \in [Actors -> Feeds \cup {None}]
  BY DEF FeedInv, FeedParts, FeedTypes
<1>3. /\ \/ counted' = counted \/ counted' = [counted EXCEPT !["cycle"] = refs]
         \/ \E f \in Feeds : counted' = [counted EXCEPT !["cycle"][f] = 0]
      /\ \/ ambient' = ambient
         \/ \E F \in SUBSET Feeds : ambient' = [ambient EXCEPT !["cycle"] = F]
      /\ asking' = asking \/ \E f \in Feeds : asking' = [asking EXCEPT !["cycle"] = f]
  BY Zenon DEF CycleStarts, CycleEnds, CycleCancels, CycleAsks, taskVars
<1>4. \A a \in Actors : a # "cycle" => (Busy(a)' <=> Busy(a))
  BY <1>2, <1>3 DEF Busy
<1>5. ASSUME NEW a \in Actors, a # "cycle" PROVE Doing(a)' <=> Doing(a)
  BY <1>1, <1>4, <1>5 DEF Doing
<1>6. setup'.byHand = setup.byHand
  BY SetupStays DEF FeedInv, FeedParts
<1>7. OneAtATime' /\ link = "up" /\ engine # "connecting"
  <2>1. CASE CycleStarts
    <3>1. Quiet
      BY <2>1 DEF CycleStarts, Calm
    <3>2. \A a \in Actors : Doing(a)' => a = "cycle"
      BY <1>5, <3>1, QuietIsIdle
    <3> QED
      BY <3>1, <3>2, OneNew, QuietIsIdle DEF Quiet
  <2>2. CASE ~ CycleStarts
    <3>1. cycle # "idle"
      BY <2>2 DEF CycleEnds, CycleCancels, CycleAsks
    <3>2. "cycle" \in Actors /\ Doing("cycle")
      BY <3>1, ActorsAreApart DEF Doing
    <3>3. \A a \in Actors : Doing(a)' => Doing(a)
      BY <1>5, <3>2
    <3>4. OneAtATime'
      BY <1>6, <3>3, NobodyNew DEF InTurn
    <3> QED
      BY <3>2, <3>4 DEF InTurn, LinkRests, NotStarted
  <2> QED
    BY <2>1, <2>2
<1>8. InPlace'
  BY <1>1, <1>4, ActorsAreApart, TasksAreNoRoutines DEF InTurn, InPlace, Routines
<1>9. LinkRests' /\ NotStarted'
  BY <1>1, <1>6, <1>7 DEF InTurn, LinkRests, NotStarted
<1>10. Uncrashed'
  BY <1>1, UncrashedStays DEF InTurn, FeedInv, FeedParts
<1> QED
  BY <1>7, <1>8, <1>9, <1>10 DEF InTurn

(* Bots, positions and the reload come to a session at rest.               *)
LEMMA ComersInTurn ==
    ASSUME FeedInv, InTurn, setup.orderly, [Next]_vars,
           \/ \E b \in Bots : BotStarts(b) \/ BotStops(b)
           \/ \E s \in Symbols : PositionOpens(s)
           \/ Reload
    PROVE  InTurn' /\ Quiet
<1>1. UNCHANGED <<engine, link, loop, manual, cycle, stage, asking>>
  BY Zenon DEF BotStarts, BotStops, PositionOpens, Reload, callbackVars, taskVars
<1>2. Quiet
  BY DEF BotStarts, BotStops, PositionOpens, Reload, Calm
<1>3. link = "up" /\ loop = "idle" /\ (\A a \in Actors : ~Doing(a)) /\ engine # "connecting"
  BY <1>2, QuietIsIdle DEF Quiet
<1>4. /\ counted \in [Actors -> Table] /\ ambient \in [Actors -> SUBSET Feeds]
      /\ asking \in [Actors -> Feeds \cup {None}]
  BY DEF FeedInv, FeedParts, FeedTypes
<1> DEFINE Comes(x) ==
        /\ counted' = counted \/ \E t : counted' = [counted EXCEPT ![x] = t]
        /\ ambient' = ambient \/ \E F : ambient' = [ambient EXCEPT ![x] = F]
<1>5. \E x \in Actors \ (Replays \cup {"manual", "cycle"}) : Comes(x)
  <2>1. ASSUME NEW b \in Bots, BotStarts(b) \/ BotStops(b)
        PROVE  b \in Actors \ (Replays \cup {"manual", "cycle"}) /\ Comes(b)
    <3>1. b \in Actors \ (Replays \cup {"manual", "cycle"})
      BY ActorsAreApart, TasksAreNoRoutines
    <3>2. /\ ambient' = ambient
          /\ counted' = counted \/ \E t : counted' = [counted EXCEPT ![b] = t]
      BY <2>1, Zenon DEF BotStarts, BotStops, taskVars
    <3> QED
      BY <3>1, <3>2
  <2>2. {"position", "reload"} \subseteq Actors \ (Replays \cup {"manual", "cycle"})
    BY ActorsAreApart, TasksAreNoRoutines DEF Routines
  <2>3. ASSUME NEW s \in Symbols, PositionOpens(s) PROVE Comes("position")
    BY <2>3, Zenon DEF PositionOpens
  <2>4. ASSUME Reload PROVE Comes("reload")
    BY <2>4, Zenon DEF Reload
  <2> HIDE DEF Comes
  <2> QED
    BY <2>1, <2>2, <2>3, <2>4
<1>6. PICK x \in Actors \ (Replays \cup {"manual", "cycle"}) : Comes(x)
  BY <1>5
<1>7. \A a \in Actors : a # x => (Busy(a)' <=> Busy(a))
  BY <1>1, <1>4, <1>6 DEF Busy
<1>8. \A a \in Actors : Busy(a)' => a = x
  BY <1>3, <1>7 DEF Doing
<1>9. \A a \in Actors : Doing(a)' => a = x
  BY <1>1, <1>3, <1>8, ActorsAreApart DEF Doing
<1>10. setup'.byHand = setup.byHand
  BY SetupStays DEF FeedInv, FeedParts
<1>11. OneAtATime'
  BY <1>9, OneNew
<1>12. InPlace'
  BY <1>1, <1>6, <1>8, ActorsAreApart DEF InPlace, Routines
<1>13. LinkRests' /\ NotStarted'
  BY <1>1, <1>3, <1>10 DEF InTurn, LinkRests, NotStarted
<1>14. \A b \in Bots : bots'[b] # "off" => bots[b] # "off" \/ b \in setup.bots
  <2>1. bots \in [Bots -> {"off", "starting", "on"}]
    BY DEF FeedInv, FeedParts, FeedTypes
  <2>2. \/ bots' = bots
        \/ \E b \in Bots : /\ bots' = [bots EXCEPT ![b] = "off"]
        \/ \E b \in setup.bots : b \in Bots /\ bots' = [bots EXCEPT ![b] = "starting"]
    BY Zenon DEF BotStarts, BotStops, PositionOpens, Reload
  <2> QED
    BY <2>1, <2>2
<1>15. Uncrashed'
  BY <1>14, UncrashedStays DEF InTurn, FeedInv, FeedParts
<1> QED
  BY <1>2, <1>11, <1>12, <1>13, <1>15 DEF InTurn

LEMMA BotIsOnInTurn ==
    ASSUME FeedInv, InTurn, [Next]_vars, NEW b \in Bots, BotIsOn(b)
    PROVE  InTurn'
<1>1. /\ UNCHANGED <<setup, engine, link, loop, manual, cycle, stage, counted, ambient, asking>>
      /\ bots[b] = "starting" /\ bots' = [bots EXCEPT ![b] = "on"]
  BY Zenon DEF BotIsOn, callbackVars, taskVars
<1>2. \A a \in Actors : (Busy(a)' <=> Busy(a)) /\ (Doing(a)' <=> Doing(a))
  BY <1>1 DEF Busy, Doing
<1>3. OneAtATime'
  BY <1>1, <1>2, NobodyNew DEF InTurn
<1>4. InPlace'
  BY <1>1, <1>2, ActorsAreApart DEF InTurn, InPlace, Routines
<1>5. engine # "connecting"
  BY <1>1 DEF InTurn, NotStarted
<1>6. LinkRests' /\ NotStarted'
  BY <1>1, <1>2, <1>5 DEF InTurn, LinkRests, NotStarted
<1>7. bots \in [Bots -> {"off", "starting", "on"}]
  BY DEF FeedInv, FeedParts, FeedTypes
<1>8. Uncrashed'
  BY <1>1, <1>7, UncrashedStays DEF InTurn, FeedInv, FeedParts
<1> QED
  BY <1>3, <1>4, <1>6, <1>8 DEF InTurn

LEMMA TurnsKeep ==
    ASSUME FeedInv, InTurn, setup.orderly, [Next]_vars
    PROVE  InTurn'
<1>1. ASSUME UNCHANGED vars PROVE InTurn'
  BY <1>1 DEF vars, InTurn, OneAtATime, InPlace, LinkRests, NotStarted, Uncrashed, Doing, Busy,
     Together
<1>2. ~Crash
  BY SetupStays DEF InTurn, Uncrashed, FeedInv, FeedParts
<1> QED
  BY <1>1, <1>2, AsksInTurn, SubscribedInTurn, LeavesInTurn, DownInTurn, ConnectInTurn,
     StartupInTurn, ReplayInTurn, CycleInTurn, ComersInTurn, BotIsOnInTurn DEF Next

(* References.                                                             *)

LEMMA AloneStays ==
    ASSUME AloneIsCounted, setup'.bots = setup.bots,
           \A f \in Feeds : \A b \in Owners(f)' :
              \/ CountedSomewhere(f)'
              \/ Alone(b) => b \in Owners(f) /\ (CountedSomewhere(f) => CountedSomewhere(f)')
    PROVE  AloneIsCounted'
BY BotFeedsAreFeeds DEF AloneIsCounted, Alone

LEMMA FewerAreAll ==
    ASSUME NEW S, NEW T, NEW n \in Nat, NEW m \in Nat, n <= m,
           IsFiniteSet(S), Cardinality(S) <= n, T \subseteq S
    PROVE  IsFiniteSet(T) /\ Cardinality(T) <= m
<1>1. /\ IsFiniteSet(T) /\ Cardinality(T) \in Nat /\ Cardinality(S) \in Nat
      /\ Cardinality(T) <= Cardinality(S)
  BY FS_Subset, FS_CardinalityType
<1> QED
  BY <1>1

LEMMA OneMoreIsAll ==
    ASSUME NEW S, NEW T, NEW n \in Nat, NEW m \in Nat, n < m, NEW b,
           IsFiniteSet(S), Cardinality(S) <= n, T \subseteq S \cup {b}
    PROVE  IsFiniteSet(T) /\ Cardinality(T) <= m
<1>1. /\ IsFiniteSet(S \cup {b}) /\ Cardinality(S) \in Nat
      /\ Cardinality(S \cup {b}) <= Cardinality(S) + 1
      /\ Cardinality(S \cup {b}) \in Nat
  BY FS_AddElement, FS_CardinalityType
<1>2. m \in Nat /\ Cardinality(S \cup {b}) <= m
  BY <1>1
<1> QED
  BY <1>1, <1>2, FewerAreAll

LEMMA OneLessIsAll ==
    ASSUME NEW S, NEW T, NEW n \in Nat, NEW b \in S,
           IsFiniteSet(S), Cardinality(S) <= n, T \subseteq S \ {b}
    PROVE  n > 0 /\ IsFiniteSet(T) /\ Cardinality(T) <= n - 1
<1>1. /\ IsFiniteSet(S \ {b}) /\ Cardinality(S) \in Nat /\ Cardinality(S) # 0
      /\ Cardinality(S \ {b}) = Cardinality(S) - 1
      /\ Cardinality(S \ {b}) \in Nat
  BY FS_RemoveElement, FS_CardinalityType, FS_EmptySet
<1>2. n > 0 /\ n - 1 \in Nat /\ Cardinality(S \ {b}) <= n - 1
  BY <1>1
<1> QED
  BY <1>1, <1>2, FewerAreAll

(* Feeds that a step does not touch.                                       *)
LEMMA FeedStays ==
    ASSUME FeedTypes, FeedTypes', NEW f \in Feeds, Owners(f)' \subseteq Owners(f),
           refs'[f] = refs[f], saved'[f] = saved[f], Kept => Kept',
           \A a \in Replays \cup {"cycle"} : counted'[a][f] = counted[a][f],
           \A a \in Actors : asking'[a] = f => asking[a] = f \/ refs[f] = 0,
           Counted(f)
    PROVE  Counted(f)'
<1>1. /\ refs[f] \in Nat /\ saved[f] \in Nat
      /\ \A a \in Replays \cup {"cycle"} : counted[a][f] \in Nat
  BY ActorsAreApart DEF FeedTypes, Table
<1>2. ASSUME NEW n \in Nat, HaveAll(f, n)
      PROVE  IsFiniteSet(Owners(f)') /\ Cardinality(Owners(f)') <= n
  BY <1>2, FewerAreAll DEF HaveAll
<1>3. InOnePlace(f)'
  <2>1. CASE HaveAll(f, refs[f])
    BY <1>1, <1>2, <2>1 DEF InOnePlace, HaveAll
  <2>2. CASE Kept /\ HaveAll(f, saved[f])
    BY <1>1, <1>2, <2>2 DEF InOnePlace, HaveAll
  <2>3. ASSUME NEW a \in Replays \cup {"cycle"}, HaveAll(f, counted[a][f])
        PROVE  InOnePlace(f)'
    <3>1. IsFiniteSet(Owners(f)') /\ Cardinality(Owners(f)') <= counted'[a][f]
      BY <1>1, <1>2, <2>3
    <3> QED
      BY <3>1 DEF InOnePlace, HaveAll
  <2> QED
    BY <2>1, <2>2, <2>3 DEF Counted, InOnePlace
<1>4. counted'["cycle"][f] > 0 => HaveAll(f, counted["cycle"][f])'
  BY <1>1, <1>2 DEF Counted, HaveAll
<1> QED
  BY <1>3, <1>4 DEF Counted

(* Nobody has anything to ask for at rest: the references are in the table. *)
LEMMA QuietCounts ==
    ASSUME FeedTypes, Quiet, NEW f \in Feeds, Counted(f)
    PROVE  HaveAll(f, refs[f])
<1>1. ~Kept
  BY DEF Quiet, NoReplay, Kept
<1>2. \A a \in Replays \cup {"cycle"} : counted[a][f] = 0
  BY NothingIsTable, ActorsAreApart DEF Quiet, Busy
<1>3. refs[f] \in Nat
  BY DEF FeedTypes, Table
<1>4. HaveAll(f, 0) => HaveAll(f, refs[f])
  BY <1>3, FewerAreAll DEF HaveAll
<1> QED
  BY <1>1, <1>2, <1>4 DEF Counted, InOnePlace

(* Nor has anybody but a bot that is starting.                             *)
LEMMA StartingCounts ==
    ASSUME FeedTypes, InTurn, ~setup.byHand, NEW b \in Bots, Busy(b),
           NEW f \in Feeds, Counted(f)
    PROVE  HaveAll(f, refs[f]) /\ counted["cycle"][f] = 0
<1>1. /\ b \in Actors /\ Doing(b) /\ b \notin Replays /\ b # "manual" /\ b # "cycle"
      /\ link = "up"
  BY ActorsAreApart, TasksAreNoRoutines, BusyHasSession DEF Doing
<1>2. \A a \in Replays \cup {"cycle"} : ~Doing(a)
  BY <1>1, ActorsAreApart DEF InTurn, OneAtATime, Together
<1>3. ~Kept
  BY <1>1, <1>2 DEF Kept, Doing
<1>4. \A a \in Replays \cup {"cycle"} : counted[a][f] = 0
  BY <1>2, NothingIsTable DEF Doing, Busy
<1>5. refs[f] \in Nat
  BY DEF FeedTypes, Table
<1>6. HaveAll(f, 0) => HaveAll(f, refs[f])
  BY <1>5, FewerAreAll DEF HaveAll
<1> QED
  BY <1>3, <1>4, <1>6 DEF Counted, InOnePlace

(* One actor at a time takes references.                                   *)
LEMMA AsksCounts ==
    ASSUME FeedInv, FeedInv', InTurn, AloneIsCounted, AllAreCounted,
           NEW a \in Actors \ {"cycle"}, NEW f \in Feeds, Asks(a, f)
    PROVE  AloneIsCounted' /\ AllAreCounted'
<1>1. FeedTypes /\ FeedTypes' /\ refs[f] \in Nat /\ counted[a][f] \in Nat
  BY DEF FeedInv, FeedParts, FeedTypes, Table
<1>2. UNCHANGED <<setup, link, saved, stage, bots>> /\ Kept' = Kept
  <2>1. UNCHANGED <<setup, link, saved, stage, bots>>
    BY Zenon DEF Asks, callbackVars
  <2> QED
    BY <2>1 DEF Kept
<1>3. Busy(a)
  BY NothingIsTable, <1>1 DEF Asks, Busy, FeedTypes
<1>4. CASE refs[f] > 0
  <2>1. /\ refs' = [refs EXCEPT ![f] = @ + counted[a][f]]
        /\ counted' = [counted EXCEPT ![a][f] = 0]
        /\ UNCHANGED asking
    BY <1>4 DEF Asks
  <2>2. ASSUME NEW g \in Feeds, g # f
        PROVE  refs'[g] = refs[g] /\ \A c \in Actors : counted'[c][g] = counted[c][g]
    BY <1>1, <2>1, <2>2 DEF FeedTypes, Table
  <2>3. ASSUME NEW g \in Feeds, g # f PROVE Owners(g)' = Owners(g)
    BY <1>2, <2>2, <2>3, ActorsAreApart DEF Owners
  <2>4. refs'[f] = refs[f] + counted[a][f]
    BY <1>1, <2>1 DEF FeedTypes, Table
  <2>5. ASSUME NEW g \in Feeds, g # f PROVE CountedSomewhere(g) => CountedSomewhere(g)'
    BY <1>2, <2>2, <2>5 DEF CountedSomewhere
  <2>6. CountedSomewhere(f)'
    BY <1>1, <1>4, <2>4 DEF CountedSomewhere
  <2>7. AloneIsCounted'
    BY <1>2, <2>3, <2>5, <2>6, AloneStays
  <2>8. ASSUME ~setup.byHand, NEW g \in Feeds, g # f PROVE Counted(g)'
    BY <1>1, <1>2, <2>1, <2>2, <2>3, <2>8, FeedStays, ActorsAreApart DEF AllAreCounted
  <2>9. ASSUME ~setup.byHand PROVE Counted(f)'
    <3>1. Counted(f)
      BY <2>9 DEF AllAreCounted
    <3>2. \A c \in Actors : asking'[c] # f
      BY <1>4, <2>1, <3>1 DEF Counted
    <3>3. CASE a \in Bots
      <4>1. HaveAll(f, refs[f]) /\ counted["cycle"][f] = 0
        BY <1>1, <1>3, <2>9, <3>1, <3>3, StartingCounts
      <4>2. Owners(f)' \subseteq Owners(f) \cup {a}
        BY <1>1, <1>2, <2>1, ActorsAreApart DEF Owners, FeedTypes
      <4>3. counted[a][f] = 0 => Owners(f)' \subseteq Owners(f)
        BY <1>1, <1>2, <2>1, ActorsAreApart DEF Owners, FeedTypes
      <4>4. HaveAll(f, refs[f])'
        <5>1. refs'[f] \in Nat /\ IsFiniteSet(Owners(f)) /\ Cardinality(Owners(f)) <= refs[f]
          BY <1>1, <2>4, <4>1 DEF HaveAll
        <5>2. CASE counted[a][f] = 0
          <6>1. refs[f] <= refs'[f] /\ Owners(f)' \subseteq Owners(f)
            BY <1>1, <2>4, <4>3, <5>2
          <6> QED
            BY <1>1, <5>1, <6>1, FewerAreAll DEF HaveAll
        <5>3. CASE counted[a][f] # 0
          <6>1. refs[f] < refs'[f]
            BY <1>1, <2>4, <5>3
          <6> QED
            BY <1>1, <4>2, <5>1, <6>1, OneMoreIsAll DEF HaveAll
        <5> QED
          BY <5>2, <5>3
      <4>5. ~(counted'["cycle"][f] > 0)
        BY <1>1, <2>1, <4>1, ActorsAreApart DEF FeedTypes
      <4> QED
        BY <3>2, <4>4, <4>5 DEF Counted, InOnePlace
    <3>4. CASE a \notin Bots
      <4>1. Owners(f)' = Owners(f)
        BY <1>1, <1>2, <2>1, <3>4, ActorsAreApart DEF Owners, FeedTypes
      <4>2. counted'["cycle"][f] = counted["cycle"][f] /\ counted["cycle"][f] \in Nat
        BY <1>1, <2>1, ActorsAreApart DEF FeedTypes, Table
      <4>3. HaveAll(f, counted[a][f]) \/ HaveAll(f, refs[f]) => HaveAll(f, refs[f])'
        BY <1>1, <2>4, <4>1, FewerAreAll DEF HaveAll
      <4>4. Kept /\ HaveAll(f, saved[f]) => Kept' /\ HaveAll(f, saved[f])'
        BY <1>2, <4>1 DEF HaveAll
      <4>5. \A c \in Replays \cup {"cycle"} :
               HaveAll(f, counted[c][f]) => c = a \/ HaveAll(f, counted[c][f])'
        BY <1>1, <2>1, <4>1, ActorsAreApart DEF HaveAll, FeedTypes
      <4>6. InOnePlace(f)'
        BY <3>1, <4>3, <4>4, <4>5 DEF Counted, InOnePlace
      <4>7. counted'["cycle"][f] > 0 => HaveAll(f, counted["cycle"][f])'
        BY <3>1, <4>1, <4>2 DEF Counted, HaveAll
      <4> QED
        BY <3>2, <4>6, <4>7 DEF Counted
    <3> QED
      BY <3>3, <3>4
  <2> QED
    BY <1>2, <2>7, <2>8, <2>9 DEF AllAreCounted
<1>5. CASE ~(refs[f] > 0)
  <2>1. /\ asking' = [asking EXCEPT ![a] = f]
        /\ UNCHANGED <<refs, counted>>
    BY <1>5 DEF Asks
  <2>2. \A g \in Feeds : Owners(g)' = Owners(g)
    BY <1>2, <2>1 DEF Owners
  <2>3. \A g \in Feeds : CountedSomewhere(g)' <=> CountedSomewhere(g)
    BY <1>2, <2>1 DEF CountedSomewhere
  <2>4. AloneIsCounted'
    BY <1>2, <2>2, <2>3, AloneStays
  <2>5. ASSUME ~setup.byHand, NEW g \in Feeds PROVE Counted(g)'
    <3>1. \A c \in Actors : asking'[c] = g => asking[c] = g \/ refs[g] = 0
      BY <1>1, <1>5, <2>1 DEF FeedTypes
    <3> QED
      BY <1>1, <1>2, <2>1, <2>2, <2>5, <3>1, FeedStays DEF AllAreCounted
  <2> QED
    BY <1>2, <2>4, <2>5 DEF AllAreCounted
<1> QED
  BY <1>4, <1>5

LEMMA SubscribedCounts ==
    ASSUME FeedInv, FeedInv', InTurn, AloneIsCounted, AllAreCounted,
           NEW a \in Actors, NEW f \in Feeds, asking[a] = f, Subscribed(a)
    PROVE  AloneIsCounted' /\ AllAreCounted'
<1> DEFINE n == IF counted[a][f] > 0 THEN counted[a][f] ELSE 1
<1>1. /\ FeedTypes /\ FeedTypes'
      /\ refs[f] \in Nat /\ counted[a][f] \in Nat /\ n \in Nat /\ n > 0
  BY DEF FeedInv, FeedParts, FeedTypes, Table, Subscribed
<1>2. UNCHANGED <<setup, link, saved, stage, bots>> /\ Kept' = Kept
  <2>1. UNCHANGED <<setup, link, saved, stage, bots>>
    BY SubscribedInTurn, Zenon DEF Subscribed, callbackVars
  <2> QED
    BY <2>1 DEF Kept
<1>3. Busy(a)
  BY DEF Subscribed, Busy
<1>4. /\ refs' = [refs EXCEPT ![f] = n]
      /\ counted' = [counted EXCEPT ![a][f] = 0]
      /\ asking' = [asking EXCEPT ![a] = None]
  BY SubscribedInTurn DEF Subscribed
<1>5. refs'[f] = n /\ (n = counted[a][f] \/ counted[a][f] = 0)
  BY <1>1, <1>4 DEF FeedTypes, Table
<1> HIDE DEF n
<1>6. ASSUME NEW g \in Feeds, g # f
      PROVE  refs'[g] = refs[g] /\ \A c \in Actors : counted'[c][g] = counted[c][g]
  BY <1>1, <1>4, <1>6 DEF FeedTypes, Table
<1>7. ASSUME NEW g \in Feeds, g # f PROVE Owners(g)' = Owners(g)
  BY <1>2, <1>6, <1>7, ActorsAreApart DEF Owners
<1>8. ASSUME NEW g \in Feeds, g # f PROVE CountedSomewhere(g) => CountedSomewhere(g)'
  BY <1>2, <1>6, <1>8 DEF CountedSomewhere
<1>9. CountedSomewhere(f)'
  BY <1>1, <1>5 DEF CountedSomewhere
<1>10. AloneIsCounted'
  BY <1>2, <1>7, <1>8, <1>9, AloneStays
<1>11. \A c \in Actors : asking'[c] = asking[c] \/ (c = a /\ asking'[c] = None)
  <2>1. asking \in [Actors -> Feeds \cup {None}]
    BY <1>1 DEF FeedTypes
  <2> QED
    BY <1>4, <2>1
<1>12. ASSUME ~setup.byHand, NEW g \in Feeds, g # f PROVE Counted(g)'
  <2>1. \A c \in Actors : asking'[c] = g => asking[c] = g
    BY <1>11, SessionAssumption
  <2> QED
    BY <1>1, <1>2, <1>6, <1>7, <1>12, <2>1, FeedStays, ActorsAreApart DEF AllAreCounted
<1>13. ASSUME ~setup.byHand PROVE Counted(f)'
  <2>1. Counted(f) /\ refs[f] = 0
    BY <1>1, <1>13 DEF AllAreCounted, Counted
  <2>2. ASSUME NEW c \in Actors, asking'[c] = f PROVE FALSE
    <3>1. c # a /\ asking[c] = f
      BY <1>1, <1>11, <2>2, <1>4, SessionAssumption DEF FeedTypes
    <3>2. Busy(c)
      BY <1>1, <3>1, SessionAssumption DEF Busy
    <3>3. Doing(a) /\ Doing(c)
      BY <1>3, <3>2 DEF Doing
    <3> QED
      BY <1>13, <3>1, <3>3 DEF InTurn, OneAtATime, Together
  <2>3. CASE a \in Bots
    <3>1. HaveAll(f, 0) /\ counted["cycle"][f] = 0
      BY <1>1, <1>3, <1>13, <2>1, <2>3, StartingCounts
    <3>2. Owners(f)' \subseteq Owners(f) \cup {a}
      BY <1>1, <1>2, <1>4, ActorsAreApart DEF Owners, FeedTypes
    <3>3. HaveAll(f, refs[f])'
      <4>1. IsFiniteSet(Owners(f)) /\ Cardinality(Owners(f)) <= 0
        BY <3>1 DEF HaveAll
      <4> QED
        BY <1>1, <1>5, <3>2, <4>1, OneMoreIsAll DEF HaveAll
    <3>4. ~(counted'["cycle"][f] > 0)
      BY <1>1, <1>4, <3>1, ActorsAreApart DEF FeedTypes
    <3> QED
      BY <2>2, <3>3, <3>4 DEF Counted, InOnePlace
  <2>4. CASE a \notin Bots
    <3>1. Owners(f)' = Owners(f)
      BY <1>1, <1>2, <1>4, <2>4, ActorsAreApart DEF Owners, FeedTypes
    <3>2. ASSUME NEW m \in Nat, m <= n, HaveAll(f, m) PROVE HaveAll(f, refs[f])'
      BY <1>1, <1>5, <3>1, <3>2, FewerAreAll DEF HaveAll
    <3>3. HaveAll(f, counted[a][f]) \/ HaveAll(f, refs[f]) => HaveAll(f, refs[f])'
      BY <1>1, <1>5, <2>1, <3>2
    <3>4. Kept /\ HaveAll(f, saved[f]) => Kept' /\ HaveAll(f, saved[f])'
      BY <1>2, <3>1 DEF HaveAll
    <3>5. \A c \in Replays \cup {"cycle"} :
             HaveAll(f, counted[c][f]) => c = a \/ HaveAll(f, counted[c][f])'
      BY <1>1, <1>4, <3>1, ActorsAreApart DEF HaveAll, FeedTypes
    <3>6. InOnePlace(f)'
      BY <2>1, <3>3, <3>4, <3>5 DEF Counted, InOnePlace
    <3>7. counted'["cycle"][f] > 0 => HaveAll(f, counted["cycle"][f])'
      <4>1. counted["cycle"] \in Table /\ "cycle" \in Actors
        BY <1>1, ActorsAreApart DEF FeedTypes
      <4>2. counted'["cycle"][f] = 0 \/ counted'["cycle"][f] = counted["cycle"][f]
        BY <1>1, <1>4, <4>1 DEF FeedTypes, Table
      <4> QED
        BY <2>1, <3>1, <4>2 DEF Counted, HaveAll
    <3> QED
      BY <2>2, <3>6, <3>7 DEF Counted
  <2> QED
    BY <2>3, <2>4
<1> QED
  BY <1>2, <1>10, <1>12, <1>13 DEF AllAreCounted

(* A step that moves no reference, and takes nothing from what is kept.    *)
LEMMA TableLeft ==
    ASSUME FeedInv, FeedInv', AloneIsCounted, AllAreCounted, [Next]_vars,
           UNCHANGED <<refs, saved, counted, asking>>, Kept => Kept',
           \A f \in Feeds : Owners(f)' \subseteq Owners(f)
    PROVE  AloneIsCounted' /\ AllAreCounted'
<1>1. FeedTypes /\ FeedTypes' /\ setup'.bots = setup.bots /\ setup'.byHand = setup.byHand
  BY SetupStays DEF FeedInv, FeedParts
<1>2. \A f \in Feeds : CountedSomewhere(f) => CountedSomewhere(f)'
  BY DEF CountedSomewhere
<1>3. AloneIsCounted'
  BY <1>1, <1>2, AloneStays
<1>4. AllAreCounted'
  BY <1>1, FeedStays DEF AllAreCounted
<1> QED
  BY <1>3, <1>4

(* A drop keeps the table of a session at rest.                            *)
LEMMA DropCounts ==
    ASSUME FeedInv, FeedInv', AloneIsCounted, AllAreCounted, setup.orderly, [Next]_vars,
           Drop \/ ManualDrops
    PROVE  AloneIsCounted' /\ AllAreCounted'
<1>1. /\ Quiet /\ saved' = refs /\ refs' = Nothing /\ link' = "down"
      /\ UNCHANGED <<counted, asking, bots>>
  <2>1. Quiet /\ link' = "down" /\ Wiped
    BY QuietIsIdle DEF Drop, ManualDrops, Calm, tableVars
  <2>2. UNCHANGED <<counted, asking, bots>>
    BY Zenon DEF Drop, ManualDrops, taskVars
  <2> QED
    BY <2>1, <2>2 DEF Wiped
<1>2. /\ FeedTypes /\ FeedTypes' /\ setup'.bots = setup.bots /\ setup'.byHand = setup.byHand
      /\ Kept'
  BY <1>1, SetupStays DEF FeedInv, FeedParts, Kept
<1>3. \A f \in Feeds : Owners(f)' = Owners(f)
  BY <1>1 DEF Owners
<1>4. \A a \in Actors : counted[a] = Nothing /\ asking[a] = None
  BY <1>1 DEF Quiet, Busy
<1>5. ~Kept
  BY <1>1 DEF Quiet, NoReplay, Kept
<1>6. \A f \in Feeds : CountedSomewhere(f) => CountedSomewhere(f)'
  BY <1>1, <1>2, <1>4, <1>5, NothingIsTable DEF CountedSomewhere
<1>7. AloneIsCounted'
  BY <1>2, <1>3, <1>6, AloneStays
<1>8. ASSUME ~setup.byHand, NEW f \in Feeds PROVE Counted(f)'
  <2>1. HaveAll(f, refs[f])
    BY <1>1, <1>2, <1>8, QuietCounts DEF AllAreCounted
  <2>2. InOnePlace(f)'
    BY <1>1, <1>2, <1>3, <2>1 DEF InOnePlace, HaveAll
  <2>3. \A a \in Actors : asking'[a] # f
    BY <1>1, <1>4, <1>8, SessionAssumption
  <2>4. ~(counted'["cycle"][f] > 0)
    BY <1>1, <1>4, NothingIsTable, ActorsAreApart
  <2> QED
    BY <2>2, <2>3, <2>4 DEF Counted
<1> QED
  BY <1>2, <1>7, <1>8 DEF AllAreCounted

(* Nobody has references before the first session.                         *)
LEMMA StartupCounts ==
    ASSUME FeedInv, FeedInv', InTurn, AllAreCounted, Startup
    PROVE  AloneIsCounted' /\ AllAreCounted'
<1>1. UNCHANGED <<setup, refs, saved, counted, asking>>
  BY Zenon DEF Startup, tableVars
<1>2. \A f : Owners(f)' = {}
  BY StartupInTurn DEF Owners
<1>3. AloneIsCounted'
  BY <1>2 DEF AloneIsCounted
<1>4. ASSUME ~setup.byHand, NEW f \in Feeds PROVE Counted(f)'
  <2>1. Counted(f) /\ FeedTypes'
    BY <1>4 DEF AllAreCounted, FeedInv, FeedParts
  <2>2. refs'[f] \in Nat /\ counted'["cycle"][f] \in Nat
    BY <2>1, ActorsAreApart DEF FeedTypes, Table
  <2>3. IsFiniteSet({}) /\ Cardinality({}) = 0
    BY FS_EmptySet
  <2>4. HaveAll(f, refs[f])' /\ HaveAll(f, counted["cycle"][f])'
    BY <1>2, <2>2, <2>3 DEF HaveAll
  <2>5. \A a \in Actors : asking'[a] = f => refs'[f] = 0
    BY <1>1, <2>1 DEF Counted
  <2> QED
    BY <2>4, <2>5 DEF Counted, InOnePlace
<1> QED
  BY <1>1, <1>3, <1>4 DEF AllAreCounted

(* The callback's task takes what the drop kept.                           *)
LEMMA DrainCounts ==
    ASSUME FeedInv, FeedInv', InTurn, AloneIsCounted, AllAreCounted, NEW r \in Replays, Drains(r)
    PROVE  AloneIsCounted' /\ AllAreCounted'
<1>1. /\ stage[r] = "spawned" /\ counted' = [counted EXCEPT ![r] = saved]
      /\ UNCHANGED <<setup, refs, asking, bots>>
  BY DEF Drains
<1>2. FeedTypes /\ FeedTypes' /\ r \in Actors /\ r \notin Bots /\ r # "cycle"
  BY ActorsAreApart DEF FeedInv, FeedParts
<1>3. ~Busy(r)
  BY <1>1 DEF InTurn, InPlace
<1>4. /\ counted[r] = Nothing /\ counted'[r] = saved
      /\ \A a \in Actors : a # r => counted'[a] = counted[a]
  BY <1>1, <1>2, <1>3 DEF Busy, FeedTypes
<1>5. \A f \in Feeds : Owners(f)' = Owners(f)
  BY <1>1, <1>2, <1>4, ActorsAreApart DEF Owners
<1>6. ASSUME NEW f \in Feeds, CountedSomewhere(f) PROVE CountedSomewhere(f)'
  BY <1>1, <1>2, <1>4, <1>6, NothingIsTable DEF CountedSomewhere
<1>7. AloneIsCounted'
  BY <1>1, <1>5, <1>6, AloneStays
<1>8. ASSUME ~setup.byHand, NEW f \in Feeds PROVE Counted(f)'
  <2>1. Counted(f)
    BY <1>8 DEF AllAreCounted
  <2>2. refs[f] \in Nat
    BY <1>2 DEF FeedTypes, Table
  <2>3. HaveAll(f, counted[r][f]) => HaveAll(f, refs[f])
    BY <1>4, <2>2, NothingIsTable, FewerAreAll DEF HaveAll
  <2>4. \A m : HaveAll(f, m) => IsFiniteSet(Owners(f)') /\ Cardinality(Owners(f)') <= m
    BY <1>5 DEF HaveAll
  <2>5. HaveAll(f, refs[f]) => HaveAll(f, refs[f])'
    BY <1>1, <2>4 DEF HaveAll
  <2>6. HaveAll(f, saved[f]) => HaveAll(f, counted[r][f])'
    BY <1>4, <2>4 DEF HaveAll
  <2>7. \A a \in Replays \cup {"cycle"} :
           HaveAll(f, counted[a][f]) => a = r \/ HaveAll(f, counted[a][f])'
    BY <1>4, <2>4, ActorsAreApart DEF HaveAll
  <2>8. InOnePlace(f)'
    BY <2>1, <2>3, <2>5, <2>6, <2>7 DEF Counted, InOnePlace
  <2>9. counted'["cycle"][f] > 0 => HaveAll(f, counted["cycle"][f])'
    BY <1>2, <1>4, <2>1, <2>4, ActorsAreApart DEF Counted, HaveAll
  <2> QED
    BY <1>1, <2>1, <2>8, <2>9 DEF Counted
<1> QED
  BY <1>1, <1>7, <1>8 DEF AllAreCounted

(* The refresh lists every reference before it cancels a feed.             *)
LEMMA CycleStartCounts ==
    ASSUME FeedInv, FeedInv', AloneIsCounted, AllAreCounted, setup.orderly, [Next]_vars,
           CycleStarts
    PROVE  AloneIsCounted' /\ AllAreCounted'
<1>1. /\ Quiet /\ counted' = [counted EXCEPT !["cycle"] = refs]
      /\ UNCHANGED <<link, refs, saved, asking, bots, stage>>
  <2>1. UNCHANGED <<link, refs, saved, asking, bots, stage>>
    BY Zenon DEF CycleStarts, tableVars, callbackVars
  <2> QED
    BY <2>1 DEF CycleStarts, Calm
<1>2. /\ FeedTypes /\ FeedTypes' /\ "cycle" \in Actors /\ "cycle" \notin Bots
      /\ setup'.bots = setup.bots /\ setup'.byHand = setup.byHand /\ (Kept' <=> Kept)
  BY <1>1, SetupStays, ActorsAreApart DEF FeedInv, FeedParts, Kept
<1>3. /\ counted'["cycle"] = refs
      /\ \A a \in Actors : a # "cycle" => counted'[a] = counted[a]
      /\ \A a \in Actors : counted[a] = Nothing /\ asking[a] = None
  BY <1>1, <1>2 DEF FeedTypes, Quiet, Busy
<1>4. \A f \in Feeds : Owners(f)' = Owners(f)
  BY <1>1, <1>2, <1>3, ActorsAreApart DEF Owners
<1>5. ASSUME NEW f \in Feeds, CountedSomewhere(f) PROVE CountedSomewhere(f)'
  BY <1>1, <1>2, <1>3, <1>5, NothingIsTable DEF CountedSomewhere
<1>6. AloneIsCounted'
  BY <1>2, <1>4, <1>5, AloneStays
<1>7. ASSUME ~setup.byHand, NEW f \in Feeds PROVE Counted(f)'
  <2>1. HaveAll(f, refs[f])
    BY <1>1, <1>2, <1>7, QuietCounts DEF AllAreCounted
  <2>2. HaveAll(f, refs[f])' /\ HaveAll(f, counted["cycle"][f])'
    BY <1>1, <1>3, <1>4, <2>1 DEF HaveAll
  <2>3. \A a \in Actors : asking'[a] # f
    BY <1>1, <1>3, <1>7, SessionAssumption
  <2> QED
    BY <2>2, <2>3 DEF Counted, InOnePlace
<1> QED
  BY <1>2, <1>6, <1>7 DEF AllAreCounted

LEMMA CycleCancelCounts ==
    ASSUME FeedInv, FeedInv', AloneIsCounted, AllAreCounted, NEW f \in Feeds, CycleCancels(f)
    PROVE  AloneIsCounted' /\ AllAreCounted'
<1>1. /\ counted["cycle"][f] > 0 /\ refs' = [refs EXCEPT ![f] = 0]
      /\ UNCHANGED <<setup, link, saved, counted, asking, bots, stage>>
  <2>1. UNCHANGED <<setup, link, saved, counted, asking, bots, stage>>
    BY Zenon DEF CycleCancels, callbackVars
  <2> QED
    BY <2>1 DEF CycleCancels
<1>2. /\ FeedTypes /\ FeedTypes' /\ "cycle" \in Actors /\ (Kept' <=> Kept)
  BY <1>1, ActorsAreApart DEF FeedInv, FeedParts, Kept
<1>3. refs'[f] = 0 /\ \A g \in Feeds : g # f => refs'[g] = refs[g]
  BY <1>1, <1>2 DEF FeedTypes, Table
<1>4. \A g \in Feeds : Owners(g)' = Owners(g)
  BY <1>1 DEF Owners
<1>5. ASSUME NEW g \in Feeds, CountedSomewhere(g) PROVE CountedSomewhere(g)'
  <2>1. CASE g = f
    BY <1>1, <1>2, <2>1 DEF CountedSomewhere
  <2>2. CASE g # f
    BY <1>1, <1>2, <1>3, <1>5, <2>2 DEF CountedSomewhere
  <2> QED
    BY <2>1, <2>2
<1>6. AloneIsCounted'
  BY <1>1, <1>4, <1>5, AloneStays
<1>7. ASSUME ~setup.byHand, NEW g \in Feeds, g # f PROVE Counted(g)'
  BY <1>1, <1>2, <1>3, <1>4, <1>7, FeedStays DEF AllAreCounted
<1>8. ASSUME ~setup.byHand PROVE Counted(f)'
  <2>1. HaveAll(f, counted["cycle"][f])
    BY <1>1, <1>8 DEF AllAreCounted, Counted
  <2>2. HaveAll(f, counted["cycle"][f])'
    BY <1>1, <1>4, <2>1 DEF HaveAll
  <2> QED
    BY <1>3, <2>2 DEF Counted, InOnePlace
<1> QED
  BY <1>1, <1>6, <1>7, <1>8 DEF AllAreCounted

LEMMA CycleAsksCounts ==
    ASSUME FeedInv, FeedInv', AloneIsCounted, AllAreCounted, NEW f \in Feeds, CycleAsks(f)
    PROVE  AloneIsCounted' /\ AllAreCounted'
<1>1. UNCHANGED <<setup, link, saved, bots, stage>>
  BY Zenon DEF CycleAsks, callbackVars
<1>2. /\ FeedTypes /\ FeedTypes' /\ "cycle" \in Actors /\ "cycle" \notin Bots
      /\ (Kept' <=> Kept) /\ refs[f] \in Nat /\ counted["cycle"][f] \in Nat
  BY <1>1, ActorsAreApart DEF FeedInv, FeedParts, Kept, FeedTypes, Table
<1>3. CASE refs[f] > 0
  <2>1. /\ refs' = [refs EXCEPT ![f] = @ + counted["cycle"][f]]
        /\ counted' = [counted EXCEPT !["cycle"][f] = 0]
        /\ UNCHANGED asking
    BY <1>3 DEF CycleAsks
  <2>2. \A g \in Feeds : g # f =>
           refs'[g] = refs[g] /\ \A c \in Actors : counted'[c][g] = counted[c][g]
    BY <1>2, <2>1 DEF FeedTypes, Table
  <2>3. /\ refs'[f] = refs[f] + counted["cycle"][f] /\ counted'["cycle"][f] = 0
        /\ \A c \in Actors : c # "cycle" => counted'[c] = counted[c]
    BY <1>2, <2>1 DEF FeedTypes, Table
  <2>4. \A g \in Feeds : Owners(g)' = Owners(g)
    BY <1>1, <1>2, <2>3, ActorsAreApart DEF Owners
  <2>5. ASSUME NEW g \in Feeds, CountedSomewhere(g) PROVE CountedSomewhere(g)'
    <3>1. CASE g = f
      BY <1>2, <1>3, <2>3, <3>1 DEF CountedSomewhere
    <3>2. CASE g # f
      BY <1>1, <1>2, <2>2, <2>5, <3>2 DEF CountedSomewhere
    <3> QED
      BY <3>1, <3>2
  <2>6. AloneIsCounted'
    BY <1>1, <2>4, <2>5, AloneStays
  <2>7. ASSUME ~setup.byHand, NEW g \in Feeds, g # f PROVE Counted(g)'
    BY <1>1, <1>2, <2>1, <2>2, <2>4, <2>7, FeedStays, ActorsAreApart DEF AllAreCounted
  <2>8. ASSUME ~setup.byHand PROVE Counted(f)'
    <3>1. Counted(f)
      BY <2>8 DEF AllAreCounted
    <3>2. HaveAll(f, counted["cycle"][f]) \/ HaveAll(f, refs[f]) => HaveAll(f, refs[f])'
      BY <1>2, <2>3, <2>4, FewerAreAll DEF HaveAll
    <3>3. Kept /\ HaveAll(f, saved[f]) => Kept' /\ HaveAll(f, saved[f])'
      BY <1>1, <1>2, <2>4 DEF HaveAll
    <3>4. \A c \in Replays \cup {"cycle"} :
             HaveAll(f, counted[c][f]) => c = "cycle" \/ HaveAll(f, counted[c][f])'
      BY <2>3, <2>4, ActorsAreApart DEF HaveAll
    <3>5. InOnePlace(f)'
      BY <3>1, <3>2, <3>3, <3>4 DEF Counted, InOnePlace
    <3>6. \A c \in Actors : asking'[c] # f
      BY <1>3, <2>1, <3>1 DEF Counted
    <3> QED
      BY <2>3, <3>5, <3>6 DEF Counted
  <2> QED
    BY <1>1, <2>6, <2>7, <2>8 DEF AllAreCounted
<1>4. CASE ~(refs[f] > 0)
  <2>1. asking' = [asking EXCEPT !["cycle"] = f] /\ UNCHANGED <<refs, counted>>
    BY <1>4 DEF CycleAsks
  <2>2. \A g \in Feeds : Owners(g)' = Owners(g)
    BY <1>1, <2>1 DEF Owners
  <2>3. \A g \in Feeds : CountedSomewhere(g)' <=> CountedSomewhere(g)
    BY <1>1, <1>2, <2>1 DEF CountedSomewhere
  <2>4. AloneIsCounted'
    BY <1>1, <2>2, <2>3, AloneStays
  <2>5. ASSUME ~setup.byHand, NEW g \in Feeds PROVE Counted(g)'
    <3>1. \A c \in Actors : asking'[c] = g => asking[c] = g \/ refs[g] = 0
      <4>1. asking \in [Actors -> Feeds \cup {None}]
        BY <1>2 DEF FeedTypes
      <4> QED
        BY <1>2, <1>4, <2>1, <4>1
    <3> QED
      BY <1>1, <1>2, <2>1, <2>2, <2>5, <3>1, FeedStays DEF AllAreCounted
  <2> QED
    BY <1>1, <2>4, <2>5 DEF AllAreCounted
<1> QED
  BY <1>3, <1>4

(* A bot that starts has its references still to take.                     *)
LEMMA BotStartCounts ==
    ASSUME FeedInv, FeedInv', AloneIsCounted, AllAreCounted, NEW b \in Bots, BotStarts(b)
    PROVE  AloneIsCounted' /\ AllAreCounted'
<1>1. /\ bots[b] = "off" /\ bots' = [bots EXCEPT ![b] = "starting"]
      /\ counted' = [counted EXCEPT ![b] = [f \in Feeds |-> IF f \in FeedsOf(b) THEN 1 ELSE 0]]
      /\ UNCHANGED <<setup, link, refs, saved, asking, stage>>
  <2>1. UNCHANGED <<setup, link, refs, saved, asking, stage>>
    BY Zenon DEF BotStarts, tableVars, callbackVars
  <2> QED
    BY <2>1 DEF BotStarts
<1>2. /\ FeedTypes /\ FeedTypes' /\ b \in Actors /\ b \notin Replays /\ b # "cycle"
      /\ counted[b] = Nothing /\ (Kept' <=> Kept)
  BY <1>1, ActorsAreApart DEF FeedInv, FeedParts, BotsRest, Kept
<1>3. /\ \A f \in FeedsOf(b) : counted'[b][f] = 1
      /\ \A a \in Actors : a # b => counted'[a] = counted[a]
      /\ \A c \in Bots : c # b => bots'[c] = bots[c]
  BY <1>1, <1>2, BotFeedsAreFeeds DEF FeedTypes
<1>4. \A f \in Feeds : Owners(f)' \subseteq Owners(f)
  BY <1>3, ActorsAreApart DEF Owners
<1>5. ASSUME NEW f \in Feeds, CountedSomewhere(f) PROVE CountedSomewhere(f)'
  BY <1>1, <1>2, <1>3, <1>5, NothingIsTable DEF CountedSomewhere
<1>6. AloneIsCounted'
  BY <1>1, <1>4, <1>5, AloneStays
<1>7. ASSUME ~setup.byHand, NEW f \in Feeds PROVE Counted(f)'
  BY <1>1, <1>2, <1>3, <1>4, <1>7, FeedStays, ActorsAreApart DEF AllAreCounted
<1> QED
  BY <1>1, <1>6, <1>7 DEF AllAreCounted

(* A bot that stops gives up its own reference, and no other bot's.        *)
LEMMA BotStopCounts ==
    ASSUME FeedInv, FeedInv', InTurn, AloneIsCounted, AllAreCounted, setup.orderly,
           NEW b \in Bots, BotStops(b)
    PROVE  AloneIsCounted' /\ AllAreCounted'
<1>1. /\ Quiet /\ bots[b] = "on" /\ bots' = [bots EXCEPT ![b] = "off"] /\ Released(FeedsOf(b))
      /\ UNCHANGED <<setup, link, saved, counted, asking, stage>>
  <2>1. UNCHANGED <<setup, link, saved, counted, asking, stage>>
    BY Zenon DEF BotStops, taskVars, callbackVars
  <2> QED
    BY <2>1 DEF BotStops, Calm
<1>2. /\ FeedTypes /\ FeedTypes' /\ counted[b] = Nothing /\ (Kept' <=> Kept)
  BY <1>1 DEF FeedInv, FeedParts, BotsRest, Kept
<1>3. \A f \in Feeds :
         /\ refs[f] \in Nat
         /\ refs'[f] = IF f \in FeedsOf(b) /\ refs[f] > 0 THEN refs[f] - 1 ELSE refs[f]
  BY <1>1, <1>2 DEF Released, FeedTypes, Table
<1>4. /\ bots'[b] = "off"
      /\ \A c \in Bots : c # b => bots'[c] = bots[c]
  BY <1>1, <1>2 DEF FeedTypes
<1>5. \A f \in Feeds : Owners(f)' \subseteq Owners(f) \ {b}
  BY <1>1, <1>4 DEF Owners
<1>6. \A f \in FeedsOf(b) : f \in Feeds /\ b \in Owners(f)
  BY <1>1, <1>2, NothingIsTable, BotFeedsAreFeeds DEF Owners
<1>7. b \in setup.bots
  BY <1>1 DEF InTurn, Uncrashed
<1>8. ASSUME NEW f \in Feeds, NEW c \in Owners(f)', Alone(c)
      PROVE  c \in Owners(f) /\ (CountedSomewhere(f) => CountedSomewhere(f)')
  <2>1. c \in Owners(f) /\ c # b /\ c \in Bots /\ f \in FeedsOf(c)
    BY <1>5 DEF Owners
  <2>2. SymbolOf[b] # SymbolOf[c]
    BY <1>7, <1>8, <2>1 DEF Alone
  <2>3. f \notin FeedsOf(b)
    BY <2>1, <2>2, BotFeedsAreFeeds
  <2>4. refs'[f] = refs[f]
    BY <1>3, <2>3
  <2> QED
    BY <1>1, <1>2, <2>1, <2>4 DEF CountedSomewhere
<1>9. AloneIsCounted'
  BY <1>1, <1>8, AloneStays
<1>10. ASSUME ~setup.byHand, NEW f \in Feeds PROVE Counted(f)'
  <2>1. HaveAll(f, refs[f])
    BY <1>1, <1>2, <1>10, QuietCounts DEF AllAreCounted
  <2>2. IsFiniteSet(Owners(f)) /\ Cardinality(Owners(f)) <= refs[f] /\ refs[f] \in Nat
    BY <1>3, <2>1 DEF HaveAll
  <2>3. ASSUME f \in FeedsOf(b) PROVE HaveAll(f, refs[f])'
    <3>1. refs[f] > 0 /\ IsFiniteSet(Owners(f)') /\ Cardinality(Owners(f)') <= refs[f] - 1
      BY <1>5, <1>6, <2>2, <2>3, OneLessIsAll
    <3>2. refs'[f] = refs[f] - 1
      BY <1>3, <2>3, <3>1
    <3> QED
      BY <3>1, <3>2 DEF HaveAll
  <2>4. ASSUME f \notin FeedsOf(b) PROVE HaveAll(f, refs[f])'
    <3>1. refs'[f] = refs[f] /\ Owners(f)' \subseteq Owners(f)
      BY <1>3, <1>5, <2>4
    <3> QED
      BY <2>2, <3>1, FewerAreAll DEF HaveAll
  <2>5. HaveAll(f, refs[f])'
    BY <2>3, <2>4
  <2>6. \A a \in Actors : counted'[a] = Nothing /\ asking'[a] # f
    BY <1>1, <1>10, SessionAssumption DEF Quiet, Busy
  <2>7. ~(counted'["cycle"][f] > 0)
    BY <2>6, NothingIsTable, ActorsAreApart
  <2> QED
    BY <2>5, <2>6, <2>7 DEF Counted, InOnePlace
<1> QED
  BY <1>1, <1>9, <1>10 DEF AllAreCounted

LEMMA ReloadCounts ==
    ASSUME FeedInv, FeedInv', AloneIsCounted, AllAreCounted, [Next]_vars, Reload
    PROVE  AloneIsCounted' /\ AllAreCounted'
<1>1. /\ ~Busy("reload")
      /\ counted' = [counted EXCEPT !["reload"] =
                        [f \in Feeds |-> IF f \in Quotes(Watchlist) THEN 1 ELSE 0]]
      /\ UNCHANGED <<link, refs, saved, asking, bots, stage>>
  <2>1. UNCHANGED <<link, refs, saved, asking, bots, stage>>
    BY Zenon DEF Reload, tableVars, callbackVars
  <2> QED
    BY <2>1 DEF Reload
<1>2. /\ FeedTypes /\ FeedTypes' /\ (Kept' <=> Kept) /\ counted["reload"] = Nothing
      /\ setup'.bots = setup.bots /\ setup'.byHand = setup.byHand
  BY <1>1, SetupStays DEF FeedInv, FeedParts, Kept, Busy
<1>3. \A a \in Actors : a # "reload" => counted'[a] = counted[a]
  BY <1>1, <1>2 DEF FeedTypes
<1>4. \A f \in Feeds : Owners(f)' = Owners(f)
  BY <1>1, <1>3, ActorsAreApart DEF Owners, Routines
<1>5. ASSUME NEW f \in Feeds, CountedSomewhere(f) PROVE CountedSomewhere(f)'
  BY <1>1, <1>2, <1>3, <1>5, NothingIsTable DEF CountedSomewhere
<1>6. AloneIsCounted'
  BY <1>2, <1>4, <1>5, AloneStays
<1>7. ASSUME ~setup.byHand, NEW f \in Feeds PROVE Counted(f)'
  <2>1. \A a \in Replays \cup {"cycle"} : a \in Actors /\ a # "reload"
    BY ActorsAreApart, TasksAreNoRoutines
  <2> QED
    BY <1>1, <1>2, <1>3, <1>4, <1>7, <2>1, FeedStays DEF AllAreCounted
<1> QED
  BY <1>2, <1>6, <1>7 DEF AllAreCounted

LEMMA FedStart == Orderly /\ Init => BotsFedInv
<1> SUFFICES ASSUME Orderly, Init PROVE BotsFedInv
  OBVIOUS
<1>1. FeedInv
  BY FeedsStart
<1>2. ASSUME setup.orderly PROVE InTurn
  <2>1. \A a \in Actors : ~Doing(a)
    BY ActorsAreApart DEF Init, Doing, Busy
  <2>2. OneAtATime /\ InPlace
    BY <2>1, ActorsAreApart DEF OneAtATime, InPlace, Doing, Routines
  <2>3. LinkRests /\ NotStarted
    BY <2>1 DEF Init, LinkRests, NotStarted
  <2>4. Uncrashed
    BY <1>2 DEF Init, Uncrashed, Orderly
  <2> QED
    BY <2>2, <2>3, <2>4 DEF InTurn
<1>3. \A f : Owners(f) = {}
  BY DEF Init, Owners
<1>4. AloneIsCounted
  BY <1>3 DEF AloneIsCounted
<1>5. ASSUME NEW f \in Feeds PROVE Counted(f)
  <2>1. refs[f] = 0 /\ counted["cycle"][f] = 0
    BY NothingIsTable, ActorsAreApart DEF Init
  <2>2. HaveAll(f, 0)
    BY <1>3, FS_EmptySet DEF HaveAll
  <2> QED
    BY <2>1, <2>2 DEF Counted, InOnePlace
<1> QED
  BY <1>1, <1>2, <1>4, <1>5 DEF BotsFedInv, FedParts, AllAreCounted

(* The steps that move no reference.                                       *)
LEMMA OthersCount ==
    ASSUME FeedInv, FeedInv', InTurn, AloneIsCounted, AllAreCounted, [Next]_vars,
           \/ LoopAlerts \/ LoopConnects \/ ManualConnects \/ ManualEnds \/ AlertLands
           \/ LoopSucceeds \/ ManualSucceeds \/ LoopFails \/ ManualFails \/ CycleEnds
           \/ \E r \in Replays : Finds(r) \/ Removes(r) \/ WalksAmbient(r) \/ ReplayEnds(r)
           \/ \E b \in Bots : BotIsOn(b)
           \/ \E s \in Symbols : PositionOpens(s)
           \/ UNCHANGED vars
    PROVE  AloneIsCounted' /\ AllAreCounted'
<1>1. CASE LoopSucceeds \/ ManualSucceeds
  <2>1. link = "down"
    BY <1>1, ConnectInTurn
  <2>2. UNCHANGED <<refs, saved, counted, asking, bots>>
    BY <1>1, <2>1 DEF LoopSucceeds, ManualSucceeds, Opened, tableVars, taskVars
  <2>3. Called
    BY <1>1 DEF LoopSucceeds, ManualSucceeds, Opened
  <2>4. Kept'
    BY <2>3 DEF Called, Kept, FeedInv, SessionInv, Staged
  <2>5. \A f \in Feeds : Owners(f)' \subseteq Owners(f)
    BY <2>2 DEF Owners
  <2> QED
    BY <2>2, <2>4, <2>5, TableLeft
<1>2. CASE LoopFails \/ ManualFails
  <2>1. link = "down" /\ link' = "down"
    BY <1>2 DEF LoopFails, ManualFails, Refused, InTurn, LinkRests
  <2>2. UNCHANGED <<refs, saved, counted, asking, bots>>
    BY <1>2, <2>1 DEF LoopFails, ManualFails, Refused, tableVars, taskVars
  <2>3. \A f \in Feeds : Owners(f)' \subseteq Owners(f)
    BY <2>2 DEF Owners
  <2> QED
    BY <2>1, <2>2, <2>3, TableLeft DEF Kept
<1>3. ASSUME NEW r \in Replays, WalksAmbient(r) \/ ReplayEnds(r)
      PROVE  AloneIsCounted' /\ AllAreCounted'
  <2>1. UNCHANGED <<link, refs, saved, counted, asking, bots>>
    BY <1>3, Zenon DEF WalksAmbient, ReplayEnds, tableVars, taskVars
  <2>2. stage[r] # "spawned" /\ \E s : stage' = [stage EXCEPT ![r] = s]
    BY <1>3 DEF WalksAmbient, ReplayEnds
  <2>3. Kept => Kept'
    BY <2>1, <2>2 DEF Kept, FeedInv, SessionInv, Staged
  <2>4. \A f \in Feeds : Owners(f)' \subseteq Owners(f)
    BY <2>1 DEF Owners
  <2> QED
    BY <2>1, <2>3, <2>4, TableLeft
<1>4. ASSUME NEW b \in Bots, BotIsOn(b) PROVE AloneIsCounted' /\ AllAreCounted'
  <2>1. UNCHANGED <<link, refs, saved, counted, asking, stage>>
    BY <1>4, Zenon DEF BotIsOn, tableVars, taskVars, callbackVars
  <2>2. bots[b] = "starting" /\ bots' = [bots EXCEPT ![b] = "on"]
    BY <1>4 DEF BotIsOn
  <2>3. \A c \in Bots : bots'[c] # "off" => bots[c] # "off"
    BY <2>2 DEF FeedInv, FeedParts, FeedTypes
  <2>4. \A f \in Feeds : Owners(f)' \subseteq Owners(f)
    BY <2>1, <2>3 DEF Owners
  <2> QED
    BY <2>1, <2>4, TableLeft DEF Kept
<1>5. CASE \/ LoopAlerts \/ LoopConnects \/ ManualConnects \/ ManualEnds \/ AlertLands
           \/ CycleEnds \/ UNCHANGED vars
           \/ \E r \in Replays : Finds(r) \/ Removes(r)
           \/ \E s \in Symbols : PositionOpens(s)
  <2>1. UNCHANGED <<link, refs, saved, counted, asking, bots, stage>>
    BY <1>5, Zenon DEF LoopAlerts, LoopConnects, ManualConnects, ManualEnds, AlertLands, CycleEnds,
       Finds, Removes, PositionOpens, vars, tableVars, taskVars, callbackVars
  <2>2. \A f \in Feeds : Owners(f)' \subseteq Owners(f)
    BY <2>1 DEF Owners
  <2> QED
    BY <2>1, <2>2, TableLeft DEF Kept
<1> QED
  BY <1>1, <1>2, <1>3, <1>4, <1>5

LEMMA FedKeep == BotsFedInv /\ [Next]_vars => BotsFedInv'
<1> SUFFICES ASSUME BotsFedInv, [Next]_vars PROVE BotsFedInv'
  OBVIOUS
<1>1. FeedInv /\ FeedInv'
  BY FeedsKeep DEF BotsFedInv
<1>2. setup'.orderly = setup.orderly
  BY <1>1, SetupStays DEF FeedInv, FeedParts
<1>3. ASSUME setup.orderly PROVE InTurn' /\ AloneIsCounted' /\ AllAreCounted'
  <2>1. InTurn /\ AloneIsCounted /\ AllAreCounted
    BY <1>3 DEF BotsFedInv, FedParts
  <2>2. InTurn'
    BY <1>1, <1>3, <2>1, TurnsKeep
  <2>3. ~Crash
    BY <1>1, <2>1, SetupStays DEF InTurn, Uncrashed, FeedInv, FeedParts
  <2>4. ASSUME NEW a \in Actors, Subscribed(a) PROVE AloneIsCounted' /\ AllAreCounted'
    <3>1. asking[a] \in Feeds
      BY <1>1, <2>4 DEF Subscribed, FeedInv, FeedParts, FeedTypes
    <3> QED
      BY <1>1, <2>1, <2>4, <3>1, SubscribedCounts
  <2>5. AloneIsCounted' /\ AllAreCounted'
    BY <1>1, <1>3, <2>1, <2>3, <2>4, AsksCounts, DropCounts, StartupCounts, DrainCounts,
       CycleStartCounts, CycleCancelCounts, CycleAsksCounts, BotStartCounts, BotStopCounts,
       ReloadCounts, OthersCount DEF Next
  <2> QED
    BY <2>2, <2>5
<1> QED
  BY <1>1, <1>2, <1>3 DEF BotsFedInv, FedParts

(* A session that has come to rest after one drop, reconnect or refresh at *)
(* a time gives a bot its quotes and bars: always where the operator does  *)
(* not reconnect, however many bots share the contract and stop between;   *)
(* and the bot that is alone in its contract where he does.  The engine    *)
(* does not restart in between (Orderly): it would give no bot its bars.   *)
THEOREM BotsKeepTheirFeeds ==
    ASSUME Orderly
    PROVE  Spec => []BotsAreFed
<1>1. ASSUME BotsFedInv, Quiet, setup.orderly, NEW b \in Bots, bots[b] = "on",
             Alone(b) \/ ~setup.byHand, NEW f \in FeedsOf(b)
      PROVE  f \in served
  <2>1. /\ InTurn /\ AloneIsCounted /\ AllAreCounted /\ f \in Feeds
        /\ FeedTypes /\ ServedIsCounted /\ BotsRest
    BY <1>1, BotFeedsAreFeeds DEF BotsFedInv, FedParts, FeedInv, FeedParts
  <2>2. b \in Owners(f)
    BY <1>1, <2>1, NothingIsTable DEF Owners, BotsRest
  <2>3. ~Kept /\ \A a \in Actors : ~(counted[a][f] > 0)
    BY <1>1, <2>1, NothingIsTable DEF Quiet, NoReplay, Busy, Kept
  <2>4. CASE Alone(b)
    BY <1>1, <2>1, <2>2, <2>3, <2>4 DEF AloneIsCounted, CountedSomewhere, ServedIsCounted
  <2>5. CASE ~setup.byHand
    <3>1. HaveAll(f, refs[f]) /\ refs[f] \in Nat
      BY <1>1, <2>1, <2>5, QuietCounts DEF AllAreCounted, FeedTypes, Table
    <3>2. IsFiniteSet(Owners(f)) /\ Cardinality(Owners(f)) <= refs[f]
      BY <3>1 DEF HaveAll
    <3>3. Cardinality(Owners(f)) \in Nat /\ Cardinality(Owners(f)) # 0
      BY <2>2, <3>2, FS_EmptySet, FS_CardinalityType
    <3>4. refs[f] > 0
      BY <3>1, <3>2, <3>3
    <3> QED
      BY <2>1, <3>4 DEF ServedIsCounted
  <2> QED
    BY <1>1, <2>4, <2>5
<1>2. BotsFedInv => BotsAreFed
  BY <1>1 DEF BotsAreFed
<1> QED
  BY <1>2, FedStart, FedKeep, PTL DEF Spec
==============================================================================
