---------------------------- MODULE SymbolSwitch ----------------------------
(***************************************************************************)
(* The control plane of the live feed (apps/live_feed.cpp): the /symbol    *)
(* handler that asks every feed to change over, the supervisor thread of   *)
(* each feed that does it, and the main thread that ends the process.      *)
(*                                                                         *)
(* They share, per feed, `restart` and `session`, which are atomic, and    *)
(* pending_symbol and cfg.symbol, which are plain strings.  Assigning such *)
(* a string is two steps with the value Torn in between, which is what a   *)
(* thread reads that does not wait for the assignment to end; two          *)
(* assignments that overlap may leave a mixture behind for good.           *)
(*                                                                         *)
(* The HTTP library runs a handler thread per connection.  OneAtATime says *)
(* that the client waits for each answer before it asks again.             *)
(***************************************************************************)
EXTENDS Integers, FiniteSets

CONSTANTS NumFeeds,      \* one or two markets
          Catalog,       \* kSymbolCatalog
          FirstSymbol,   \* of the command line
          Torn,          \* what is not a symbol: unknown, or read half-written
          Handlers,      \* HTTP threads
          OneAtATime,    \* does a request wait for the answer to the one before?
          policy,        \* of a full ring: "Block" or "Drop"
          MaxRequests    \* bound: /symbol requests

ASSUME SwitchAssumption == /\ NumFeeds \in Nat \ {0} /\ MaxRequests \in Nat
                           /\ FirstSymbol \in Catalog /\ Torn \notin Catalog
                           /\ OneAtATime \in BOOLEAN /\ policy \in {"Block", "Drop"}

Feeds == 1..NumFeeds

VARIABLES
  \* HTTP
  symbol,           \* app_state->symbol, under sym_mu
  req,              \* handler -> [at, want, i]: its place, symbol and feed
  requests,         \* how many there have been
  \* per feed
  pending_symbol, restart, cfg_symbol, session,
  ws,               \* the socket: up, and the symbol and session it was started with
  cb,               \* is its callback in a message?
  sup,              \* the supervisor's place in supervise_feed()
  \* the main thread
  g_stop,
  main              \* its place and the feed it is at

httpVars == <<symbol, req, requests>>
feedVars == <<pending_symbol, restart, cfg_symbol, session, ws, cb, sup>>
mainVars == <<g_stop, main>>
switchVars == <<httpVars, feedVars, mainVars>>

Idle == [at |-> "idle", want |-> Torn, i |-> 0]

SwitchInit ==
  /\ symbol = FirstSymbol
  /\ req = [h \in Handlers |-> Idle]
  /\ requests = 0
  /\ pending_symbol = [f \in Feeds |-> FirstSymbol]
  /\ cfg_symbol = [f \in Feeds |-> FirstSymbol]
  /\ restart = [f \in Feeds |-> FALSE]
  /\ session = [f \in Feeds |-> 0]
  /\ ws = [f \in Feeds |-> [up |-> FALSE, symbol |-> Torn, session |-> 0]]
  /\ cb = [f \in Feeds |-> FALSE]
  /\ sup = [f \in Feeds |-> "loop"]
  /\ g_stop = FALSE
  /\ main = [at |-> "run", i |-> 1]

-----------------------------------------------------------------------------
(* POST /symbol?set=want.                                                  *)

At(h, place) == req[h].at = place
Go(h, place) == req' = [req EXCEPT ![h].at = place]
Answer(h) == req' = [req EXCEPT ![h] = Idle]

(* A symbol that is not in the catalog is answered with 400 at once.       *)
Request(h) ==
  /\ At(h, "idle") /\ requests < MaxRequests
  /\ OneAtATime => \A k \in Handlers : At(k, "idle")
  /\ requests' = requests + 1
  /\ \E want \in Catalog \cup {Torn} :
       req' = IF want \in Catalog
              THEN [req EXCEPT ![h] = [at |-> "check", want |-> want, i |-> 1]] ELSE req
  /\ UNCHANGED <<symbol, feedVars, mainVars>>

(* The feeds are looked at one after the other; 429 if one has a switch to *)
(* do.  The fault looks at the first feed only.                            *)
CheckFirstFeed(h) ==
  /\ At(h, "check")
  /\ IF restart[1] THEN Answer(h) ELSE Go(h, "lock")
  /\ UNCHANGED <<symbol, requests, feedVars, mainVars>>
CheckFeed(h) ==
  /\ At(h, "check")
  /\ \/ restart[req[h].i] /\ Answer(h)
     \/ ~restart[req[h].i] /\ req[h].i < NumFeeds /\ req' = [req EXCEPT ![h].i = @ + 1]
     \/ ~restart[req[h].i] /\ req[h].i = NumFeeds /\ Go(h, "lock")
  /\ UNCHANGED <<symbol, requests, feedVars, mainVars>>

(* The section under sym_mu.                                               *)
SetSymbol(h) ==
  /\ At(h, "lock")
  /\ IF symbol = req[h].want THEN Answer(h) /\ UNCHANGED symbol
     ELSE /\ symbol' = req[h].want
          /\ req' = [req EXCEPT ![h].at = "write", ![h].i = 1]
  /\ UNCHANGED <<requests, feedVars, mainVars>>

Writing(h, f) == At(h, "written") /\ req[h].i = f
BeginWrite(h) ==
  /\ At(h, "write")
  /\ pending_symbol' = [pending_symbol EXCEPT ![req[h].i] = Torn]
  /\ Go(h, "written")
  /\ UNCHANGED <<symbol, requests, restart, cfg_symbol, session, ws, cb, sup, mainVars>>
EndWrite(h) ==
  /\ At(h, "written")
  /\ LET f == req[h].i
         overlaps == \/ pending_symbol[f] # Torn
                     \/ \E k \in Handlers \ {h} : Writing(k, f)
     IN \E v \in {req[h].want} \cup (IF overlaps THEN {Torn} ELSE {}) :
          pending_symbol' = [pending_symbol EXCEPT ![f] = v]
  /\ Go(h, "raise")
  /\ UNCHANGED <<symbol, requests, restart, cfg_symbol, session, ws, cb, sup, mainVars>>

(* The next feed's turn comes after 1200 ms.  The fault ends the loop one  *)
(* feed early.                                                             *)
RaiseRestartShort(h) ==
  /\ At(h, "raise")
  /\ restart' = [restart EXCEPT ![req[h].i] = TRUE]
  /\ IF req[h].i < NumFeeds - 1
     THEN req' = [req EXCEPT ![h].at = "write", ![h].i = @ + 1] ELSE Answer(h)
  /\ UNCHANGED <<symbol, requests, pending_symbol, cfg_symbol, session, ws, cb, sup,
                 mainVars>>
RaiseRestart(h) ==
  /\ At(h, "raise")
  /\ restart' = [restart EXCEPT ![req[h].i] = TRUE]
  /\ IF req[h].i < NumFeeds
     THEN req' = [req EXCEPT ![h].at = "write", ![h].i = @ + 1] ELSE Answer(h)
  /\ UNCHANGED <<symbol, requests, pending_symbol, cfg_symbol, session, ws, cb, sup,
                 mainVars>>

Handle(h) == CheckFeed(h) \/ SetSymbol(h) \/ BeginWrite(h) \/ EndWrite(h) \/ RaiseRestart(h)

-----------------------------------------------------------------------------
(* The socket's thread.  The callback leaves a message of another session  *)
(* alone; the other messages it takes to the trade tape or the ring, and   *)
(* there it waits while the ring is full and the policy is Block.          *)

OnMessage(f) == /\ ws[f].up /\ ~cb[f] /\ ws[f].session = session[f]
                /\ cb' = [cb EXCEPT ![f] = TRUE]
                /\ UNCHANGED <<httpVars, mainVars, pending_symbol, restart, cfg_symbol, session,
                               ws, sup>>
Return(f) == /\ cb[f]
             /\ cb' = [cb EXCEPT ![f] = FALSE]
             /\ UNCHANGED <<httpVars, mainVars, pending_symbol, restart, cfg_symbol, session, ws,
                            sup>>

(* ws.stop() joins the thread, so it returns when the callback has.  A     *)
(* fault is not to wait for it.                                            *)
JoinedNot(f) == TRUE
Joined(f) == ~cb[f]

-----------------------------------------------------------------------------
(* supervise_feed().                                                       *)

Sup(f, from, to) == sup[f] = from /\ sup' = [sup EXCEPT ![f] = to]

SupLoop(f) == /\ Sup(f, "loop", IF g_stop THEN "done" ELSE "start")
              /\ UNCHANGED <<httpVars, mainVars, pending_symbol, restart, cfg_symbol, session, ws, cb>>

(* start_websocket(): the old socket is stopped, the new one set up with   *)
(* the feed's symbol and session and started.                              *)
SupConnect(f) == /\ Sup(f, "start", "watch") /\ Joined(f)
                 /\ ws' = [ws EXCEPT ![f] = [up |-> TRUE, symbol |-> cfg_symbol[f],
                                             session |-> session[f]]]
                 /\ UNCHANGED <<httpVars, mainVars, pending_symbol, restart, cfg_symbol, session, cb>>

(* Polling the two flags, every 50 ms.  The fault polls `restart' only.    *)
SupWakeOnRestart(f) ==
              /\ restart[f]
              /\ Sup(f, "watch", "stop")
              /\ UNCHANGED <<httpVars, mainVars, pending_symbol, restart, cfg_symbol, session, ws, cb>>
SupWake(f) == /\ g_stop \/ restart[f]
              /\ Sup(f, "watch", "stop")
              /\ UNCHANGED <<httpVars, mainVars, pending_symbol, restart, cfg_symbol, session, ws, cb>>

(* A fault leaves the socket up.                                           *)
SupStopNot(f) == /\ Sup(f, "stop", "decide")
                 /\ UNCHANGED <<httpVars, mainVars, pending_symbol, restart, cfg_symbol,
                                session, ws, cb>>
SupStop(f) == /\ Sup(f, "stop", "decide") /\ Joined(f)
              /\ ws' = [ws EXCEPT ![f].up = FALSE]
              /\ UNCHANGED <<httpVars, mainVars, pending_symbol, restart, cfg_symbol, session, cb>>

SupDecide(f) == /\ Sup(f, "decide", IF g_stop \/ ~restart[f] THEN "done" ELSE "assign")
                /\ UNCHANGED <<httpVars, mainVars, pending_symbol, restart, cfg_symbol, session, ws, cb>>

(* cfg.symbol = pending_symbol, in two steps.                              *)
SupAssign(f) == /\ Sup(f, "assign", "assigned")
                /\ cfg_symbol' = [cfg_symbol EXCEPT ![f] = Torn]
                /\ UNCHANGED <<httpVars, mainVars, pending_symbol, restart, session, ws, cb>>
SupAssigned(f) == /\ Sup(f, "assigned", "clear")
                  /\ cfg_symbol' = [cfg_symbol EXCEPT ![f] = pending_symbol[f]]
                  /\ UNCHANGED <<httpVars, mainVars, pending_symbol, restart, session, ws, cb>>

SupClear(f) == /\ Sup(f, "clear", "bump")
               /\ restart' = [restart EXCEPT ![f] = FALSE]
               /\ UNCHANGED <<httpVars, mainVars, pending_symbol, cfg_symbol, session, ws, cb>>

SupBump(f) == /\ Sup(f, "bump", "clean")
              /\ session' = [session EXCEPT ![f] = @ + 1]
              /\ UNCHANGED <<httpVars, mainVars, pending_symbol, restart, cfg_symbol, ws, cb>>

(* Emptying the trade tape and the ring, and the pause after it, do not    *)
(* touch this state; LiveSession has them.                                 *)
SupClean(f) == /\ Sup(f, "clean", "loop")
               /\ UNCHANGED <<httpVars, mainVars, pending_symbol, restart, cfg_symbol, session, ws, cb>>

Supervise(f) == \/ SupLoop(f) \/ SupConnect(f) \/ SupWake(f) \/ SupStop(f) \/ SupDecide(f)
                \/ SupAssign(f) \/ SupAssigned(f) \/ SupClear(f) \/ SupBump(f) \/ SupClean(f)

-----------------------------------------------------------------------------
(* The main thread.  Ctrl-C, or the end of the configured duration.        *)
Stop == /\ main.at = "run" /\ ~g_stop
        /\ g_stop' = TRUE
        /\ UNCHANGED <<httpVars, feedVars, main>>

Main(from, to) == main.at = from /\ main' = [main EXCEPT !.at = to]

MainLeaves == /\ g_stop /\ Main("run", "clear")
              /\ UNCHANGED <<httpVars, feedVars, g_stop>>

MainClear == /\ Main("clear", "bump")
             /\ restart' = [restart EXCEPT ![main.i] = FALSE]
             /\ UNCHANGED <<httpVars, g_stop, pending_symbol, cfg_symbol, session, ws, cb, sup>>
MainBump == /\ Main("bump", "stop")
            /\ session' = [session EXCEPT ![main.i] = @ + 1]
            /\ UNCHANGED <<httpVars, g_stop, pending_symbol, restart, cfg_symbol, ws, cb, sup>>
MainStop == /\ main.at = "stop" /\ Joined(main.i)
            /\ ws' = [ws EXCEPT ![main.i].up = FALSE]
            /\ main' = IF main.i < NumFeeds THEN [at |-> "clear", i |-> main.i + 1]
                                            ELSE [at |-> "join", i |-> 1]
            /\ UNCHANGED <<httpVars, g_stop, pending_symbol, restart, cfg_symbol, session, cb, sup>>

(* Joining the supervisors, then the consumers.                            *)
MainJoin == /\ \A f \in Feeds : sup[f] = "done"
            /\ Main("join", "join_consumers")
            /\ UNCHANGED <<httpVars, feedVars, g_stop>>
MainEnd == /\ Main("join_consumers", "done")
           /\ UNCHANGED <<httpVars, feedVars, g_stop>>

MainThread == MainLeaves \/ MainClear \/ MainBump \/ MainStop \/ MainJoin \/ MainEnd

SwitchNext == \/ \E h \in Handlers : Request(h) \/ Handle(h)
              \/ \E f \in Feeds : OnMessage(f) \/ Return(f) \/ Supervise(f)
              \/ Stop \/ MainThread

(* Every thread runs; nobody has to ask for a symbol or to press Ctrl-C.   *)
(* ws.stop() closes the socket, so messages do not come between it and the *)
(* join for ever.  Under Drop the callback always returns; under Block it  *)
(* returns if it gets the room it waits for.                               *)
SwitchFairness == /\ \A h \in Handlers : WF_switchVars(Handle(h))
                  /\ \A f \in Feeds : WF_switchVars(Supervise(f))
                  /\ WF_switchVars(MainThread)
                  /\ \A f \in Feeds : SF_switchVars(SupStop(f))
                  /\ SF_switchVars(MainStop)
                  /\ policy = "Drop" => \A f \in Feeds : WF_switchVars(Return(f))

SwitchSpec == SwitchInit /\ [][SwitchNext]_switchVars /\ SwitchFairness

-----------------------------------------------------------------------------
Places == {"loop", "start", "watch", "stop", "decide", "assign", "assigned", "clear",
           "bump", "clean", "done"}

RequestState == [at : {"idle", "check", "lock", "write", "written", "raise"},
                 want : Catalog \cup {Torn}, i : 0..NumFeeds]
Socket == [up : BOOLEAN, symbol : Catalog \cup {Torn}, session : Nat]
MainState == [at : {"run", "clear", "bump", "stop", "join", "join_consumers", "done"},
              i : Feeds]

SwitchTypeOK ==
  /\ symbol \in Catalog
  /\ req \in [Handlers -> RequestState]
  /\ requests \in 0..MaxRequests
  /\ pending_symbol \in [Feeds -> Catalog \cup {Torn}]
  /\ cfg_symbol \in [Feeds -> Catalog \cup {Torn}]
  /\ restart \in [Feeds -> BOOLEAN] /\ session \in [Feeds -> Nat]
  /\ ws \in [Feeds -> Socket] /\ cb \in [Feeds -> BOOLEAN]
  /\ sup \in [Feeds -> Places]
  /\ g_stop \in BOOLEAN
  /\ main \in MainState

(* A request that is being written out to the feeds.                       *)
InHand(h) == req[h].at \in {"write", "written", "raise"}
(* A feed the request in hand has not reached yet.                         *)
Ahead(f) == \E h \in Handlers : InHand(h) /\ f >= req[h].i

(* When requests come one at a time, no feed can be left behind: at every  *)
(* moment a feed that the current request has reached either has the       *)
(* active symbol, or has it as its pending symbol with `restart' raised.   *)
(* So the answer "ok" for a symbol that is active already is true.         *)
FeedsFollow ==
  OneAtATime /\ ~g_stop =>
    \A f \in Feeds :
      \/ Ahead(f)
      \/ restart[f] /\ pending_symbol[f] = symbol
      \/ ~restart[f] /\ cfg_symbol[f] = symbol

(* A socket that is up belongs to the feed's session and streams the       *)
(* feed's symbol; a supervisor gives up only when the process ends; and    *)
(* when the main thread returns, no socket is up and no supervisor runs.   *)
SocketsMatchFeeds ==
  /\ SwitchTypeOK
  /\ \A f \in Feeds :
       /\ ws[f].up => ws[f].symbol = cfg_symbol[f]
       /\ ws[f].up /\ ~g_stop => ws[f].session = session[f]
       /\ sup[f] = "done" => g_stop /\ (main.at \in {"join", "join_consumers", "done"} => ~ws[f].up)
       /\ main.at \in {"join_consumers", "done"} => sup[f] = "done"

(* Why they hold.  A socket is up only while its supervisor watches or     *)
(* stops it, a callback runs only while its socket is up, and the          *)
(* supervisor that has begun a switch has `restart' raised until it has    *)
(* taken the pending symbol over.                                          *)
Switching == {"stop", "decide", "assign", "assigned", "clear"}
SupInv ==
  \A f \in Feeds :
    /\ ws[f].up => /\ sup[f] \in {"watch", "stop"} /\ ws[f].symbol = cfg_symbol[f]
                   /\ ~g_stop => ws[f].session = session[f]
    /\ cb[f] => ws[f].up
    /\ sup[f] \in Switching /\ ~g_stop => restart[f]
    /\ sup[f] = "done" => g_stop
    /\ main.at \in {"join_consumers", "done"} => sup[f] = "done"

(* A request that passed the test of a feed's `restart' keeps that feed to *)
(* itself until it raises `restart' there.                                 *)
Reserved(h, f) == \/ At(h, "check") /\ f < req[h].i
                  \/ At(h, "lock")
                  \/ InHand(h) /\ f >= req[h].i
ReqInv ==
  /\ \A h \in Handlers : ~At(h, "idle") => req[h].i \in Feeds /\ req[h].want \in Catalog
  /\ OneAtATime =>
       \A h \in Handlers :
         /\ \A k \in Handlers \ {h} : ~At(h, "idle") => At(k, "idle")
         /\ InHand(h) => req[h].want = symbol
         /\ At(h, "written") => pending_symbol[req[h].i] = Torn
         /\ At(h, "raise") => pending_symbol[req[h].i] = symbol
         /\ ~g_stop => \A f \in Feeds : Reserved(h, f) => ~restart[f]
HandOver == OneAtATime /\ ~g_stop =>
              \A f \in Feeds : sup[f] = "clear" => cfg_symbol[f] = pending_symbol[f]

(* The inductive invariant of the control plane.                           *)
SwitchInv == /\ SwitchTypeOK /\ (main.at # "run" => g_stop)
             /\ SupInv /\ ReqInv /\ HandOver /\ FeedsFollow

(* A switch takes effect: when requests come one at a time, every feed     *)
(* comes to stream the active symbol, unless the symbol changes again or   *)
(* the process ends first, or the feed's callback never returns: under     *)
(* Block it may wait for ever for a consumer that never gets a snapshot,   *)
(* and ws.stop() then waits for it.                                        *)
Streams(f, s) == ws[f].up /\ ws[f].symbol = s
SwitchTakesEffect ==
  \A f \in Feeds, s \in Catalog :
    \/ <>[]cb[f]
    \/ (OneAtATime /\ symbol = s) ~> (Streams(f, s) \/ symbol # s \/ g_stop)
=============================================================================
