------------------------- MODULE LiveSessionProofs -------------------------
(***************************************************************************)
(* Proofs about the live feed.  First its control plane, SymbolSwitch, for *)
(* any number of feeds, symbols, handlers and requests: no feed is left    *)
(* behind by a request, and sockets belong to their session.  Then one     *)
(* feed, LiveSession, for any symbols, ring, tape and number of messages,  *)
(* switches and levels per message, under either policy: no session mixes  *)
(* symbols, and no thread of a feed outlives the main one.                 *)
(***************************************************************************)
EXTENDS LiveSession, SequenceTheorems, TLAPS

(* What the steps of a handler do to its request record.                   *)
LEMMA RequestMoves ==
  ASSUME NEW r \in RequestState,
         NEW p \in {"idle", "check", "lock", "write", "written", "raise"}
  PROVE  [r EXCEPT !.at = p] \in RequestState
BY DEF RequestState

LEMMA RequestAdvances ==
  ASSUME NEW r \in RequestState, NEW j \in 0..NumFeeds
  PROVE  /\ [r EXCEPT !.i = j] \in RequestState
         /\ [r EXCEPT !.at = "write", !.i = j] \in RequestState
BY DEF RequestState

(* The answer to a request makes the handler idle.                         *)
LEMMA IdleType == Idle \in RequestState
BY SwitchAssumption, SMT DEF Idle, RequestState

(* Updating one handler's record keeps the type of them all.               *)
LEMMA RequestsType ==
  ASSUME NEW h \in Handlers, NEW r \in RequestState, req \in [Handlers -> RequestState],
         req' = [req EXCEPT ![h] = r]
  PROVE  /\ req' \in [Handlers -> RequestState]
         /\ req'[h] = r /\ \A k \in Handlers \ {h} : req'[k] = req[k]
OBVIOUS

-----------------------------------------------------------------------------
LEMMA InitSwitchInv == SwitchInit => SwitchInv
<1>. SUFFICES ASSUME SwitchInit PROVE SwitchInv
  OBVIOUS
<1>. USE SwitchAssumption DEF SwitchInit, Feeds
<1>1. SwitchTypeOK
  <2>1. req \in [Handlers -> RequestState]
    BY IdleType
  <2>2. ws \in [Feeds -> Socket] /\ main \in MainState
    BY SMT DEF Socket, MainState
  <2>3. /\ pending_symbol \in [Feeds -> Catalog \cup {Torn}]
        /\ cfg_symbol \in [Feeds -> Catalog \cup {Torn}]
        /\ restart \in [Feeds -> BOOLEAN] /\ session \in [Feeds -> Nat]
        /\ cb \in [Feeds -> BOOLEAN] /\ sup \in [Feeds -> Places] /\ requests \in 0..MaxRequests
    BY SMT DEF Places
  <2>. QED BY <2>1, <2>2, <2>3 DEF SwitchTypeOK
<1>2. SupInv
  BY SMT DEF SupInv, Switching
<1>3. ReqInv
  BY SMT DEF ReqInv, At, InHand, Reserved, Idle
<1>4. HandOver /\ FeedsFollow
  BY SMT DEF HandOver, FeedsFollow
<1>. QED BY <1>1, <1>2, <1>3, <1>4, SMT DEF SwitchInv

-----------------------------------------------------------------------------
(* The steps of the /symbol handler.                                       *)
LEMMA HandlerSwitchInv ==
  ASSUME SwitchInv, NEW h \in Handlers, Request(h) \/ Handle(h)
  PROVE  SwitchInv'
<1>. USE SwitchAssumption DEF SwitchInv, Feeds, feedVars, mainVars, At, InHand, Ahead
<1>0. /\ req \in [Handlers -> RequestState] /\ req[h] \in RequestState
      /\ req[h].at # "idle" => req[h].i \in 1..NumFeeds /\ req[h].want \in Catalog
  BY DEF SwitchTypeOK, ReqInv
<1>1. CASE Request(h)
  <2>1. req' = req \/ \E w \in Catalog : req' = [req EXCEPT ![h] = [at |-> "check", want |-> w, i |-> 1]]
    BY <1>1 DEF Request
  <2>2. CASE req' = req
    BY <1>1, <2>2, SMT DEF Request, SwitchTypeOK, SupInv, Switching, ReqInv, Reserved, HandOver, FeedsFollow
  <2>3. ASSUME NEW w \in Catalog, req' = [req EXCEPT ![h] = [at |-> "check", want |-> w, i |-> 1]]
        PROVE  SwitchInv'
    <3>1. [at |-> "check", want |-> w, i |-> 1] \in RequestState
      BY SMT DEF RequestState
    <3>2. /\ req' \in [Handlers -> RequestState]
          /\ req'[h] = [at |-> "check", want |-> w, i |-> 1]
          /\ \A k \in Handlers \ {h} : req'[k] = req[k]
      BY <1>0, <2>3, <3>1, RequestsType
    <3>3. SwitchTypeOK'
      BY <1>1, <3>2, SMT DEF Request, SwitchTypeOK
    <3>4. ReqInv'
      BY <1>1, <3>2, SMT DEF Request, ReqInv, Reserved
    <3>5. SupInv' /\ HandOver'
      BY <1>1, SMT DEF Request, SupInv, Switching, HandOver
    <3>6. FeedsFollow'
      BY <1>1, <3>2, SMT DEF Request, FeedsFollow
    <3>. QED BY <1>1, <3>3, <3>4, <3>5, <3>6, SMT DEF Request
  <2>. QED BY <2>1, <2>2, <2>3
<1>2. CASE CheckFeed(h)
  <2>0. UNCHANGED <<symbol, requests, feedVars, mainVars>>
    BY <1>2 DEF CheckFeed
  <2>1. PICK r \in RequestState :
          /\ req' = [req EXCEPT ![h] = r]
          /\ \/ r = Idle
             \/ /\ ~restart[req[h].i] /\ req[h].i < NumFeeds
                /\ r = [req[h] EXCEPT !.i = @ + 1]
             \/ /\ ~restart[req[h].i] /\ req[h].i = NumFeeds
                /\ r = [req[h] EXCEPT !.at = "lock"]
    <3>1. CASE Answer(h)
      BY <3>1, IdleType DEF Answer
    <3>2. CASE ~restart[req[h].i] /\ req[h].i < NumFeeds /\ req' = [req EXCEPT ![h].i = @ + 1]
      <4>1. req[h].i + 1 \in 0..NumFeeds
        BY <1>0, <1>2, <3>2, SMT DEF CheckFeed
      <4>2. [req[h] EXCEPT !.i = @ + 1] \in RequestState
        BY <1>0, <4>1, RequestAdvances
      <4>. QED BY <3>2, <4>2
    <3>3. CASE ~restart[req[h].i] /\ req[h].i = NumFeeds /\ Go(h, "lock")
      <4>1. [req[h] EXCEPT !.at = "lock"] \in RequestState
        BY <1>0, RequestMoves
      <4>. QED BY <3>3, <4>1 DEF Go
    <3>. QED BY <1>2, <3>1, <3>2, <3>3 DEF CheckFeed
  <2>2. /\ req' \in [Handlers -> RequestState] /\ req'[h] = r
        /\ \A k \in Handlers \ {h} : req'[k] = req[k]
    BY <1>0, <2>1, RequestsType
  <2>3. SwitchTypeOK'
    BY <2>0, <2>2 DEF SwitchTypeOK
  <2>4. ReqInv'
    BY <1>0, <1>2, <2>0, <2>1, <2>2, SMT DEF CheckFeed, ReqInv, Reserved, Idle, RequestState
  <2>5. SupInv' /\ HandOver'
    BY <2>0, SMT DEF SupInv, Switching, HandOver
  <2>6. FeedsFollow'
    BY <1>2, <2>0, <2>1, <2>2, SMT DEF CheckFeed, FeedsFollow, Idle, RequestState
  <2>. QED BY <2>0, <2>3, <2>4, <2>5, <2>6
<1>3. CASE SetSymbol(h)
  <2>1. CASE symbol = req[h].want /\ Answer(h) /\ UNCHANGED symbol
    <3>1. /\ req' \in [Handlers -> RequestState] /\ req'[h] = Idle
          /\ \A k \in Handlers \ {h} : req'[k] = req[k]
      BY <1>0, <2>1, IdleType, RequestsType DEF Answer
    <3>2. SwitchTypeOK'
      BY <1>3, <2>1, <3>1 DEF SetSymbol, SwitchTypeOK
    <3>3. ReqInv'
      BY <1>3, <2>1, <3>1, SMT DEF SetSymbol, ReqInv, Reserved, Idle
    <3>4. SupInv' /\ HandOver'
      BY <1>3, <2>1, SMT DEF SetSymbol, SupInv, Switching, HandOver
    <3>5. FeedsFollow'
      BY <1>3, <2>1, <3>1, SMT DEF SetSymbol, FeedsFollow
    <3>. QED BY <1>3, <3>2, <3>3, <3>4, <3>5 DEF SetSymbol
  <2>2. CASE symbol' = req[h].want /\ req' = [req EXCEPT ![h].at = "write", ![h].i = 1]
    <3>1. [req[h] EXCEPT !.at = "write", !.i = 1] \in RequestState
      <4>1. 1 \in 0..NumFeeds
        BY SMT
      <4>. QED BY <1>0, <4>1, RequestAdvances
    <3>2. req' = [req EXCEPT ![h] = [req[h] EXCEPT !.at = "write", !.i = 1]]
      BY <1>0, <2>2
    <3>3. /\ req' \in [Handlers -> RequestState]
          /\ req'[h] = [req[h] EXCEPT !.at = "write", !.i = 1]
          /\ \A k \in Handlers \ {h} : req'[k] = req[k]
      BY <1>0, <3>1, <3>2, RequestsType
    <3>4. req'[h].at = "write" /\ req'[h].i = 1 /\ req'[h].want = req[h].want
      BY <1>0, <3>3 DEF RequestState
    <3>5. SwitchTypeOK'
      BY <1>0, <1>3, <2>2, <3>3 DEF SetSymbol, SwitchTypeOK
    <3>6. ReqInv'
      BY <1>0, <1>3, <2>2, <3>3, <3>4, SMT DEF SetSymbol, ReqInv, Reserved
    <3>7. SupInv' /\ HandOver'
      BY <1>3, SMT DEF SetSymbol, SupInv, Switching, HandOver
    <3>8. FeedsFollow'
      BY <1>3, <3>4, SMT DEF SetSymbol, FeedsFollow
    <3>. QED BY <1>3, <3>5, <3>6, <3>7, <3>8 DEF SetSymbol
  <2>. QED BY <1>3, <2>1, <2>2 DEF SetSymbol
<1>4. CASE BeginWrite(h)
  <2>1. [req[h] EXCEPT !.at = "written"] \in RequestState
    BY <1>0, RequestMoves
  <2>2. /\ req' \in [Handlers -> RequestState]
        /\ req'[h] = [req[h] EXCEPT !.at = "written"]
        /\ \A k \in Handlers \ {h} : req'[k] = req[k]
    BY <1>0, <1>4, <2>1, RequestsType DEF BeginWrite, Go
  <2>3. req'[h].at = "written" /\ req'[h].i = req[h].i /\ req'[h].want = req[h].want
    BY <1>0, <2>2 DEF RequestState
  <2>4. SwitchTypeOK'
    BY <1>0, <1>4, <2>2 DEF BeginWrite, SwitchTypeOK
  <2>5. ReqInv'
    <3>1. /\ \A k \in Handlers : req'[k].i = req[k].i /\ req'[k].want = req[k].want
          /\ \A k \in Handlers \ {h} : req'[k].at = req[k].at
      BY <2>2, <2>3
    <3>2. OneAtATime => \A k \in Handlers \ {h} : req'[k].at = "idle"
      BY <1>4, <3>1 DEF BeginWrite, ReqInv
    <3>3. OneAtATime => req[h].want = symbol /\ req[h].i \in 1..NumFeeds
      BY <1>0, <1>4, SMT DEF BeginWrite, ReqInv
    <3>4. pending_symbol'[req[h].i] = Torn
      BY <1>0, <1>4, <3>3 DEF BeginWrite, SwitchTypeOK
    <3>5. symbol' = symbol /\ g_stop' = g_stop /\ restart' = restart
          /\ (req[h].at # "idle") /\ InHand(h)
      BY <1>4 DEF BeginWrite
    <3>6. \A k \in Handlers : req'[k].at # "idle" => req'[k].i \in Feeds /\ req'[k].want \in Catalog
      BY <1>0, <2>3, <3>1, <3>5 DEF ReqInv
    <3>7. OneAtATime => \A f \in Feeds : Reserved(h, f)' => Reserved(h, f)
      BY <2>3, <3>5 DEF Reserved
    <3>8. OneAtATime => \A k \in Handlers \ {h}, f \in Feeds : ~Reserved(k, f)'
      BY <3>2 DEF Reserved
    <3>. QED BY <2>3, <3>1, <3>2, <3>3, <3>4, <3>5, <3>6, <3>7, <3>8 DEF ReqInv
  <2>6. SupInv'
    BY <1>4, SMT DEF BeginWrite, SupInv, Switching
  <2>7. HandOver'
    BY <1>0, <1>4, SMT DEF BeginWrite, SwitchTypeOK, HandOver, ReqInv, Reserved, SupInv, Switching
  <2>8. FeedsFollow'
    <3>. SUFFICES ASSUME OneAtATime, ~g_stop, NEW f \in 1..NumFeeds
                  PROVE  Ahead(f)' \/ (restart[f] /\ pending_symbol'[f] = symbol)
                                   \/ (~restart[f] /\ cfg_symbol[f] = symbol)
      BY <1>4 DEF BeginWrite, FeedsFollow
    <3>1. CASE f >= req[h].i
      BY <2>3, <3>1
    <3>2. CASE ~(f >= req[h].i)
      <4>1. pending_symbol'[f] = pending_symbol[f]
        BY <1>0, <1>4, <3>2, SMT DEF BeginWrite, SwitchTypeOK
      <4>2. ~Ahead(f)
        BY <1>4, <3>2 DEF BeginWrite, ReqInv
      <4>. QED BY <4>1, <4>2 DEF FeedsFollow
    <3>. QED BY <3>1, <3>2
  <2>. QED BY <1>4, <2>4, <2>5, <2>6, <2>7, <2>8 DEF BeginWrite
<1>5. CASE EndWrite(h)
  <2>1. [req[h] EXCEPT !.at = "raise"] \in RequestState
    BY <1>0, RequestMoves
  <2>2. /\ req' \in [Handlers -> RequestState]
        /\ req'[h] = [req[h] EXCEPT !.at = "raise"]
        /\ \A k \in Handlers \ {h} : req'[k] = req[k]
    BY <1>0, <1>5, <2>1, RequestsType DEF EndWrite, Go
  <2>3. req'[h].at = "raise" /\ req'[h].i = req[h].i /\ req'[h].want = req[h].want
    BY <1>0, <2>2 DEF RequestState
  <2>4. PICK v \in Catalog \cup {Torn} :
          /\ pending_symbol' = [pending_symbol EXCEPT ![req[h].i] = v]
          /\ OneAtATime => v = req[h].want
    BY <1>0, <1>5 DEF EndWrite, ReqInv, Writing
  <2>5. SwitchTypeOK'
    BY <1>0, <1>5, <2>2, <2>4 DEF EndWrite, SwitchTypeOK
  <2>6. ReqInv'
    <3>1. /\ \A k \in Handlers : req'[k].i = req[k].i /\ req'[k].want = req[k].want
          /\ \A k \in Handlers \ {h} : req'[k].at = req[k].at
      BY <2>2, <2>3
    <3>2. OneAtATime => \A k \in Handlers \ {h} : req'[k].at = "idle"
      BY <1>5, <3>1 DEF EndWrite, ReqInv
    <3>3. OneAtATime => req[h].want = symbol /\ req[h].i \in 1..NumFeeds
      BY <1>0, <1>5, SMT DEF EndWrite, ReqInv
    <3>4. OneAtATime => pending_symbol'[req[h].i] = symbol
      BY <1>0, <1>5, <2>4, <3>3 DEF EndWrite, SwitchTypeOK
    <3>5. symbol' = symbol /\ g_stop' = g_stop /\ restart' = restart
          /\ (req[h].at # "idle") /\ InHand(h)
      BY <1>5 DEF EndWrite
    <3>6. \A k \in Handlers : req'[k].at # "idle" => req'[k].i \in Feeds /\ req'[k].want \in Catalog
      BY <1>0, <2>3, <3>1, <3>5 DEF ReqInv
    <3>7. OneAtATime => \A f \in Feeds : Reserved(h, f)' => Reserved(h, f)
      BY <2>3, <3>5 DEF Reserved
    <3>8. OneAtATime => \A k \in Handlers \ {h}, f \in Feeds : ~Reserved(k, f)'
      BY <3>2 DEF Reserved
    <3>. QED BY <2>3, <3>1, <3>2, <3>3, <3>4, <3>5, <3>6, <3>7, <3>8 DEF ReqInv
  <2>7. SupInv'
    BY <1>5, SMT DEF EndWrite, SupInv, Switching
  <2>8. HandOver'
    BY <1>0, <1>5, <2>4, SMT DEF EndWrite, SwitchTypeOK, HandOver, ReqInv, Reserved, SupInv, Switching
  <2>9. FeedsFollow'
    <3>. SUFFICES ASSUME OneAtATime, ~g_stop, NEW f \in 1..NumFeeds
                  PROVE  Ahead(f)' \/ (restart[f] /\ pending_symbol'[f] = symbol)
                                   \/ (~restart[f] /\ cfg_symbol[f] = symbol)
      BY <1>5 DEF EndWrite, FeedsFollow
    <3>1. CASE f >= req[h].i
      BY <2>3, <3>1
    <3>2. CASE ~(f >= req[h].i)
      <4>1. pending_symbol'[f] = pending_symbol[f]
        BY <1>0, <1>5, <3>2, SMT DEF EndWrite, SwitchTypeOK
      <4>2. ~Ahead(f)
        BY <1>5, <3>2 DEF EndWrite, ReqInv
      <4>. QED BY <4>1, <4>2 DEF FeedsFollow
    <3>. QED BY <3>1, <3>2
  <2>. QED BY <1>5, <2>5, <2>6, <2>7, <2>8, <2>9 DEF EndWrite
<1>6. CASE RaiseRestart(h)
  <2>1. PICK r \in RequestState :
          /\ req' = [req EXCEPT ![h] = r]
          /\ \/ req[h].i < NumFeeds /\ r.at = "write" /\ r.want = req[h].want /\ r.i = req[h].i + 1
             \/ ~(req[h].i < NumFeeds) /\ r = Idle
    <3>1. CASE req[h].i < NumFeeds
      <4>1. req[h].i + 1 \in 0..NumFeeds
        BY <1>0, <1>6, <3>1, SMT DEF RaiseRestart
      <4>2. [req[h] EXCEPT !.at = "write", !.i = @ + 1] \in RequestState
        BY <1>0, <4>1, RequestAdvances
      <4>3. req' = [req EXCEPT ![h] = [req[h] EXCEPT !.at = "write", !.i = @ + 1]]
        BY <1>0, <1>6, <3>1 DEF RaiseRestart
      <4>. QED BY <1>0, <3>1, <4>2, <4>3 DEF RequestState
    <3>2. CASE ~(req[h].i < NumFeeds)
      BY <1>6, <3>2, IdleType DEF RaiseRestart, Answer
    <3>. QED BY <3>1, <3>2
  <2>2. /\ req' \in [Handlers -> RequestState] /\ req'[h] = r
        /\ \A k \in Handlers \ {h} : req'[k] = req[k]
    BY <1>0, <2>1, RequestsType
  <2>3. SwitchTypeOK'
    BY <1>0, <1>6, <2>2 DEF RaiseRestart, SwitchTypeOK
  <2>4. ReqInv'
    BY <1>0, <1>6, <2>1, <2>2, SMTT(30) DEF RaiseRestart, SwitchTypeOK, ReqInv, Reserved, Idle
  <2>5. SupInv'
    BY <1>0, <1>6, SMT DEF RaiseRestart, SwitchTypeOK, SupInv, Switching
  <2>6. HandOver'
    BY <1>6, SMT DEF RaiseRestart, HandOver
  <2>7. FeedsFollow'
    BY <1>0, <1>6, <2>1, <2>2, SMT DEF RaiseRestart, SwitchTypeOK, FeedsFollow, ReqInv, Idle
  <2>. QED BY <1>6, <2>3, <2>4, <2>5, <2>6, <2>7 DEF RaiseRestart
<1>. QED BY <1>1, <1>2, <1>3, <1>4, <1>5, <1>6 DEF Handle

-----------------------------------------------------------------------------
(* The steps of a socket's callback.                                       *)
LEMMA SocketSwitchInv ==
  ASSUME SwitchInv, NEW f \in Feeds, OnMessage(f) \/ Return(f)
  PROVE  SwitchInv'
<1>. USE DEF SwitchInv
<1>1. /\ UNCHANGED <<httpVars, mainVars, pending_symbol, restart, cfg_symbol, session, ws, sup>>
      /\ \E b \in BOOLEAN : cb' = [cb EXCEPT ![f] = b] /\ (b => ws[f].up)
  BY DEF OnMessage, Return
<1>. USE <1>1 DEF httpVars, mainVars
<1>2. SwitchTypeOK'
  BY SMT DEF SwitchTypeOK
<1>3. SupInv'
  BY SMT DEF SwitchTypeOK, SupInv, Switching
<1>4. ReqInv'
  BY SMT DEF ReqInv, At, InHand, Reserved
<1>5. HandOver' /\ FeedsFollow'
  BY SMT DEF HandOver, FeedsFollow, Ahead, At, InHand
<1>. QED BY <1>2, <1>3, <1>4, <1>5

-----------------------------------------------------------------------------
(* The steps of a supervisor.                                              *)
LEMMA SupervisorSwitchInv ==
  ASSUME SwitchInv, NEW f \in Feeds, Supervise(f)
  PROVE  SwitchInv'
<1>. USE DEF SwitchInv, httpVars, mainVars, Sup
<1>1. CASE SupLoop(f)
  <2>1. SwitchTypeOK'
    BY <1>1, SMT DEF SupLoop, SwitchTypeOK, Places
  <2>2. SupInv'
    BY <1>1, SMT DEF SupLoop, SwitchTypeOK, SupInv, Switching
  <2>3. ReqInv'
    BY <1>1, SMT DEF SupLoop, ReqInv, At, InHand, Reserved
  <2>4. HandOver' /\ FeedsFollow'
    BY <1>1, SMT DEF SupLoop, HandOver, FeedsFollow, Ahead, At, InHand
  <2>. QED BY <1>1, <2>1, <2>2, <2>3, <2>4 DEF SupLoop
<1>2. CASE SupConnect(f)
  <2>1. SwitchTypeOK'
    BY <1>2, SMT DEF SupConnect, SwitchTypeOK, Places, Socket
  <2>2. SupInv'
    BY <1>2, SMT DEF SupConnect, Joined, SwitchTypeOK, SupInv, Switching
  <2>3. ReqInv'
    BY <1>2, SMT DEF SupConnect, ReqInv, At, InHand, Reserved
  <2>4. HandOver' /\ FeedsFollow'
    BY <1>2, SMT DEF SupConnect, HandOver, FeedsFollow, Ahead, At, InHand
  <2>. QED BY <1>2, <2>1, <2>2, <2>3, <2>4 DEF SupConnect
<1>3. CASE SupWake(f)
  <2>1. SwitchTypeOK'
    BY <1>3, SMT DEF SupWake, SwitchTypeOK, Places
  <2>2. SupInv'
    BY <1>3, SMT DEF SupWake, SwitchTypeOK, SupInv, Switching
  <2>3. ReqInv'
    BY <1>3, SMT DEF SupWake, ReqInv, At, InHand, Reserved
  <2>4. HandOver' /\ FeedsFollow'
    BY <1>3, SMT DEF SupWake, SwitchTypeOK, HandOver, FeedsFollow, Ahead, At, InHand
  <2>. QED BY <1>3, <2>1, <2>2, <2>3, <2>4 DEF SupWake
<1>4. CASE SupStop(f)
  <2>1. SwitchTypeOK'
    <3>1. ws[f] \in Socket /\ [ws[f] EXCEPT !.up = FALSE] \in Socket
      BY DEF SwitchTypeOK, Socket
    <3>2. ws' \in [Feeds -> Socket] /\ sup' \in [Feeds -> Places]
      BY <1>4, <3>1 DEF SupStop, SwitchTypeOK, Places
    <3>. QED BY <1>4, <3>2 DEF SupStop, SwitchTypeOK
  <2>2. SupInv'
    BY <1>4, SMT DEF SupStop, Joined, SwitchTypeOK, SupInv, Switching
  <2>3. ReqInv'
    BY <1>4, SMT DEF SupStop, ReqInv, At, InHand, Reserved
  <2>4. HandOver' /\ FeedsFollow'
    BY <1>4, SMT DEF SupStop, HandOver, FeedsFollow, Ahead, At, InHand
  <2>. QED BY <1>4, <2>1, <2>2, <2>3, <2>4 DEF SupStop
<1>5. CASE SupDecide(f)
  <2>1. SwitchTypeOK'
    BY <1>5, SMT DEF SupDecide, SwitchTypeOK, Places
  <2>2. SupInv'
    BY <1>5, SMT DEF SupDecide, SwitchTypeOK, SupInv, Switching
  <2>3. ReqInv'
    BY <1>5, SMT DEF SupDecide, ReqInv, At, InHand, Reserved
  <2>4. HandOver' /\ FeedsFollow'
    BY <1>5, SMT DEF SupDecide, SwitchTypeOK, HandOver, FeedsFollow, Ahead, At, InHand
  <2>. QED BY <1>5, <2>1, <2>2, <2>3, <2>4 DEF SupDecide
<1>6. CASE SupAssign(f)
  <2>1. SwitchTypeOK'
    BY <1>6, SMT DEF SupAssign, SwitchTypeOK, Places
  <2>2. SupInv'
    BY <1>6, SMT DEF SupAssign, SwitchTypeOK, SupInv, Switching
  <2>3. ReqInv'
    BY <1>6, SMT DEF SupAssign, ReqInv, At, InHand, Reserved
  <2>4. HandOver' /\ FeedsFollow'
    BY <1>6, SMT DEF SupAssign, SwitchTypeOK, SupInv, Switching, HandOver, FeedsFollow, Ahead, At, InHand
  <2>. QED BY <1>6, <2>1, <2>2, <2>3, <2>4 DEF SupAssign
<1>7. CASE SupAssigned(f)
  <2>1. SwitchTypeOK'
    BY <1>7, SMT DEF SupAssigned, SwitchTypeOK, Places
  <2>2. SupInv'
    BY <1>7, SMT DEF SupAssigned, SwitchTypeOK, SupInv, Switching
  <2>3. ReqInv'
    BY <1>7, SMT DEF SupAssigned, ReqInv, At, InHand, Reserved
  <2>4. HandOver' /\ FeedsFollow'
    BY <1>7, SMT DEF SupAssigned, SwitchTypeOK, SupInv, Switching, HandOver, FeedsFollow, Ahead, At, InHand
  <2>. QED BY <1>7, <2>1, <2>2, <2>3, <2>4 DEF SupAssigned
<1>8. CASE SupClear(f)
  <2>1. SwitchTypeOK'
    BY <1>8, SMT DEF SupClear, SwitchTypeOK, Places
  <2>2. SupInv'
    BY <1>8, SMT DEF SupClear, SwitchTypeOK, SupInv, Switching
  <2>3. ReqInv'
    BY <1>8, SMT DEF SupClear, SwitchTypeOK, ReqInv, At, InHand, Reserved
  <2>4. HandOver' /\ FeedsFollow'
    BY <1>8, SMT DEF SupClear, SwitchTypeOK, SupInv, Switching, HandOver, FeedsFollow, Ahead, At, InHand
  <2>. QED BY <1>8, <2>1, <2>2, <2>3, <2>4 DEF SupClear
<1>9. CASE SupBump(f)
  <2>1. SwitchTypeOK'
    BY <1>9, SMT DEF SupBump, SwitchTypeOK, Places
  <2>2. SupInv'
    BY <1>9, SMT DEF SupBump, SwitchTypeOK, SupInv, Switching
  <2>3. ReqInv'
    BY <1>9, SMT DEF SupBump, ReqInv, At, InHand, Reserved
  <2>4. HandOver' /\ FeedsFollow'
    BY <1>9, SMT DEF SupBump, SwitchTypeOK, HandOver, FeedsFollow, Ahead, At, InHand
  <2>. QED BY <1>9, <2>1, <2>2, <2>3, <2>4 DEF SupBump
<1>10. CASE SupClean(f)
  <2>1. SwitchTypeOK'
    BY <1>10, SMT DEF SupClean, SwitchTypeOK, Places
  <2>2. SupInv'
    BY <1>10, SMT DEF SupClean, SwitchTypeOK, SupInv, Switching
  <2>3. ReqInv'
    BY <1>10, SMT DEF SupClean, ReqInv, At, InHand, Reserved
  <2>4. HandOver' /\ FeedsFollow'
    BY <1>10, SMT DEF SupClean, SwitchTypeOK, HandOver, FeedsFollow, Ahead, At, InHand
  <2>. QED BY <1>10, <2>1, <2>2, <2>3, <2>4 DEF SupClean
<1>. QED BY <1>1, <1>2, <1>3, <1>4, <1>5, <1>6, <1>7, <1>8, <1>9, <1>10 DEF Supervise

-----------------------------------------------------------------------------
(* The steps of the main thread.                                           *)
LEMMA MainSwitchInv ==
  ASSUME SwitchInv, Stop \/ MainThread
  PROVE  SwitchInv'
<1>. USE SwitchAssumption DEF SwitchInv, httpVars, feedVars, Main
<1>1. CASE Stop
  <2>1. SwitchTypeOK'
    BY <1>1, SMT DEF Stop, SwitchTypeOK
  <2>2. SupInv'
    BY <1>1, SMT DEF Stop, SwitchTypeOK, SupInv, Switching
  <2>3. ReqInv'
    BY <1>1, SMT DEF Stop, ReqInv, At, InHand, Reserved
  <2>4. HandOver' /\ FeedsFollow' /\ g_stop'
    BY <1>1, SMT DEF Stop, SwitchTypeOK, HandOver, FeedsFollow
  <2>. QED BY <2>1, <2>2, <2>3, <2>4
<1>2. CASE MainLeaves
  <2>1. SwitchTypeOK'
    BY <1>2, SMT DEF MainLeaves, SwitchTypeOK, MainState
  <2>2. SupInv'
    BY <1>2, SMT DEF MainLeaves, SwitchTypeOK, SupInv, Switching, MainState
  <2>3. ReqInv'
    BY <1>2, SMT DEF MainLeaves, ReqInv, At, InHand, Reserved
  <2>4. HandOver' /\ FeedsFollow' /\ g_stop'
    BY <1>2, SMT DEF MainLeaves, SwitchTypeOK, HandOver, FeedsFollow
  <2>. QED BY <2>1, <2>2, <2>3, <2>4
<1>3. CASE MainClear
  <2>1. SwitchTypeOK'
    BY <1>3, SMT DEF MainClear, SwitchTypeOK, MainState
  <2>2. SupInv'
    BY <1>3, SMT DEF MainClear, SwitchTypeOK, SupInv, Switching, MainState
  <2>3. ReqInv'
    BY <1>3, SMT DEF MainClear, ReqInv, At, InHand, Reserved
  <2>4. HandOver' /\ FeedsFollow' /\ g_stop'
    BY <1>3, SMT DEF MainClear, SwitchTypeOK, HandOver, FeedsFollow
  <2>. QED BY <2>1, <2>2, <2>3, <2>4
<1>4. CASE MainBump
  <2>1. SwitchTypeOK'
    BY <1>4, SMT DEF MainBump, SwitchTypeOK, MainState
  <2>2. SupInv'
    BY <1>4, SMT DEF MainBump, SwitchTypeOK, SupInv, Switching, MainState
  <2>3. ReqInv'
    BY <1>4, SMT DEF MainBump, ReqInv, At, InHand, Reserved
  <2>4. HandOver' /\ FeedsFollow' /\ g_stop'
    BY <1>4, SMT DEF MainBump, SwitchTypeOK, HandOver, FeedsFollow
  <2>. QED BY <2>1, <2>2, <2>3, <2>4
<1>5. CASE MainStop
  <2>1. SwitchTypeOK'
    <3>1. main.i \in Feeds /\ ws[main.i] \in Socket
      BY DEF SwitchTypeOK, MainState
    <3>2. [ws[main.i] EXCEPT !.up = FALSE] \in Socket
      BY <3>1 DEF Socket
    <3>3. ws' \in [Feeds -> Socket]
      BY <1>5, <3>1, <3>2 DEF MainStop, SwitchTypeOK
    <3>4. main' \in MainState
      BY <1>5, <3>1, SMT DEF MainStop, MainState, Feeds
    <3>. QED BY <1>5, <3>3, <3>4 DEF MainStop, SwitchTypeOK
  <2>2. SupInv'
    BY <1>5, SMT DEF MainStop, Joined, SwitchTypeOK, SupInv, Switching, MainState, Socket, Feeds
  <2>3. ReqInv'
    BY <1>5, SMT DEF MainStop, ReqInv, At, InHand, Reserved
  <2>4. HandOver' /\ FeedsFollow' /\ g_stop'
    BY <1>5, SMT DEF MainStop, SwitchTypeOK, HandOver, FeedsFollow
  <2>. QED BY <2>1, <2>2, <2>3, <2>4
<1>6. CASE MainJoin
  <2>1. SwitchTypeOK'
    BY <1>6, SMT DEF MainJoin, SwitchTypeOK, MainState
  <2>2. SupInv'
    BY <1>6, SMT DEF MainJoin, SwitchTypeOK, SupInv, Switching, MainState
  <2>3. ReqInv'
    BY <1>6, SMT DEF MainJoin, ReqInv, At, InHand, Reserved
  <2>4. HandOver' /\ FeedsFollow' /\ g_stop'
    BY <1>6, SMT DEF MainJoin, SwitchTypeOK, HandOver, FeedsFollow
  <2>. QED BY <2>1, <2>2, <2>3, <2>4
<1>7. CASE MainEnd
  <2>1. SwitchTypeOK'
    BY <1>7, SMT DEF MainEnd, SwitchTypeOK, MainState
  <2>2. SupInv'
    BY <1>7, SMT DEF MainEnd, SwitchTypeOK, SupInv, Switching, MainState
  <2>3. ReqInv'
    BY <1>7, SMT DEF MainEnd, ReqInv, At, InHand, Reserved
  <2>4. HandOver' /\ FeedsFollow' /\ g_stop'
    BY <1>7, SMT DEF MainEnd, SwitchTypeOK, HandOver, FeedsFollow
  <2>. QED BY <2>1, <2>2, <2>3, <2>4
<1>. QED BY <1>1, <1>2, <1>3, <1>4, <1>5, <1>6, <1>7 DEF MainThread

-----------------------------------------------------------------------------
LEMMA StepSwitchInv == SwitchInv /\ [SwitchNext]_switchVars => SwitchInv'
<1>. SUFFICES ASSUME SwitchInv, [SwitchNext]_switchVars PROVE SwitchInv'
  OBVIOUS
<1>1. CASE UNCHANGED switchVars
  BY <1>1, SMT DEF switchVars, httpVars, feedVars, mainVars, SwitchInv, SwitchTypeOK, SupInv,
                   ReqInv, HandOver, FeedsFollow, Ahead, At, InHand, Reserved, Switching
<1>. QED BY <1>1, HandlerSwitchInv, SocketSwitchInv, SupervisorSwitchInv, MainSwitchInv
         DEF SwitchNext

(* The inductive invariant holds in every reachable state.                 *)
THEOREM SwitchInvariance == SwitchSpec => []SwitchInv
BY InitSwitchInv, StepSwitchInv, PTL DEF SwitchSpec

(* A request that waits for the one before reaches every feed: a feed has  *)
(* the active symbol, or has it pending with `restart' raised, so that no  *)
(* switch is lost between the handler and supervise_feed().                *)
THEOREM NoFeedLeftBehind == SwitchSpec => []FeedsFollow
<1>1. SwitchInv => FeedsFollow
  BY DEF SwitchInv
<1>. QED BY <1>1, SwitchInvariance, PTL

(* A socket that is up streams its feed's symbol for its feed's session,   *)
(* however many requests overlap, and none outlives the main thread.       *)
THEOREM SocketsBelongToSessions == SwitchSpec => []SocketsMatchFeeds
<1>1. SwitchInv => SocketsMatchFeeds
  BY DEF SwitchInv, SupInv, SocketsMatchFeeds
<1>. QED BY <1>1, SwitchInvariance, PTL

-----------------------------------------------------------------------------
Symbols == Catalog \cup {Torn}

LEMMA TheFeed == ASSUME OneFeed
                 PROVE  Feeds = {1} /\ feed = 1 /\ feed \in Feeds /\ OneAtATime
BY SMT DEF OneFeed, Feeds, feed

LEMMA Bounds == /\ Capacity \in Nat \ {0} /\ TapeRows \in Nat \ {0} /\ MaxOps \in Nat \ {0}
                /\ MaxMsgs \in Nat
BY LiveAssumption

-----------------------------------------------------------------------------
(* The control plane inside a feed.  The whole /symbol handler as one step *)
(* keeps its invariant, and no handler is ever seen in the middle.         *)
LEMMA HttpSwitchInv ==
  ASSUME OneFeed, SwitchInv, \A h \in Handlers : At(h, "idle"), Http
  PROVE  SwitchInv'
<1>. USE SwitchAssumption, TheFeed DEF SwitchInv, mainVars, At, InHand, Ahead
<1>1. SwitchTypeOK'
  <2>1. symbol' \in Catalog /\ requests' \in 0..MaxRequests
    BY SMT DEF Http, SwitchTypeOK
  <2>. QED BY <2>1 DEF Http, SwitchTypeOK
<1>2. SupInv'
  BY SMT DEF Http, SwitchTypeOK, SupInv, Switching
<1>3. ReqInv'
  BY SMT DEF Http, ReqInv, Reserved
<1>4. HandOver'
  BY SMT DEF Http, HandOver, SupInv, Switching
<1>5. FeedsFollow'
  BY SMT DEF Http, FeedsFollow, SwitchTypeOK
<1>. QED BY <1>1, <1>2, <1>3, <1>4, <1>5 DEF Http

LEMMA LiveSwitchInv ==
  ASSUME OneFeed, SwitchInv, \A h \in Handlers : At(h, "idle"), [Next]_vars
  PROVE  SwitchInv' /\ \A h \in Handlers : At(h, "idle")'
<1>1. CASE Http
  BY <1>1, HttpSwitchInv DEF Http, At
<1>2. CASE UNCHANGED switchVars
  BY <1>2, StepSwitchInv DEF switchVars, httpVars, At
<1>3. CASE OnMessage(feed) \/ Return(feed) \/ Supervise(feed) \/ Stop \/ MainThread
  <2>1. UNCHANGED httpVars
    BY <1>3 DEF OnMessage, Return, Supervise, SupLoop, SupConnect, SupWake, SupStop, SupDecide,
                SupAssign, SupAssigned, SupClear, SupBump, SupClean, Stop, MainThread,
                MainLeaves, MainClear, MainBump, MainStop, MainJoin, MainEnd
  <2>2. SwitchNext
    BY <1>3, TheFeed DEF SwitchNext
  <2>. QED BY <2>1, <2>2, StepSwitchInv DEF httpVars, At
<1>4. Consumer => UNCHANGED switchVars
  BY DEF Consumer, ConsTop, ConsSeeking, ConsGrace, ConsFetch, ConsFetched, ConsLoad, ConsLoop,
         ConsReceive, ConsTest, ConsCache, ConsPop, ConsResync, ConsAgain, ConsPublish
<1>5. Message \/ Callback => UNCHANGED switchVars \/ OnMessage(feed) \/ Return(feed)
  BY DEF Message, Callback, PushTrade, SendOp, SendDropped, NextOp
<1>6. Supervisor => UNCHANGED switchVars \/ Supervise(feed)
  BY DEF Supervisor, SupSteps, ClearTape, DrainLoad, DrainTest, DrainCache, DrainPop, Pause,
         Supervise
<1>7. MainSteps => MainThread
  BY DEF MainSteps, MainThread
<1>8. UNCHANGED vars => UNCHANGED switchVars
  BY DEF vars
<1>. QED BY <1>1, <1>2, <1>3, <1>4, <1>5, <1>6, <1>7, <1>8 DEF Next

-----------------------------------------------------------------------------
(* What follows is about the feed's own state; the facts it needs of the   *)
(* control plane are these.                                                *)
LEMMA FeedFacts ==
  ASSUME OneFeed, SwitchInv
  PROVE  /\ cfg_symbol[feed] \in Symbols /\ session[feed] \in Nat
         /\ ws[feed] \in Socket /\ sup[feed] \in Places /\ restart[feed] \in BOOLEAN
         /\ ws[feed].up => sup[feed] \in {"watch", "stop"} /\ ws[feed].symbol = cfg_symbol[feed]
         /\ cb[feed] \in BOOLEAN /\ (cb[feed] => ws[feed].up)
         /\ ws[feed].symbol \in Symbols
         /\ main.at \in {"join_consumers", "done"} => sup[feed] = "done"
BY TheFeed DEF SwitchInv, SwitchTypeOK, SupInv, Symbols, Socket

(* The types of what the pops of a feed work with.                         *)
LEMMA RingFacts ==
  ASSUME TypeOK
  PROVE  /\ ring \in Seq(Symbols) /\ tail \in Nat /\ head \in Nat /\ cached_tail \in Nat
         /\ s_head \in Nat /\ s_tail \in Nat /\ c_head \in Nat /\ c_tail \in Nat
         /\ \A k \in 1..tail : ring[k] \in Symbols
         /\ sid \in Nat /\ asked \in Symbols /\ book \subseteq Symbols
BY LenProperties, ElementOfSeq DEF TypeOK, Symbols, tail

LEMMA InitLiveInv == Init => LiveInv
<1>. SUFFICES ASSUME Init PROVE LiveInv
  OBVIOUS
<1>f. OneFeed /\ Feeds = {1} /\ feed = 1 /\ feed \in Feeds /\ OneAtATime
  BY TheFeed DEF Init
<1>. USE SwitchAssumption, <1>f, Bounds
<1>1. SwitchInv /\ \A h \in Handlers : At(h, "idle")
  BY InitSwitchInv DEF Init, SwitchInit, At, Idle
<1>2. Len(<<>>) = 0 /\ <<>> \in Seq(Symbols)
  BY EmptySeq
<1>3. TypeOK
  <2>1. SwitchTypeOK
    BY <1>1 DEF SwitchInv
  <2>2. op \in [at : {"idle", "trade", "depth"}, n : 0..MaxOps]
    BY SMT DEF Init, Resting
  <2>3. ring \in Seq(Symbols) /\ trades \in Seq(Symbols) /\ Len(trades) <= TapeRows /\ msgs \in 0..MaxMsgs
    BY <1>2, SMT DEF Init
  <2>. QED BY <2>1, <2>2, <2>3 DEF Init, TypeOK, Symbols
<1>4. sup[feed] = "loop" /\ session[feed] = 0 /\ main.at = "run" /\ ~cb[feed]
  BY DEF Init, SwitchInit
<1>5. CallbackInv
  BY <1>4 DEF CallbackInv, Init, Resting
<1>6. TurnInv /\ SessionInv /\ PublishedOfOneSymbol
  BY <1>4, SMT DEF TurnInv, SessionInv, PublishedOfOneSymbol, Begun, Init, PastGrace, InBook, InPop,
                   CleaningUp
<1>7. PopsInv /\ DataInv
  BY <1>2, <1>4, SMT DEF PopsInv, IndexInv, RingInv, BookInv, DataInv, AllOf, tail, Init, InBook,
                         InPop
<1>. QED BY <1>1, <1>3, <1>5, <1>6, <1>7 DEF LiveInv, Init

-----------------------------------------------------------------------------
(* The steps that leave the feed's data alone: the handler, the shutdown   *)
(* and those of the supervisor outside the clean-up.                       *)
LEMMA SwitchStepLiveInv ==
  ASSUME LiveInv, SwitchInv', \A h \in Handlers : At(h, "idle")', UNCHANGED liveVars,
         \/ Http \/ Stop \/ SupSteps \/ MainSteps
  PROVE  LiveInv'
<1>f. OneFeed /\ Feeds = {1} /\ feed = 1 /\ feed \in Feeds /\ OneAtATime
  BY TheFeed DEF LiveInv
<1>. USE <1>f DEF liveVars, ringVars, streamVars, cleanVars, popVars, consVars
<1>0. /\ SwitchInv /\ TypeOK /\ CallbackInv /\ TurnInv /\ PopsInv /\ DataInv /\ SessionInv
      /\ PublishedOfOneSymbol /\ SwitchTypeOK
  BY DEF LiveInv, SwitchInv
<1>1. TypeOK'
  BY <1>0 DEF TypeOK, SwitchInv
(* What such a step does to the feed: nothing but to its socket, or it is  *)
(* in the middle of a change, or it ends the session.                      *)
<1>. DEFINE Same == session'[feed] = session[feed] /\ cfg_symbol'[feed] = cfg_symbol[feed]
            Quiet == /\ Same /\ sup'[feed] # "clean" /\ sup[feed] # "clean"
                     /\ ~Changing /\ ~Changing'
            Still == Same /\ sup'[feed] = sup[feed]
            Moves == session'[feed] = session[feed] /\ Changing' /\ sup[feed] # "clean"
            Bumps == session'[feed] = session[feed] + 1 /\ sup'[feed] = "clean" /\ sup[feed] = "bump"
            Ends == /\ session'[feed] = session[feed] + 1 /\ sup'[feed] = sup[feed]
                    /\ cfg_symbol'[feed] = cfg_symbol[feed]
<1>2. /\ Quiet \/ Still \/ Moves \/ Bumps \/ Ends
      /\ cb' = cb
      /\ main'.at = "done" => cons = "done"
  <2>. USE <1>0 DEF SessionInv, SwitchTypeOK, Sup, Main, httpVars, feedVars, mainVars, Changing,
                    MainState
  <2>1. CASE Http
    BY <2>1, SMT DEF Http
  <2>2. CASE Stop
    BY <2>2, SMT DEF Stop
  <2>3. CASE SupConnect(feed)
    BY <2>3, SMT DEF SupConnect
  <2>4. CASE SupStop(feed)
    BY <2>4, SMT DEF SupStop
  <2>5. CASE SupLoop(feed)
    BY <2>5, SMT DEF SupLoop
  <2>6. CASE SupWake(feed)
    BY <2>6, SMT DEF SupWake
  <2>7. CASE SupDecide(feed)
    BY <2>7, SMT DEF SupDecide
  <2>8. CASE SupAssign(feed)
    BY <2>8, SMT DEF SupAssign
  <2>9. CASE SupAssigned(feed)
    BY <2>9, SMT DEF SupAssigned
  <2>10. CASE SupClear(feed)
    BY <2>10, SMT DEF SupClear
  <2>11. CASE SupBump(feed)
    BY <2>11, SMT DEF SupBump
  <2>12. CASE MainLeaves
    BY <2>12, SMT DEF MainLeaves
  <2>13. CASE MainClear
    BY <2>13, SMT DEF MainClear
  <2>14. CASE MainBump
    BY <2>14, SMT DEF MainBump
  <2>15. CASE MainJoin
    BY <2>15, SMT DEF MainJoin
  <2>16. CASE MainStop
    BY <2>16, SMT DEF MainStop
  <2>17. CASE MainEnd /\ cons = "done"
    BY <2>17, SMT DEF MainEnd
  <2>. QED BY <2>1, <2>2, <2>3, <2>4, <2>5, <2>6, <2>7, <2>8, <2>9, <2>10, <2>11, <2>12, <2>13, <2>14, <2>15, <2>16, <2>17
       DEF SupSteps, MainSteps
<1>3. CallbackInv'
  BY <1>0, <1>2 DEF CallbackInv
<1>4. session[feed] \in Nat /\ sid \in Nat
  BY <1>0, FeedFacts DEF TypeOK
<1>5. TurnInv'
  BY <1>0, <1>2, <1>4, SMT DEF TurnInv, SessionInv, Mine, CleaningUp, Changing
<1>6. SessionInv'
  BY <1>0, <1>2, <1>4, SMT DEF SessionInv
<1>7. Bumps \/ Ends => ~Mine'
  BY <1>0, <1>4, SMT DEF SessionInv, Mine
<1>8. Bumps => clean = "tape"
  BY <1>0 DEF TurnInv
<1>9. PublishedOfOneSymbol'
  BY <1>0, <1>2, <1>7 DEF PublishedOfOneSymbol, Begun, Shown, Mine, Changing
<1>10. DataInv'
  BY <1>0, <1>2, <1>7, <1>8 DEF DataInv, Mine, Changing
<1>11. PopsInv'
  <2>. SUFFICES ASSUME ~overrun PROVE IndexInv' /\ RingInv' /\ BookInv'
    BY DEF PopsInv
  <2>0. IndexInv /\ RingInv /\ BookInv
    BY <1>0 DEF PopsInv
  <2>1. IndexInv'
    BY <2>0 DEF IndexInv, tail
  <2>2. BookInv'
    BY <1>2, <1>7, <2>0 DEF BookInv, Mine, Changing
  <2>3. RingInv'
    <3>1. /\ tail' = tail /\ head' = head
          /\ \A s : AllOf(s) => AllOf(s)'
      BY DEF tail, AllOf
    <3>2. CASE Quiet \/ Still
      BY <2>0, <3>1, <3>2 DEF RingInv, AllOf, ReadsOn, Mine, Changing, CleaningUp, tail
    <3>3. CASE Moves
      BY <1>0, <3>3 DEF RingInv, TurnInv
    <3>4. CASE Bumps
      BY <1>8, <3>4 DEF RingInv, CleaningUp
    <3>5. CASE Ends
      <4>1. ReadsOn => ReadsOn'
        BY <1>7, <3>5 DEF ReadsOn
      <4>. QED BY <2>0, <3>1, <3>5, <4>1 DEF RingInv, Changing, CleaningUp
    <3>. QED BY <1>2, <3>2, <3>3, <3>4, <3>5
  <2>. QED BY <2>1, <2>2, <2>3
<1>. QED BY <1>1, <1>3, <1>5, <1>6, <1>9, <1>10, <1>11 DEF LiveInv

-----------------------------------------------------------------------------
(* The callback.                                                           *)
LEMMA CallbackLiveInv ==
  ASSUME LiveInv, SwitchInv', \A h \in Handlers : At(h, "idle")', Message \/ Callback
  PROVE  LiveInv'
<1>f. OneFeed /\ Feeds = {1} /\ feed = 1 /\ feed \in Feeds /\ OneAtATime
  BY TheFeed DEF LiveInv
<1>. USE <1>f, Bounds DEF ringVars, streamVars, cleanVars, popVars, consVars
<1>0. /\ SwitchInv /\ TypeOK /\ CallbackInv /\ TurnInv /\ PopsInv /\ DataInv /\ SessionInv
      /\ PublishedOfOneSymbol /\ SwitchTypeOK'
  BY DEF LiveInv, SwitchInv
<1>. USE <1>0
<1>1. /\ UNCHANGED <<cleanVars, consVars>>
      /\ UNCHANGED <<session, cfg_symbol, ws, sup, main, g_stop>>
  BY DEF Message, Callback, PushTrade, SendOp, SendDropped, NextOp, OnMessage, Return, switchVars,
         feedVars, mainVars
<1>2. op \in [at : {"idle", "trade", "depth"}, n : 0..MaxOps] /\ msgs \in 0..MaxMsgs
  BY DEF TypeOK
<1>3. /\ ring \in Seq(Symbols) /\ head \in Nat /\ trades \in Seq(Symbols)
      /\ Len(trades) <= TapeRows /\ Len(ring) \in Nat /\ Len(trades) \in Nat
  BY LenProperties DEF TypeOK, Symbols
<1>b. cb \in [Feeds -> BOOLEAN] /\ (cb[feed] <=> op # Resting)
  BY DEF SwitchInv, SwitchTypeOK, CallbackInv
<1>4. /\ op' \in [at : {"idle", "trade", "depth"}, n : 0..MaxOps] /\ msgs' \in 0..MaxMsgs
      /\ CallbackInv'
  <2>1. CASE Message
    <3>1. /\ op = Resting /\ msgs' \in 0..MaxMsgs
          /\ \/ op' = op /\ cb' = cb
             \/ /\ op' = [at |-> "trade", n |-> 0] \/ op' \in [at : {"depth"}, n : 1..MaxOps]
                /\ cb'[feed] = TRUE
      BY <1>2, <1>b, <2>1, SMT DEF Message, OnMessage, switchVars, feedVars
    <3>. QED BY <1>2, <1>b, <3>1, SMT DEF CallbackInv, Resting
  <2>2. CASE PushTrade
    <3>1. op' = Resting /\ cb'[feed] = FALSE /\ msgs' = msgs
      BY <1>b, <2>2 DEF PushTrade, Return
    <3>. QED BY <1>2, <3>1, SMT DEF CallbackInv, Resting
  <2>3. CASE SendOp \/ SendDropped
    <3>1. op.at = "depth" /\ NextOp /\ msgs' = msgs
      BY <2>3 DEF SendOp, SendDropped
    <3>2. CASE op.n = 1 /\ op' = Resting /\ Return(feed)
      <4>1. cb'[feed] = FALSE
        BY <1>b, <3>2 DEF Return
      <4>. QED BY <1>2, <3>1, <3>2, <4>1, SMT DEF CallbackInv, Resting
    <3>3. CASE op.n > 1 /\ op' = [op EXCEPT !.n = @ - 1] /\ UNCHANGED switchVars
      <4>1. op.n - 1 \in 0..MaxOps /\ op.n - 1 >= 1 /\ op # Resting /\ cb' = cb
        BY <1>2, <3>1, <3>3, SMT DEF Resting, switchVars, feedVars
      <4>2. /\ op' \in [at : {"idle", "trade", "depth"}, n : 0..MaxOps] /\ op'.n = op.n - 1
            /\ op'.at = "depth"
        BY <1>2, <3>1, <3>3, <4>1
      <4>3. op' # Resting
        BY <4>2 DEF Resting
      <4>. QED BY <1>2, <1>b, <3>1, <4>1, <4>2, <4>3 DEF CallbackInv
    <3>. QED BY <3>1, <3>2, <3>3 DEF NextOp
  <2>. QED BY <2>1, <2>2, <2>3 DEF Callback
<1>5. op.at # "idle" => /\ ws[feed].up /\ sup[feed] \in {"watch", "stop"} /\ clean = "tape"
                        /\ ws[feed].symbol = cfg_symbol[feed] /\ cfg_symbol[feed] \in Symbols
  <2>1. op.at # "idle" => cb[feed]
    BY <1>b DEF Resting
  <2>. QED BY <2>1, FeedFacts DEF TurnInv
(* A message is of the symbol of the socket, which is the feed's.          *)
<1>6. /\ ring' \in Seq(Symbols) /\ head' = head /\ overrun' = overrun /\ cached_tail' = cached_tail
      /\ cached_head' \in Nat
      /\ Len(ring') \in Nat /\ Len(ring') >= Len(ring)
      /\ \A k \in 1..Len(ring) : ring'[k] = ring[k]
      /\ \A k \in 1..Len(ring') : k > Len(ring) => ring'[k] = cfg_symbol[feed]
      /\ ring' # ring => clean = "tape"
  <2>1. CASE SendOp
    <3>1. ws[feed].symbol = cfg_symbol[feed] /\ cfg_symbol[feed] \in Symbols /\ clean = "tape"
      BY <1>5, <2>1 DEF SendOp
    <3>2. /\ ring' = Append(ring, cfg_symbol[feed]) /\ head' = head /\ overrun' = overrun
          /\ cached_tail' = cached_tail /\ cached_head' \in {cached_head, head}
      BY <2>1, <3>1 DEF SendOp, Push
    <3>3. cached_head' \in Nat
      BY <3>2 DEF TypeOK
    <3>4. /\ ring' \in Seq(Symbols) /\ Len(ring') = Len(ring) + 1
          /\ \A k \in 1..Len(ring) : ring'[k] = ring[k]
          /\ ring'[Len(ring) + 1] = cfg_symbol[feed]
      BY <1>3, <3>1, <3>2, SMT
    <3>. QED BY <1>3, <3>1, <3>2, <3>3, <3>4, SMT
  <2>2. CASE ~SendOp
    <3>1. UNCHANGED ringVars
      BY <2>2 DEF Message, Callback, PushTrade, SendDropped
    <3>2. cached_head' \in Nat
      BY <3>1 DEF TypeOK
    <3>. QED BY <1>3, <3>1, <3>2, SMT
  <2>. QED BY <2>1, <2>2
<1>7. /\ trades' \in Seq(Symbols) /\ Len(trades') <= TapeRows
      /\ \A s : s = cfg_symbol[feed] /\ (\A k \in 1..Len(trades) : trades[k] = s)
                  => \A k \in 1..Len(trades') : trades'[k] = s
      /\ trades' # trades => sup[feed] # "clean"
  <2>1. CASE PushTrade
    <3>. DEFINE t == Append(trades, cfg_symbol[feed])
    <3>1. /\ ws[feed].symbol = cfg_symbol[feed] /\ cfg_symbol[feed] \in Symbols
          /\ sup[feed] # "clean"
      BY <1>5, <2>1 DEF PushTrade
    <3>2. trades' = IF Len(t) > TapeRows THEN Tail(t) ELSE t
      BY <2>1, <3>1 DEF PushTrade
    <3>3. /\ t \in Seq(Symbols) /\ Len(t) = Len(trades) + 1
          /\ \A k \in 1..Len(trades) : t[k] = trades[k]
          /\ t[Len(t)] = cfg_symbol[feed]
      BY <1>3, <3>1, SMT
    <3>. HIDE DEF t
    <3>4. /\ Tail(t) \in Seq(Symbols) /\ Len(Tail(t)) = Len(t) - 1
          /\ \A k \in 1..Len(Tail(t)) : Tail(t)[k] = t[k + 1]
      BY <1>3, <3>3, SMT
    <3>5. trades' \in Seq(Symbols) /\ Len(trades') <= TapeRows
      BY <1>3, <3>2, <3>3, <3>4, SMT
    <3>6. ASSUME NEW s, s = cfg_symbol[feed], \A k \in 1..Len(trades) : trades[k] = s
          PROVE  \A k \in 1..Len(trades') : trades'[k] = s
      <4>1. \A k \in 1..Len(t) : t[k] = s
        BY <1>3, <3>3, <3>6, SMTT(30)
      <4>. QED BY <1>3, <3>2, <3>3, <3>4, <4>1, SMT
    <3>. QED BY <3>1, <3>5, <3>6
  <2>2. CASE ~PushTrade
    <3>1. UNCHANGED trades
      BY <2>2 DEF Message, Callback, SendOp, SendDropped
    <3>. QED BY <1>3, <3>1
  <2>. QED BY <2>1, <2>2
<1>8. TypeOK'
  BY <1>1, <1>4, <1>6, <1>7 DEF TypeOK, Symbols
<1>9. TurnInv' /\ SessionInv' /\ PublishedOfOneSymbol'
  BY <1>1, <1>6 DEF TurnInv, SessionInv, PublishedOfOneSymbol, Begun, Shown, Mine, CleaningUp, Changing
<1>10. DataInv'
  BY <1>1, <1>7 DEF DataInv, Changing, Mine
<1>11. PopsInv'
  <2>. SUFFICES ASSUME ~overrun PROVE IndexInv' /\ RingInv' /\ BookInv'
    BY <1>6 DEF PopsInv
  <2>0. IndexInv /\ RingInv /\ BookInv
    BY DEF PopsInv
  <2>1. IndexInv'
    BY <1>1, <1>3, <1>6, <2>0, RingFacts, SMT DEF IndexInv, InPop, tail
  <2>2. ASSUME AllOf(cfg_symbol[feed]) PROVE AllOf(cfg_symbol[feed])'
    <3>. SUFFICES ASSUME NEW k \in (head + 1)..Len(ring') PROVE ring'[k] = cfg_symbol[feed]
      BY <1>1, <1>6 DEF AllOf, tail
    <3>1. CASE k > Len(ring)
      BY <1>3, <1>6, <3>1, SMT
    <3>2. CASE ~(k > Len(ring))
      <4>1. k \in (head + 1)..Len(ring) /\ k \in 1..Len(ring)
        BY <1>3, <1>6, <3>2, SMT
      <4>. QED BY <1>6, <2>2, <4>1 DEF AllOf, tail
    <3>. QED BY <3>1, <3>2
  <2>3. ReadsOn => ReadsOn'
    BY <1>1, <1>6 DEF ReadsOn, Mine
  <2>4. RingInv'
    BY <1>1, <1>6, <2>0, <2>2, <2>3 DEF RingInv, Changing, CleaningUp, tail
  <2>5. BookInv'
    BY <1>1, <2>0 DEF BookInv, Mine, Changing
  <2>. QED BY <2>1, <2>4, <2>5
<1>. QED BY <1>4, <1>8, <1>9, <1>10, <1>11 DEF LiveInv

-----------------------------------------------------------------------------
(* The clean-up.                                                           *)
LEMMA CleanLiveInv ==
  ASSUME LiveInv, SwitchInv', \A h \in Handlers : At(h, "idle")',
         ClearTape \/ DrainLoad \/ DrainTest \/ DrainCache \/ DrainPop \/ Pause
  PROVE  LiveInv'
<1>f. OneFeed /\ Feeds = {1} /\ feed = 1 /\ feed \in Feeds /\ OneAtATime
  BY TheFeed DEF LiveInv
<1>. USE <1>f DEF ringVars, streamVars, cleanVars, popVars, consVars, Clean
<1>0. /\ SwitchInv /\ TypeOK /\ CallbackInv /\ TurnInv /\ PopsInv /\ DataInv /\ SessionInv
      /\ PublishedOfOneSymbol /\ SwitchTypeOK'
  BY DEF LiveInv, SwitchInv
<1>. USE <1>0
<1>1. UNCHANGED <<op, msgs, consVars, ring, cached_head>>
  BY DEF ClearTape, DrainLoad, DrainTest, DrainCache, DrainPop, Pause, Take
<1>2. /\ session' = session /\ cfg_symbol' = cfg_symbol /\ ws' = ws /\ cb' = cb /\ main' = main
      /\ sup[feed] = "clean"
      /\ \/ sup' = sup /\ clean' # "tape"
         \/ sup'[feed] = "loop" /\ clean' = "tape" /\ clean = "pause"
  <2>1. CASE Pause
    BY <2>1 DEF mainVars, Pause, SupClean, Sup, SwitchInv, SwitchTypeOK
  <2>2. CASE ClearTape \/ DrainLoad \/ DrainTest \/ DrainCache \/ DrainPop
    BY <2>2 DEF switchVars, feedVars, mainVars, ClearTape, DrainLoad, DrainTest, DrainCache, DrainPop
  <2>. QED BY <2>1, <2>2
<1>3. CallbackInv' /\ ~Changing /\ ~Changing' /\ (Mine <=> Mine') /\ tail' = tail
  BY <1>1, <1>2 DEF CallbackInv, Changing, Mine, tail
<1>4. SessionInv'
  BY <1>1, <1>2 DEF SessionInv
<1>5. overrun => overrun'
  BY DEF ClearTape, DrainLoad, DrainTest, DrainCache, DrainPop, Pause, Take
<1>6. PublishedOfOneSymbol' /\ BookInv' = BookInv
  BY <1>1, <1>2, <1>3, <1>5 DEF PublishedOfOneSymbol, Begun, Shown, BookInv, Mine, Changing
(* No consumer of the current session is past its grace period.            *)
<1>7. clean # "pause" => ~(Mine /\ cons \in PastGrace)
  BY <1>2 DEF TurnInv, CleaningUp
<1>8. TurnInv'
  <2>1. CASE clean = "pause"
    <3>1. clean' = "tape" /\ sup'[feed] = "loop" /\ head' = head
      BY <2>1, <1>2 DEF ClearTape, DrainLoad, DrainTest, DrainCache, DrainPop, Pause
    <3>. QED BY <1>1, <1>3, <3>1 DEF TurnInv, CleaningUp
  <2>2. CASE clean # "pause"
    BY <1>1, <1>2, <1>3, <1>7, <2>2 DEF TurnInv, PastGrace, InBook
  <2>. QED BY <2>1, <2>2
<1>9. TypeOK'
  <2>1. /\ head' \in Nat /\ cached_tail' \in Nat /\ s_head' \in Nat /\ s_tail' \in Nat
        /\ overrun' \in BOOLEAN
    <3>1. CASE DrainPop
      <4>1. /\ head' = s_head + 1 /\ cached_tail' = cached_tail /\ s_head' = 0 /\ s_tail' = s_tail
            /\ overrun' \in BOOLEAN
        BY <3>1 DEF DrainPop, Take
      <4>. QED BY <4>1, RingFacts, SMT
    <3>2. CASE ~DrainPop
      <4>1. /\ head' = head /\ cached_tail' \in {cached_tail, s_tail} /\ s_head' \in {s_head, head, 0}
            /\ s_tail' \in {s_tail, tail, 0} /\ overrun' = overrun
        BY <3>2 DEF ClearTape, DrainLoad, DrainTest, DrainCache, Pause
      <4>2. overrun \in BOOLEAN
        BY DEF TypeOK
      <4>. QED BY <4>1, <4>2, RingFacts, SMT
    <3>. QED BY <3>1, <3>2
  <2>2. trades' \in Seq(Symbols) /\ Len(trades') <= TapeRows
    <3>1. CASE ClearTape
      BY <3>1, EmptySeq, Bounds, SMT DEF ClearTape
    <3>2. CASE ~ClearTape
      BY <3>2 DEF DrainLoad, DrainTest, DrainCache, DrainPop, Pause, TypeOK, Symbols
    <3>. QED BY <3>1, <3>2
  <2>3. clean' \in {"tape", "drain", "test", "cache", "pop", "pause"}
    BY DEF ClearTape, DrainLoad, DrainTest, DrainCache, DrainPop, Pause
  <2>. QED BY <1>1, <2>1, <2>2, <2>3 DEF TypeOK, Symbols
<1>10. DataInv'
  <2>1. \A k \in 1..Len(trades') : trades'[k] = cfg_symbol[feed]
    <3>1. CASE ClearTape
      BY <3>1, EmptySeq, SMT DEF ClearTape
    <3>2. CASE ~ClearTape
      BY <1>3, <3>2 DEF DrainLoad, DrainTest, DrainCache, DrainPop, Pause, DataInv
    <3>. QED BY <3>1, <3>2
  <2>. QED BY <1>1, <1>2, <1>3, <2>1 DEF DataInv, Mine
<1>11. PopsInv'
  <2>. SUFFICES ASSUME ~overrun' PROVE IndexInv' /\ RingInv' /\ BookInv'
    BY DEF PopsInv
  <2>0. IndexInv /\ RingInv /\ BookInv
    BY <1>5 DEF PopsInv
  <2>1. head' = head => /\ AllOf(cfg_symbol[feed])' = AllOf(cfg_symbol[feed])
                        /\ ReadsOn' = ReadsOn
    BY <1>1, <1>2, <1>3 DEF AllOf, ReadsOn, tail, Mine
  <2>2. CASE ClearTape
    <3>1. clean' = "drain" /\ sup' = sup /\ head' = head /\ cached_tail' = cached_tail
      BY <2>2, <1>2 DEF ClearTape
    <3>. QED BY <1>1, <1>2, <1>3, <1>6, <2>0, <3>1 DEF IndexInv, RingInv, CleaningUp, InPop
  <2>3. CASE DrainLoad
    <3>1. /\ clean' = "test" /\ sup' = sup /\ head' = head /\ cached_tail' = cached_tail
          /\ s_head' = head
      BY <2>3, <1>2 DEF DrainLoad
    <3>2. RingInv'
      BY <1>2, <1>3, <3>1, RingFacts, SMT DEF RingInv, CleaningUp
    <3>. QED BY <1>1, <1>3, <1>6, <2>0, <3>1, <3>2 DEF IndexInv, InPop
  <2>4. CASE DrainTest
    <3>1. /\ clean = "test" /\ sup' = sup /\ head' = head /\ cached_tail' = cached_tail
          /\ s_head' = s_head
          /\ (clean' = "cache" /\ s_tail' = tail) \/ clean' = "pop"
      BY <2>4, <1>2 DEF DrainTest
    <3>2. RingInv'
      BY <1>2, <1>3, <2>0, <2>1, <3>1 DEF RingInv, CleaningUp
    <3>. QED BY <1>1, <1>3, <1>6, <2>0, <3>1, <3>2 DEF IndexInv, InPop
  <2>5. CASE DrainCache
    <3>1. /\ clean = "cache" /\ sup' = sup /\ head' = head /\ cached_tail' = tail /\ s_tail = tail
          /\ \/ clean' = "pause" /\ s_head = tail
             \/ clean' = "pop" /\ s_head' = s_head
      BY <2>5, <2>0, <1>2 DEF DrainCache, IndexInv
    <3>2. head = tail => AllOf(cfg_symbol[feed])
      BY RingFacts, SMT DEF AllOf
    <3>3. head = tail \/ head < tail
      BY <2>0, RingFacts, SMT DEF IndexInv
    <3>4. RingInv'
      BY <1>2, <1>3, <2>0, <2>1, <3>1, <3>2, <3>3 DEF RingInv, CleaningUp
    <3>5. tail <= tail
      BY RingFacts, SMT
    <3>. QED BY <1>1, <1>3, <1>6, <2>0, <3>1, <3>4, <3>5 DEF IndexInv, InPop
  <2>6. CASE DrainPop
    <3>1. /\ clean' = "drain" /\ sup' = sup /\ cached_tail' = cached_tail
          /\ head' = s_head + 1 /\ ~(s_head >= tail)
      BY <2>6, <1>2 DEF DrainPop, Take
    <3>2. head' <= tail
      BY <3>1, RingFacts, SMT
    <3>. QED BY <1>1, <1>2, <1>3, <1>6, <2>0, <3>1, <3>2 DEF IndexInv, RingInv, CleaningUp, InPop
  <2>7. CASE Pause
    <3>1. clean = "pause" /\ clean' = "tape" /\ head' = head /\ cached_tail' = cached_tail
      BY <2>7 DEF Pause
    <3>2. RingInv'
      BY <1>2, <1>3, <2>0, <2>1, <3>1 DEF RingInv, CleaningUp
    <3>. QED BY <1>1, <1>3, <1>6, <2>0, <3>1, <3>2 DEF IndexInv, InPop
  <2>. QED BY <2>2, <2>3, <2>4, <2>5, <2>6, <2>7
<1>. QED BY <1>3, <1>4, <1>6, <1>8, <1>9, <1>10, <1>11 DEF LiveInv

-----------------------------------------------------------------------------
(* The consumer.  A step of it outside pop() keeps what is said of the     *)
(* ring, if a consumer that empties the ring goes on doing so.             *)
LEMMA AwayFromRing ==
  ASSUME IndexInv, RingInv, cons \notin InPop, cons' \notin InPop,
         UNCHANGED <<switchVars, ringVars, cleanVars, popVars>>,
         cons \in Emptying => cons' \in Emptying /\ sid' = sid
  PROVE  IndexInv' /\ RingInv'
<1>1. /\ UNCHANGED <<session, cfg_symbol, sup, ring, head, cached_tail, clean, s_head, s_tail>>
      /\ tail' = tail
  BY DEF switchVars, feedVars, ringVars, cleanVars, tail
<1>2. IndexInv'
  BY <1>1 DEF IndexInv, InPop
<1>3. ReadsOn => ReadsOn'
  BY <1>1 DEF ReadsOn, Mine, InPop
<1>. QED BY <1>1, <1>2, <1>3 DEF RingInv, AllOf, CleaningUp, Changing

LEMMA ConsumerLiveInv ==
  ASSUME LiveInv, SwitchInv', \A h \in Handlers : At(h, "idle")', Consumer
  PROVE  LiveInv'
<1>f. OneFeed /\ Feeds = {1} /\ feed = 1 /\ feed \in Feeds /\ OneAtATime
  BY TheFeed DEF LiveInv
<1>. USE <1>f DEF streamVars, cleanVars, popVars, Goes
<1>0. /\ SwitchInv /\ TypeOK /\ CallbackInv /\ TurnInv /\ PopsInv /\ DataInv /\ SessionInv
      /\ PublishedOfOneSymbol /\ SwitchTypeOK'
  BY DEF LiveInv, SwitchInv
<1>1. UNCHANGED <<switchVars, streamVars, cleanVars>>
  BY DEF Consumer, ConsTop, ConsSeeking, ConsGrace, ConsFetch, ConsFetched, ConsLoad, ConsLoop,
         ConsReceive, ConsTest, ConsCache, ConsPop, ConsResync, ConsAgain, ConsPublish
<1>2. /\ session' = session /\ cfg_symbol' = cfg_symbol /\ ws' = ws /\ cb' = cb /\ sup' = sup
      /\ main' = main /\ g_stop' = g_stop
  BY <1>1 DEF switchVars, feedVars, mainVars
<1>3. cfg_symbol[feed] \in Symbols /\ session[feed] \in Nat
  BY <1>0, FeedFacts
<1>4. CallbackInv' /\ (Changing <=> Changing') /\ (CleaningUp <=> CleaningUp')
  BY <1>0, <1>1, <1>2 DEF CallbackInv, Changing, CleaningUp
<1>. USE <1>0, <1>1, <1>2, <1>4
<1>5. CASE ConsTop
  <2>1. UNCHANGED <<ringVars, popVars>> /\ cons \notin InPop /\ cons' \notin InPop
    BY <1>5 DEF ConsTop, InPop
  <2>2. TypeOK'
    BY <1>3, <1>5, <2>1, RingFacts DEF ConsTop, TypeOK, Symbols, ringVars
  <2>3. TurnInv'
    BY <1>5, <2>1 DEF ConsTop, TurnInv, Mine, live, PastGrace, InBook, InPop
  <2>4. SessionInv'
    BY <1>3, <1>5, RingFacts, SMT DEF ConsTop, SessionInv
  <2>6. DataInv'
    BY <1>5 DEF ConsTop, DataInv, Mine, live
  <2>7. PopsInv'
    <3>. SUFFICES ASSUME ~overrun PROVE IndexInv' /\ RingInv' /\ BookInv'
      BY <2>1 DEF PopsInv, ringVars
    <3>1. IndexInv /\ RingInv /\ BookInv
      BY DEF PopsInv
    <3>2. cons \in Emptying => cons' \in Emptying /\ sid' = sid
      BY <1>5 DEF ConsTop, Emptying, InPop
    <3>3. BookInv'
      BY <1>5, <3>1 DEF ConsTop, BookInv, Mine, live, InBook, InPop, DataInv
    <3>. QED BY <2>1, <3>1, <3>2, <3>3, AwayFromRing
  <2>8. PublishedOfOneSymbol'
    BY <1>5, <2>1 DEF ConsTop, PublishedOfOneSymbol, Begun, Shown, Mine, ringVars
  <2>. QED BY <2>2, <2>3, <2>4, <2>6, <2>7, <2>8 DEF LiveInv
<1>6. CASE ConsSeeking
  <2>1. UNCHANGED <<ringVars, popVars>> /\ cons \notin InPop /\ cons' \notin InPop
    BY <1>6 DEF ConsSeeking, InPop
  <2>2. TypeOK'
    BY <1>3, <1>6, <2>1, RingFacts DEF ConsSeeking, TypeOK, Symbols, ringVars
  <2>3. TurnInv'
    BY <1>6, <2>1 DEF ConsSeeking, TurnInv, Mine, live, PastGrace, InBook, InPop
  <2>4. SessionInv'
    BY <1>3, <1>6, RingFacts, SMT DEF ConsSeeking, SessionInv
  <2>6. DataInv'
    BY <1>6 DEF ConsSeeking, DataInv, Mine, live
  <2>7. PopsInv'
    <3>. SUFFICES ASSUME ~overrun PROVE IndexInv' /\ RingInv' /\ BookInv'
      BY <2>1 DEF PopsInv, ringVars
    <3>1. IndexInv /\ RingInv /\ BookInv
      BY DEF PopsInv
    <3>2. cons \in Emptying => cons' \in Emptying /\ sid' = sid
      BY <1>6 DEF ConsSeeking, Emptying, InPop
    <3>3. BookInv'
      BY <1>6, <3>1 DEF ConsSeeking, BookInv, Mine, live, InBook, InPop, DataInv
    <3>. QED BY <2>1, <3>1, <3>2, <3>3, AwayFromRing
  <2>8. PublishedOfOneSymbol'
    BY <1>6, <2>1 DEF ConsSeeking, PublishedOfOneSymbol, Begun, Shown, Mine, ringVars
  <2>. QED BY <2>2, <2>3, <2>4, <2>6, <2>7, <2>8 DEF LiveInv
<1>7. CASE ConsGrace
  <2>1. UNCHANGED <<ringVars, popVars>> /\ cons \notin InPop /\ cons' \notin InPop
    BY <1>7 DEF ConsGrace, InPop
  <2>2. TypeOK'
    BY <1>3, <1>7, <2>1, RingFacts DEF ConsGrace, TypeOK, Symbols, ringVars
  <2>3. TurnInv'
    BY <1>7, <2>1 DEF ConsGrace, TurnInv, Mine, live, PastGrace, InBook, InPop
  <2>4. SessionInv'
    BY <1>3, <1>7, RingFacts, SMT DEF ConsGrace, SessionInv
  <2>6. DataInv'
    BY <1>7 DEF ConsGrace, DataInv, Mine, live
  <2>7. PopsInv'
    <3>. SUFFICES ASSUME ~overrun PROVE IndexInv' /\ RingInv' /\ BookInv'
      BY <2>1 DEF PopsInv, ringVars
    <3>1. IndexInv /\ RingInv /\ BookInv
      BY DEF PopsInv
    <3>2. cons \in Emptying => cons' \in Emptying /\ sid' = sid
      BY <1>7 DEF ConsGrace, Emptying, InPop
    <3>3. BookInv'
      BY <1>7, <3>1 DEF ConsGrace, BookInv, Mine, live, InBook, InPop, DataInv
    <3>. QED BY <2>1, <3>1, <3>2, <3>3, AwayFromRing
  <2>8. PublishedOfOneSymbol'
    BY <1>7, <2>1 DEF ConsGrace, PublishedOfOneSymbol, Begun, Shown, Mine, ringVars
  <2>. QED BY <2>2, <2>3, <2>4, <2>6, <2>7, <2>8 DEF LiveInv
<1>8. CASE ConsFetch
  <2>1. UNCHANGED <<ringVars, popVars>> /\ cons \notin InPop /\ cons' \notin InPop
    BY <1>8 DEF ConsFetch, InPop
  <2>2. TypeOK'
    BY <1>3, <1>8, <2>1, RingFacts DEF ConsFetch, TypeOK, Symbols, ringVars
  <2>3. TurnInv'
    BY <1>8, <2>1 DEF ConsFetch, TurnInv, Mine, live, PastGrace, InBook, InPop
  <2>4. SessionInv'
    BY <1>3, <1>8, RingFacts, SMT DEF ConsFetch, SessionInv
  <2>6. DataInv'
    BY <1>8 DEF ConsFetch, DataInv, Mine, live
  <2>7. PopsInv'
    <3>. SUFFICES ASSUME ~overrun PROVE IndexInv' /\ RingInv' /\ BookInv'
      BY <2>1 DEF PopsInv, ringVars
    <3>1. IndexInv /\ RingInv /\ BookInv
      BY DEF PopsInv
    <3>2. cons \in Emptying => cons' \in Emptying /\ sid' = sid
      BY <1>8 DEF ConsFetch, Emptying, InPop
    <3>3. BookInv'
      BY <1>8, <3>1 DEF ConsFetch, BookInv, Mine, live, InBook, InPop, DataInv
    <3>. QED BY <2>1, <3>1, <3>2, <3>3, AwayFromRing
  <2>8. PublishedOfOneSymbol'
    BY <1>8, <2>1 DEF ConsFetch, PublishedOfOneSymbol, Begun, Shown, Mine, ringVars
  <2>. QED BY <2>2, <2>3, <2>4, <2>6, <2>7, <2>8 DEF LiveInv
<1>9. CASE ConsFetched
  <2>1. UNCHANGED <<ringVars, popVars>> /\ cons \notin InPop /\ cons' \notin InPop
    BY <1>9 DEF ConsFetched, InPop
  <2>2. TypeOK'
    BY <1>3, <1>9, <2>1, RingFacts DEF ConsFetched, TypeOK, Symbols, ringVars
  <2>3. TurnInv'
    BY <1>9, <2>1 DEF ConsFetched, TurnInv, Mine, live, PastGrace, InBook, InPop
  <2>4. SessionInv'
    BY <1>3, <1>9, RingFacts, SMT DEF ConsFetched, SessionInv
  <2>6. DataInv'
    BY <1>9 DEF ConsFetched, DataInv, Mine, live
  <2>7. PopsInv'
    <3>. SUFFICES ASSUME ~overrun PROVE IndexInv' /\ RingInv' /\ BookInv'
      BY <2>1 DEF PopsInv, ringVars
    <3>1. IndexInv /\ RingInv /\ BookInv
      BY DEF PopsInv
    <3>2. cons \in Emptying => cons' \in Emptying /\ sid' = sid
      BY <1>9 DEF ConsFetched, Emptying, InPop
    <3>3. BookInv'
      BY <1>9, <3>1 DEF ConsFetched, BookInv, Mine, live, InBook, InPop, DataInv
    <3>. QED BY <2>1, <3>1, <3>2, <3>3, AwayFromRing
  <2>8. PublishedOfOneSymbol'
    BY <1>9, <2>1 DEF ConsFetched, PublishedOfOneSymbol, Begun, Shown, Mine, ringVars
  <2>. QED BY <2>2, <2>3, <2>4, <2>6, <2>7, <2>8 DEF LiveInv
<1>10. CASE ConsLoad
  <2>1. UNCHANGED <<ringVars, popVars>> /\ cons \notin InPop /\ cons' \notin InPop
    BY <1>10 DEF ConsLoad, InPop
  <2>2. TypeOK'
    BY <1>3, <1>10, <2>1, RingFacts DEF ConsLoad, TypeOK, Symbols, ringVars
  <2>3. TurnInv'
    BY <1>10, <2>1 DEF ConsLoad, TurnInv, Mine, live, PastGrace, InBook, InPop
  <2>4. SessionInv'
    BY <1>3, <1>10, RingFacts, SMT DEF ConsLoad, SessionInv
  <2>5. asked \in Catalog /\ asked \in {Torn, cfg_symbol[feed]} => asked = cfg_symbol[feed]
    BY SwitchAssumption
  <2>6. DataInv'
    BY <1>10 DEF ConsLoad, DataInv, Mine, live
  <2>7. PopsInv'
    <3>. SUFFICES ASSUME ~overrun PROVE IndexInv' /\ RingInv' /\ BookInv'
      BY <2>1 DEF PopsInv, ringVars
    <3>1. IndexInv /\ RingInv /\ BookInv
      BY DEF PopsInv
    <3>2. cons \in Emptying => cons' \in Emptying /\ sid' = sid
      BY <1>10 DEF ConsLoad, Emptying, InPop
    <3>3. BookInv'
      BY <1>10, <3>1, <2>5 DEF ConsLoad, BookInv, Mine, live, InBook, InPop, DataInv, SessionInv
    <3>. QED BY <2>1, <3>1, <3>2, <3>3, AwayFromRing
  <2>8. PublishedOfOneSymbol'
    BY <1>10, <2>1 DEF ConsLoad, PublishedOfOneSymbol, Begun, Shown, Mine, ringVars
  <2>. QED BY <2>2, <2>3, <2>4, <2>6, <2>7, <2>8 DEF LiveInv
<1>11. CASE ConsLoop
  <2>1. UNCHANGED <<ringVars, popVars>> /\ cons \notin InPop /\ cons' \notin InPop
    BY <1>11 DEF ConsLoop, InPop
  <2>2. TypeOK'
    BY <1>3, <1>11, <2>1, RingFacts DEF ConsLoop, TypeOK, Symbols, ringVars
  <2>3. TurnInv'
    BY <1>11, <2>1 DEF ConsLoop, TurnInv, Mine, live, PastGrace, InBook, InPop
  <2>4. SessionInv'
    BY <1>3, <1>11, RingFacts, SMT DEF ConsLoop, SessionInv
  <2>6. DataInv'
    BY <1>11 DEF ConsLoop, DataInv, Mine, live
  <2>7. PopsInv'
    <3>. SUFFICES ASSUME ~overrun PROVE IndexInv' /\ RingInv' /\ BookInv'
      BY <2>1 DEF PopsInv, ringVars
    <3>1. IndexInv /\ RingInv /\ BookInv
      BY DEF PopsInv
    <3>2. cons \in Emptying => cons' \in Emptying /\ sid' = sid
      BY <1>11 DEF ConsLoop, Emptying, InPop
    <3>3. BookInv'
      BY <1>11, <3>1 DEF ConsLoop, BookInv, Mine, live, InBook, InPop, DataInv
    <3>. QED BY <2>1, <3>1, <3>2, <3>3, AwayFromRing
  <2>8. PublishedOfOneSymbol'
    BY <1>11, <2>1 DEF ConsLoop, PublishedOfOneSymbol, Begun, Shown, Mine, ringVars
  <2>. QED BY <2>2, <2>3, <2>4, <2>6, <2>7, <2>8 DEF LiveInv
<1>12. CASE ConsResync
  <2>1. UNCHANGED <<ringVars, popVars>> /\ cons \notin InPop /\ cons' \notin InPop
    BY <1>12 DEF ConsResync, InPop
  <2>2. TypeOK'
    BY <1>3, <1>12, <2>1, RingFacts DEF ConsResync, TypeOK, Symbols, ringVars
  <2>3. TurnInv'
    BY <1>12, <2>1 DEF ConsResync, TurnInv, Mine, live, PastGrace, InBook, InPop
  <2>4. SessionInv'
    BY <1>3, <1>12, RingFacts, SMT DEF ConsResync, SessionInv
  <2>6. DataInv'
    BY <1>12 DEF ConsResync, DataInv, Mine, live
  <2>7. PopsInv'
    <3>. SUFFICES ASSUME ~overrun PROVE IndexInv' /\ RingInv' /\ BookInv'
      BY <2>1 DEF PopsInv, ringVars
    <3>1. IndexInv /\ RingInv /\ BookInv
      BY DEF PopsInv
    <3>2. cons \in Emptying => cons' \in Emptying /\ sid' = sid
      BY <1>12 DEF ConsResync, Emptying, InPop
    <3>3. BookInv'
      BY <1>12, <3>1 DEF ConsResync, BookInv, Mine, live, InBook, InPop, DataInv
    <3>. QED BY <2>1, <3>1, <3>2, <3>3, AwayFromRing
  <2>8. PublishedOfOneSymbol'
    BY <1>12, <2>1 DEF ConsResync, PublishedOfOneSymbol, Begun, Shown, Mine, ringVars
  <2>. QED BY <2>2, <2>3, <2>4, <2>6, <2>7, <2>8 DEF LiveInv
<1>13. CASE ConsAgain
  <2>1. UNCHANGED <<ringVars, popVars>> /\ cons \notin InPop /\ cons' \notin InPop
    BY <1>13 DEF ConsAgain, InPop
  <2>2. TypeOK'
    BY <1>3, <1>13, <2>1, RingFacts DEF ConsAgain, TypeOK, Symbols, ringVars
  <2>3. TurnInv'
    BY <1>13, <2>1 DEF ConsAgain, TurnInv, Mine, live, PastGrace, InBook, InPop
  <2>4. SessionInv'
    BY <1>3, <1>13, RingFacts, SMT DEF ConsAgain, SessionInv
  <2>5. asked \in Catalog /\ asked \in {Torn, cfg_symbol[feed]} => asked = cfg_symbol[feed]
    BY SwitchAssumption
  <2>6. DataInv'
    BY <1>13 DEF ConsAgain, DataInv, Mine, live
  <2>7. PopsInv'
    <3>. SUFFICES ASSUME ~overrun PROVE IndexInv' /\ RingInv' /\ BookInv'
      BY <2>1 DEF PopsInv, ringVars
    <3>1. IndexInv /\ RingInv /\ BookInv
      BY DEF PopsInv
    <3>2. cons \in Emptying => cons' \in Emptying /\ sid' = sid
      BY <1>13 DEF ConsAgain, Emptying, InPop
    <3>3. BookInv'
      BY <1>13, <3>1, <2>5 DEF ConsAgain, BookInv, Mine, live, InBook, InPop, DataInv, SessionInv
    <3>. QED BY <2>1, <3>1, <3>2, <3>3, AwayFromRing
  <2>8. PublishedOfOneSymbol'
    BY <1>13, <2>1 DEF ConsAgain, PublishedOfOneSymbol, Begun, Shown, Mine, ringVars
  <2>. QED BY <2>2, <2>3, <2>4, <2>6, <2>7, <2>8 DEF LiveInv
<1>14. CASE ConsPublish
  <2>1. UNCHANGED <<ringVars, popVars>> /\ cons \notin InPop /\ cons' \notin InPop
    BY <1>14 DEF ConsPublish, InPop
  <2>2. TypeOK'
    BY <1>3, <1>14, <2>1, RingFacts DEF ConsPublish, TypeOK, Symbols, ringVars
  <2>3. TurnInv'
    BY <1>14, <2>1 DEF ConsPublish, TurnInv, Mine, live, PastGrace, InBook, InPop
  <2>4. SessionInv'
    BY <1>3, <1>14, RingFacts, SMT DEF ConsPublish, SessionInv
  <2>6. DataInv'
    BY <1>14 DEF ConsPublish, DataInv, Mine, live
  <2>7. PopsInv'
    <3>. SUFFICES ASSUME ~overrun PROVE IndexInv' /\ RingInv' /\ BookInv'
      BY <2>1 DEF PopsInv, ringVars
    <3>1. IndexInv /\ RingInv /\ BookInv
      BY DEF PopsInv
    <3>2. cons \in Emptying => cons' \in Emptying /\ sid' = sid
      BY <1>14 DEF ConsPublish, Emptying, InPop
    <3>3. BookInv'
      BY <1>14, <3>1 DEF ConsPublish, BookInv, Mine, live, InBook, InPop, DataInv
    <3>. QED BY <2>1, <3>1, <3>2, <3>3, AwayFromRing
  <2>8. PublishedOfOneSymbol'
    <3>. SUFFICES ASSUME ~overrun, Mine, ~Changing PROVE Shown(cfg_symbol[feed])'
      BY <1>14, <2>1 DEF ConsPublish, PublishedOfOneSymbol, Begun, Mine, ringVars
    <3>1. cons = "publish" /\ ~CleaningUp
      BY <1>14 DEF ConsPublish, TurnInv, PastGrace, InBook
    <3>2. CASE UNCHANGED snap
      BY <3>1, <3>2 DEF PublishedOfOneSymbol, Begun, Shown
    <3>3. CASE snap' = [symbol |-> cfg_symbol[feed], about |-> book \cup ToSet(trades)]
      <4>1. book \subseteq {cfg_symbol[feed]}
        BY <3>1 DEF PopsInv, BookInv, InBook
      <4>2. \A k \in 1..Len(trades) : trades[k] = cfg_symbol[feed]
        BY <3>1 DEF DataInv, CleaningUp
      <4>3. DOMAIN trades = 1..Len(trades)
        BY LenProperties DEF TypeOK
      <4>4. ToSet(trades) \subseteq {cfg_symbol[feed]}
        BY <4>2, <4>3 DEF ToSet
      <4>. QED BY <3>3, <4>1, <4>4 DEF Shown
    <3>. QED BY <1>14, <3>2, <3>3 DEF ConsPublish
  <2>. QED BY <2>2, <2>3, <2>4, <2>6, <2>7, <2>8 DEF LiveInv
(* The steps of pop().  Its accesses are those of the supervisor's, which  *)
(* overlaps with it only if the consumer's session is over.                *)
<1>15. CASE ConsReceive \/ ConsTest \/ ConsCache \/ ConsPop
  <2>1. /\ UNCHANGED <<ring, cached_head, sid, asked, snap>> /\ tail' = tail
        /\ cons \in {"receive"} \cup InPop /\ cons' \in Emptying \cup {"publish"}
        /\ overrun => overrun'
    <3>1. UNCHANGED <<ring, cached_head, sid, asked, snap>>
      BY <1>15 DEF ConsReceive, ConsTest, ConsCache, ConsPop, ringVars, Take
    <3>3. overrun' = overrun \/ overrun' = (overrun \/ c_head >= tail)
      BY <1>15 DEF ConsReceive, ConsTest, ConsCache, ConsPop, ringVars, Take
    <3>4. overrun => overrun'
      BY <3>3
    <3>2. cons \in {"receive"} \cup InPop /\ cons' \in Emptying \cup {"publish"}
      BY <1>15 DEF ConsReceive, ConsTest, ConsCache, ConsPop, InPop, Emptying
    <3>. QED BY <3>1, <3>2, <3>4 DEF tail
  <2>2. SessionInv' /\ DataInv' /\ PublishedOfOneSymbol'
    <3>1. cons \in InBook /\ cons' \notin {"await", "load", "done", "top", "seeking"}
      BY <2>1 DEF InBook, InPop, Emptying
    <3>2. cons' = "again" => FALSE
      BY <1>15 DEF ConsReceive, ConsTest, ConsCache, ConsPop
    <3>. QED BY <2>1, <3>1, <3>2 DEF SessionInv, DataInv, PublishedOfOneSymbol, Begun, Shown, Mine,
                                     InBook, InPop
  <2>3. TurnInv'
    <3>1. Mine => ~CleaningUp
      BY <2>1 DEF TurnInv, PastGrace, InBook
    <3>2. Mine' /\ cons' \in InPop => c_head' = head'
      <4>1. CASE ConsReceive
        BY <4>1 DEF ConsReceive, ringVars
      <4>2. CASE ConsTest
        BY <2>1, <4>2 DEF ConsTest, ringVars, TurnInv, Mine, InPop
      <4>3. CASE ConsCache
        BY <2>1, <4>3 DEF ConsCache, TurnInv, Mine, InPop
      <4>4. CASE ConsPop
        BY <4>4 DEF ConsPop, InPop
      <4>. QED BY <1>15, <4>1, <4>2, <4>3, <4>4
    <3>. QED BY <2>1, <3>1, <3>2 DEF TurnInv, Mine
  <2>4. TypeOK'
    <3>1. /\ head' \in Nat /\ cached_tail' \in Nat /\ c_head' \in Nat /\ c_tail' \in Nat
          /\ overrun' \in BOOLEAN /\ book' \subseteq Symbols
      <4>1. CASE ConsPop
        <5>1. /\ head' = c_head + 1 /\ cached_tail' = cached_tail /\ c_head' = 0 /\ c_tail' = c_tail
              /\ overrun' \in BOOLEAN
              /\ book' = book \/ \E m \in Slot(c_head) : book' = book \cup {m}
          BY <4>1 DEF ConsPop, Take
        <5>2. Slot(c_head) \subseteq Symbols
          <6>1. ToSet(ring) \subseteq Symbols
            BY RingFacts, ElementOfSeq DEF ToSet
          <6>2. \A k \in (c_head + 1)..tail : k \in 1..tail
            BY RingFacts, SMT
          <6>. QED BY <6>1, <6>2, RingFacts DEF Slot, Symbols
        <5>3. c_head + 1 \in Nat /\ 0 \in Nat
          BY RingFacts, SMT
        <5>. QED BY <5>1, <5>2, <5>3, RingFacts
      <4>2. CASE ~ConsPop
        <5>1. /\ head' = head /\ cached_tail' \in {cached_tail, c_tail} /\ c_head' \in {c_head, head, 0}
              /\ c_tail' \in {c_tail, tail, 0} /\ overrun' = overrun /\ book' = book
          BY <1>15, <4>2 DEF ConsReceive, ConsTest, ConsCache, ringVars
        <5>2. overrun \in BOOLEAN
          BY DEF TypeOK
        <5>. QED BY <5>1, <5>2, RingFacts, SMT
      <4>. QED BY <4>1, <4>2
    <3>2. cons' \in {"receive", "resync", "again", "test", "cache", "pop", "publish"}
      BY <2>1 DEF Emptying, InPop
    <3>. QED BY <2>1, <3>1, <3>2 DEF TypeOK, Symbols
  <2>5. PopsInv'
    <3>. SUFFICES ASSUME ~overrun' PROVE IndexInv' /\ RingInv' /\ BookInv'
      BY DEF PopsInv
    <3>0. IndexInv /\ RingInv /\ BookInv
      BY <2>1 DEF PopsInv
    <3>1. head' = head => (AllOf(cfg_symbol[feed])' <=> AllOf(cfg_symbol[feed]))
      BY <2>1 DEF AllOf, tail
    <3>2. Mine <=> Mine'
      BY <2>1 DEF Mine
    <3>3. CASE ConsReceive
      <4>1. /\ UNCHANGED <<head, cached_tail, c_tail, book>> /\ c_head' = head
            /\ cons = "receive" /\ cons' = "test"
        BY <3>3 DEF ConsReceive, ringVars
      <4>2. ReadsOn => ReadsOn'
        BY <3>2, <4>1 DEF ReadsOn, Emptying, InPop
      <4>3. RingInv'
        BY <2>1, <3>0, <3>1, <4>1, <4>2 DEF RingInv
      <4>. QED BY <2>1, <3>0, <3>2, <4>1, <4>3 DEF IndexInv, BookInv, InBook, InPop
    <3>4. CASE ConsTest
      <4>1. /\ UNCHANGED <<head, cached_tail, c_head, book>> /\ cons = "test"
            /\ (cons' = "cache" /\ c_tail' = tail) \/ cons' = "pop"
        BY <3>4 DEF ConsTest, ringVars
      <4>2. c_head <= tail /\ tail <= tail
        BY <3>0, <4>1, RingFacts, SMT DEF IndexInv, InPop
      <4>3. ReadsOn /\ head < tail => ReadsOn'
        BY <3>2, <4>1 DEF ReadsOn, Emptying, InPop
      <4>4. ~(head < tail) => AllOf(cfg_symbol[feed])
        BY RingFacts, SMT DEF AllOf
      <4>5. RingInv'
        BY <2>1, <3>0, <3>1, <4>1, <4>3, <4>4 DEF RingInv
      <4>. QED BY <2>1, <3>0, <3>2, <4>1, <4>2, <4>5 DEF IndexInv, BookInv, InBook, InPop
    <3>5. CASE ConsCache
      <4>1. /\ UNCHANGED <<head, book>> /\ cons = "cache" /\ cached_tail' = c_tail
            /\ \/ c_head = c_tail /\ cons' = "publish"
               \/ cons' = "pop" /\ c_head' = c_head
        BY <3>5 DEF ConsCache
      <4>2. c_head <= tail /\ c_tail <= tail
        BY <3>0, <4>1 DEF IndexInv, InPop
      <4>3. ReadsOn => c_head # c_tail
        BY <4>1, RingFacts, SMT DEF ReadsOn
      <4>4. ReadsOn => ReadsOn'
        BY <3>2, <4>1, <4>3 DEF ReadsOn, Emptying, InPop
      <4>5. RingInv'
        BY <2>1, <3>0, <3>1, <4>1, <4>4 DEF RingInv
      <4>. QED BY <2>1, <3>0, <3>2, <4>1, <4>2, <4>5 DEF IndexInv, BookInv, InBook, InPop
    <3>6. CASE ConsPop
      <4>1. /\ UNCHANGED cached_tail /\ cons = "pop" /\ cons' \in {"receive", "resync"}
            /\ head' = c_head + 1 /\ ~(c_head >= tail)
            /\ book' = book \/ \E m \in Slot(c_head) : book' = book \cup {m}
        BY <3>6 DEF ConsPop, Take
      <4>2. head' <= tail /\ c_head < tail
        BY <4>1, RingFacts, SMT
      <4>3. IndexInv'
        BY <2>1, <3>0, <4>1, <4>2 DEF IndexInv, InPop
      (* A consumer whose session is over leaves nothing, since it goes on  *)
      (* from the head it has just stored.                                  *)
      <4>4. CASE ~Mine
        BY <3>2, <4>1, <4>3, <4>4 DEF RingInv, ReadsOn, BookInv, Emptying, InPop
      (* A consumer of the current session pops what head points at, and    *)
      (* that is of the feed's symbol.                                      *)
      <4>5. CASE Mine
        <5>1. c_head = head /\ ~CleaningUp
          BY <4>1, <4>5 DEF TurnInv, PastGrace, InBook, InPop
        <5>2. clean \notin {"test", "cache"}
          BY <5>1 DEF TurnInv, CleaningUp
        <5>3. ASSUME ~Changing
              PROVE  AllOf(cfg_symbol[feed])' /\ book' \subseteq {cfg_symbol[feed]}
          <6>1. AllOf(cfg_symbol[feed]) /\ book \subseteq {cfg_symbol[feed]}
            BY <3>0, <4>1, <4>5, <5>1, <5>3 DEF RingInv, ReadsOn, BookInv, InBook, InPop
          <6>2. Slot(c_head) \subseteq {cfg_symbol[feed]}
            BY <4>2, <5>1, <6>1 DEF Slot, AllOf
          <6>3. \A k \in (head' + 1)..tail : k \in (head + 1)..tail
            BY <4>1, <5>1, RingFacts, SMT
          <6>. QED BY <2>1, <4>1, <6>1, <6>2, <6>3 DEF AllOf, tail
        <5>. QED BY <4>3, <5>2, <5>3 DEF RingInv, BookInv
      <4>. QED BY <4>4, <4>5
    <3>. QED BY <1>15, <3>3, <3>4, <3>5, <3>6
  <2>. QED BY <2>2, <2>3, <2>4, <2>5 DEF LiveInv
<1>. QED BY <1>5, <1>6, <1>7, <1>8, <1>9, <1>10, <1>11, <1>12, <1>13, <1>14, <1>15
         DEF Consumer

-----------------------------------------------------------------------------
LEMMA StepLiveInv == LiveInv /\ [Next]_vars => LiveInv'
<1>. SUFFICES ASSUME LiveInv, [Next]_vars PROVE LiveInv'
  OBVIOUS
<1>1. SwitchInv' /\ \A h \in Handlers : At(h, "idle")'
  BY LiveSwitchInv DEF LiveInv
<1>2. CASE UNCHANGED vars
  <2>. USE <1>2 DEF vars, liveVars, ringVars, streamVars, cleanVars, popVars, consVars, switchVars,
                    feedVars, mainVars
  <2>1. TypeOK'
    <3>1. SwitchTypeOK' /\ TypeOK
      BY <1>1 DEF LiveInv, SwitchInv
    <3>. QED BY <3>1 DEF TypeOK
  <2>2. CallbackInv' /\ TurnInv' /\ SessionInv' /\ PublishedOfOneSymbol' /\ DataInv'
    BY DEF LiveInv, CallbackInv, TurnInv, SessionInv, PublishedOfOneSymbol, DataInv, Begun, Shown,
           Mine, Changing, CleaningUp
  <2>3. PopsInv'
    BY DEF LiveInv, PopsInv, IndexInv, RingInv, BookInv, AllOf, ReadsOn, tail, Mine, Changing,
           CleaningUp
  <2>. QED BY <1>1, <2>1, <2>2, <2>3 DEF LiveInv
<1>3. CASE Http \/ (Stop /\ UNCHANGED liveVars) \/ SupSteps \/ MainSteps
  <2>1. UNCHANGED liveVars
    BY <1>3 DEF Http, SupSteps, MainSteps
  <2>. QED BY <1>1, <1>3, <2>1, SwitchStepLiveInv
<1>. QED BY <1>1, <1>2, <1>3, CallbackLiveInv, CleanLiveInv, ConsumerLiveInv
         DEF Next, Supervisor

(* The inductive invariant of a feed holds in every reachable state: also  *)
(* when the pops of the consumer and of the supervisor overlap and either  *)
(* stores the old cached_tail_ over the other's.  What it says of the ring *)
(* and the book ends with the first pop that goes past the tail.           *)
THEOREM LiveInvariance == Spec => []LiveInv
BY InitLiveInv, StepLiveInv, PTL DEF Spec

(* No session mixes symbols until a pop has gone past the tail: the book   *)
(* and the ring of the current session hold its symbol's levels only,      *)
(* whatever the callback, the consumer and the supervisor's clean-up,      *)
(* which pops from the same ring, do at once.                              *)
THEOREM SessionsDoNotMix == Spec => []BookOfSession
<1>1. LiveInv => BookOfSession
  <2>. SUFFICES ASSUME LiveInv, ~overrun, live, ~Changing, cons \in InBook
                PROVE  book \subseteq {cfg_symbol[feed]} /\ AllOf(cfg_symbol[feed])
    BY DEF BookOfSession, LiveInv
  <2>1. Mine /\ ~CleaningUp
    BY DEF live, Mine, LiveInv, TurnInv, PastGrace
  <2>2. RingInv /\ BookInv
    BY DEF LiveInv, PopsInv
  <2>. QED BY <2>1, <2>2 DEF RingInv, BookInv, ReadsOn
<1>. QED BY <1>1, LiveInvariance, PTL

(* From the moment the consumer has begun the feed's session, and until a  *)
(* pop has gone past the tail, what the feed publishes names, shows and    *)
(* lists trades of one symbol, the feed's.                                 *)
THEOREM SnapshotsOfOneSymbol == Spec => []PublishedOfOneSymbol
<1>1. LiveInv => PublishedOfOneSymbol
  BY DEF LiveInv
<1>. QED BY <1>1, LiveInvariance, PTL

(* When the main thread returns, the callback, the supervisor and the      *)
(* consumer have ended: the feed it destroys is in nobody's hands.  This   *)
(* holds whether or not a pop has gone past the tail.                      *)
THEOREM MainReturnsLast == Spec => []NothingOutlivesMain
<1>1. LiveInv => NothingOutlivesMain
  BY FeedFacts DEF LiveInv, NothingOutlivesMain, SessionInv
<1>. QED BY <1>1, LiveInvariance, PTL
=============================================================================
