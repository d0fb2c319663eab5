------------------------- MODULE AccountViewsProofs -------------------------
(***************************************************************************)
(* What the dashboard shows, for any number of accounts and any bounds.    *)
(* While an account is calm, everything on its way to the store carries    *)
(* what the backend reports, or its registry claims, right now             *)
(* (CalmCarries); that is what makes ActivationHeals inductive.            *)
(***************************************************************************)
EXTENDS AccountViews, SequenceTheorems, TLAPS

Wire == Seq([of : Account, state : Report])

(* Only idling has claims, toggles and no summaries. *)
ByFeature ==
  /\ feature # "idling" => /\ \A k \in DOMAIN entries : entries[k].owners = Nothing
                           /\ \A c \in calls : c.what \in {"route", "read", "start"}
                           /\ view.entry.owners = Nothing
                           /\ claimed = [k \in Account |-> Nothing]
  /\ feature = "idling" => dismissed = {}

(* What a read of that kind has to answer about the active account. *)
Truth(what) == IF what = "claims" THEN claimed[active] ELSE Reported(active)

CalmCarries ==
  calm => /\ active # None
          /\ \A c \in calls : c.of = active /\ c.answer # None => c.answer = Truth(c.what)
          /\ \A i \in 1..Len(events) : events[i].of = active => events[i].state = Reported(active)
          /\ (\A c \in calls : c.of = active => c.what # "read")
               => view.entry.state = Reported(active)
          /\ feature = "idling" /\ (\A c \in calls : c.of = active => c.what \notin {"read", "claims"})
               => view.entry.owners = claimed[active]

IInv == TypeOK /\ ShownIsEntry /\ RunningIsArmed /\ ByFeature /\ CalmCarries

-----------------------------------------------------------------------------
(* What a write to the store comes to, whichever store it is. *)
Wrote(k, e) ==
  /\ entries' = Put(k, e)
  /\ dismissed' \subseteq dismissed /\ dismissed \ {k} \subseteq dismissed'
  /\ view' = IF view.key = k THEN [view EXCEPT !.entry = e, !.dismissed = k \in dismissed'] ELSE view

LEMMA NothingTyped == Nothing \in Report /\ Nothing.phase = "none" /\ Blank \in Entry
BY ViewsAssumption DEF Nothing, Report, Session, Blank, Entry

LEMMA OfTyped ==
  ASSUME TypeOK, NEW k \in Account
  PROVE  /\ Of(k) \in Entry
         /\ feature # "idling" /\ ByFeature => Of(k).owners = Nothing
BY NothingTyped DEF TypeOK, Of, Has, ByFeature, Blank

LEMMA UpdateWrites ==
  ASSUME TypeOK, ByFeature, NEW k \in Account, NEW s \in Report, Update(k, s)
  PROVE  \E e \in Entry :
           /\ Wrote(k, e) /\ e.state = s
           /\ e.owners = IF feature = "idling" THEN Of(k).owners ELSE Nothing
           /\ feature # "idling" /\ s.phase = "running" => k \notin dismissed'
<1> USE OfTyped, NothingTyped
<1>1. CASE feature = "idling"
  <2> DEFINE e == [Of(k) EXCEPT !.state = s]
  <2>1. e \in Entry /\ e.state = s /\ e.owners = Of(k).owners
    BY DEF Entry
  <2>2. SetAppIds(k, s)
    BY <1>1 DEF Update
  <2>3. Wrote(k, e)
    BY <2>2 DEF SetAppIds, Store, Wrote
  <2> QED BY <2>1, <2>3, <1>1
<1>2. CASE feature # "idling"
  <2> DEFINE e == [Blank EXCEPT !.state = s]
  <2>1. e \in Entry /\ e.state = s /\ e.owners = Nothing
    BY DEF Entry, Blank
  <2>2. Store(k, e, IF s.phase = "running" THEN dismissed \ {k} ELSE dismissed)
    BY <1>2 DEF Update, UpdateFarming, UpdateUnlocker, TypeOK, Feature
  <2>3. dismissed' = IF s.phase = "running" THEN dismissed \ {k} ELSE dismissed
    BY <2>2 DEF Store
  <2>4. Wrote(k, e)
    BY <2>2, <2>3 DEF Store, Wrote
  <2> QED BY <2>1, <2>3, <2>4, <1>2
<1> QED BY <1>1, <1>2

(* A write to an entry keeps the parts of the invariant about the store. *)
LEMMA WriteKeeps ==
  ASSUME TypeOK, ShownIsEntry, RunningIsArmed, ByFeature,
         NEW k \in Account, NEW e \in Entry, Wrote(k, e),
         e.state.phase = "running" => k \notin dismissed',
         feature # "idling" => e.owners = Nothing,
         UNCHANGED <<feature, active>>
  PROVE  /\ DOMAIN entries' \subseteq Account /\ \A j \in DOMAIN entries' : entries'[j] \in Entry
         /\ view' \in [key : Account \cup {None}, entry : Entry, dismissed : BOOLEAN]
         /\ dismissed' \subseteq Account
         /\ ShownIsEntry' /\ RunningIsArmed'
         /\ feature # "idling" => /\ \A j \in DOMAIN entries' : entries'[j].owners = Nothing
                                  /\ view'.entry.owners = Nothing
         /\ feature = "idling" => dismissed' = {}
         /\ view'.key = k => view'.entry = e
         /\ view'.key # k => view' = view
<1>1. /\ DOMAIN entries' = DOMAIN entries \cup {k} /\ entries'[k] = e
      /\ \A j \in DOMAIN entries : j # k => entries'[j] = entries[j]
  BY DEF Wrote, Put
<1>2. DOMAIN entries' \subseteq Account /\ \A j \in DOMAIN entries' : entries'[j] \in Entry
  BY <1>1 DEF TypeOK
<1>3. /\ view' \in [key : Account \cup {None}, entry : Entry, dismissed : BOOLEAN]
      /\ view'.key = view.key /\ (view.key = k => view'.entry = e /\ view'.dismissed = (k \in dismissed'))
      /\ (view.key # k => view' = view)
  <2>1. ASSUME NEW b \in BOOLEAN, NEW v \in [key : Account \cup {None}, entry : Entry, dismissed : BOOLEAN]
        PROVE  LET w == [v EXCEPT !.entry = e, !.dismissed = b]
               IN  w \in [key : Account \cup {None}, entry : Entry, dismissed : BOOLEAN]
                   /\ w.key = v.key /\ w.entry = e /\ w.dismissed = b
    OBVIOUS
  <2>2. view \in [key : Account \cup {None}, entry : Entry, dismissed : BOOLEAN] /\ (k \in dismissed') \in BOOLEAN
    BY DEF TypeOK
  <2> DEFINE w == [view EXCEPT !.entry = e, !.dismissed = k \in dismissed']
  <2>3. w \in [key : Account \cup {None}, entry : Entry, dismissed : BOOLEAN]
        /\ w.key = view.key /\ w.entry = e /\ w.dismissed = (k \in dismissed')
    BY <2>1, <2>2
  <2>4. view' = IF view.key = k THEN w ELSE view
    BY DEF Wrote
  <2> QED BY <2>2, <2>3, <2>4
<1>4. dismissed' \subseteq dismissed /\ dismissed \ {k} \subseteq dismissed'
  BY DEF Wrote
<1>5. ShownIsEntry'
  <2>1. view'.key = active'
    BY <1>3 DEF ShownIsEntry
  <2>2. ASSUME active' # None
        PROVE  active' \in DOMAIN entries' /\ view'.entry = entries'[active'] /\ view'.dismissed = (active' \in dismissed')
    <3>1. CASE active = k
      BY <3>1, <1>1, <1>3 DEF ShownIsEntry
    <3>2. CASE active # k
      BY <3>2, <2>2, <1>1, <1>3, <1>4 DEF ShownIsEntry, Has
    <3> QED BY <3>1, <3>2
  <2> QED BY <2>1, <2>2 DEF ShownIsEntry, Has
<1>6. RunningIsArmed'
  <2>1. ASSUME NEW j \in dismissed', j \in DOMAIN entries' PROVE entries'[j].state.phase # "running"
    BY <2>1, <1>1, <1>4 DEF RunningIsArmed, Has
  <2> QED BY <2>1 DEF RunningIsArmed, Has
<1>7. feature # "idling" => /\ \A j \in DOMAIN entries' : entries'[j].owners = Nothing
                            /\ view'.entry.owners = Nothing
  BY <1>1, <1>3 DEF ByFeature
<1> QED BY <1>2, <1>3, <1>4, <1>5, <1>6, <1>7 DEF TypeOK, ByFeature

-----------------------------------------------------------------------------
(* What a step of the backend comes to for the account that is shown. *)
Moved ==
  /\ session' \in [Account -> Session] /\ events' \in Wire /\ Len(events') <= MaxEvents
  /\ claimed' \in [Account -> Report] /\ started' \in 0..MaxCycle
  /\ feature # "idling" => claimed' = claimed
  /\ calm' \in BOOLEAN
  /\ calm' => /\ calm
              /\ \A a \in {active} : Reported(a)' = Reported(a) /\ claimed'[a] = claimed[a]
              /\ \A i \in 1..Len(events') : events'[i].of = active => events'[i].state = Reported(active)

LEMMA EmitAppends ==
  ASSUME TypeOK, NEW k \in Account, NEW s \in Report, Emit(k, s)
  PROVE  /\ events' \in Wire /\ Len(events') <= MaxEvents
         /\ \A i \in 1..Len(events') :
              \/ i \in 1..Len(events) /\ events'[i] = events[i]
              \/ events'[i] = [of |-> k, state |-> s]
<1>1. CASE listening
  <2>1. events' = Append(events, [of |-> k, state |-> s]) /\ Len(events) < MaxEvents /\ events \in Wire
    BY <1>1 DEF Emit, TypeOK, Wire
  <2> QED BY <2>1, ViewsAssumption DEF Wire
<1>2. CASE ~listening
  BY <1>2 DEF Emit, TypeOK, Wire
<1> QED BY <1>1, <1>2

LEMMA BecomesTyped ==
  ASSUME TypeOK, NEW k \in Account, NEW s \in Session, Becomes(k, s)
  PROVE  /\ session' \in [Account -> Session] /\ session'[k] = s
         /\ \A a \in Account \ {k} : session'[a] = session[a]
         /\ calm' = (calm /\ k # active)
BY DEF TypeOK, Becomes

LEMMA ClaimTyped ==
  ASSUME TypeOK, NEW k \in Account, Claim(k)
  PROVE  /\ claimed' \in [Account -> Report] /\ started' = started
         /\ \A a \in Account \ {k} : claimed'[a] = claimed[a]
         /\ calm' = (calm /\ k # active)
<1>1. PICK s \in {Nothing} \cup {Running(n) : n \in 1..MaxSets} :
        claimed' = [claimed EXCEPT ![k] = s]
  BY DEF Claim
<1>2. s \in Report
  BY NothingTyped, ViewsAssumption DEF Running, Report, Session
<1> QED BY <1>1, <1>2 DEF Claim, TypeOK

(* A step of the backend that is about k alone, and calms nothing. *)
LEMMA Moves ==
  ASSUME TypeOK, CalmCarries, NEW k \in Account, NEW t \in Report,
         session' \in [Account -> Session], \A a \in Account \ {k} : session'[a] = session[a],
         claimed' \in [Account -> Report], \A a \in Account \ {k} : claimed'[a] = claimed[a],
         started' \in 0..MaxCycle, feature # "idling" => claimed' = claimed,
         Emit(k, t) \/ UNCHANGED events, calm' = (calm /\ k # active)
  PROVE  Moved /\ (calm' => k # active)
<1>1. /\ events' \in Wire /\ Len(events') <= MaxEvents
      /\ \A i \in 1..Len(events') : \/ i \in 1..Len(events) /\ events'[i] = events[i]
                                    \/ events'[i] = [of |-> k, state |-> t]
  <2>1. CASE Emit(k, t)
    BY <2>1, EmitAppends
  <2>2. CASE UNCHANGED events
    BY <2>2 DEF TypeOK, Wire
  <2> QED BY <2>1, <2>2
<1>2. calm \in BOOLEAN /\ calm' \in BOOLEAN
  BY DEF TypeOK
<1>3. ASSUME calm' PROVE active \in Account /\ active # k
  BY <1>2, <1>3 DEF CalmCarries, TypeOK
<1>4. ASSUME calm'
      PROVE  /\ calm
             /\ \A a \in {active} : Reported(a)' = Reported(a) /\ claimed'[a] = claimed[a]
             /\ \A i \in 1..Len(events') : events'[i].of = active => events'[i].state = Reported(active)
  BY <1>1, <1>2, <1>3, <1>4 DEF CalmCarries, Reported
<1> QED BY <1>1, <1>2, <1>3, <1>4 DEF Moved

LEMMA BecomesMoves ==
  ASSUME TypeOK, CalmCarries, NEW k \in Account, NEW s \in Session, Becomes(k, s),
         UNCHANGED claimed, started' \in 0..MaxCycle,
         NEW t \in Report, Emit(k, t) \/ UNCHANGED events
  PROVE  Moved /\ (calm' => k # active)
<1>1. claimed' \in [Account -> Report] /\ \A a \in Account \ {k} : claimed'[a] = claimed[a]
  BY DEF TypeOK
<1> QED BY <1>1, BecomesTyped, Moves

LEMMA BeginMoves ==
  ASSUME TypeOK, CalmCarries, NEW k \in Account, Begin(k)
  PROVE  Moved /\ session'[k] \in Report /\ (calm' => k # active)
<1>1. Becomes(k, Running(started')) /\ started' \in 1..MaxCycle /\ UNCHANGED <<claimed, events>>
  BY ViewsAssumption DEF Begin, TypeOK
<1>2. Running(started') \in Session /\ Running(started') \in Report
  BY <1>1, ViewsAssumption DEF Running, Session, Report
<1>3. \A s \in {Running(started')} : Becomes(k, s) /\ s \in Session
  BY <1>1, <1>2
<1>4. session'[k] = Running(started') /\ started' \in 0..MaxCycle
  BY <1>1, <1>3, BecomesTyped
<1>5. Nothing \in Report
  BY NothingTyped
<1> QED BY <1>1, <1>2, <1>3, <1>4, <1>5, BecomesMoves

(* Idling's owners claim, and the backend takes what they claim. *)
LEMMA AnnounceMoves ==
  ASSUME TypeOK, CalmCarries, feature = "idling", NEW k \in Account,
         Claim(k) \/ (UNCHANGED <<claimed, started>> /\ calm' = (calm /\ k # active)),
         Announce(k) \/ UNCHANGED <<session, events>>
  PROVE  /\ Moved /\ (calm' => k # active)
         /\ claimed'[k] \in Report /\ (Announce(k) => session'[k] \in Report)
<1>1. /\ claimed' \in [Account -> Report] /\ started' \in 0..MaxCycle
      /\ \A a \in Account \ {k} : claimed'[a] = claimed[a]
      /\ calm' = (calm /\ k # active)
  BY ClaimTyped DEF TypeOK
<1>2. claimed'[k] \in Report /\ claimed'[k] \in Session /\ Nothing \in Report
  BY <1>1, NothingTyped DEF Report
<1>3. CASE Announce(k)
  <2>1. \A s \in {claimed'[k]} : s \in Session /\ s \in Report /\ Becomes(k, s) /\ Emit(k, s)
    BY <1>2, <1>3 DEF Announce
  <2>2. /\ session' \in [Account -> Session] /\ session'[k] = claimed'[k]
        /\ \A a \in Account \ {k} : session'[a] = session[a]
    BY <2>1, BecomesTyped
  <2> QED BY <1>1, <1>2, <2>1, <2>2, Moves
<1>4. CASE UNCHANGED <<session, events>> /\ ~Announce(k)
  <2>1. session' \in [Account -> Session] /\ \A a \in Account \ {k} : session'[a] = session[a]
    BY <1>4 DEF TypeOK
  <2> QED BY <1>1, <1>2, <1>4, <2>1, Moves
<1> QED BY <1>3, <1>4

(* Steps that leave the store and the page alone. *)
LEMMA MovedKeeps ==
  ASSUME IInv, Moved, UNCHANGED <<feature, store, page>>,
         calls' \subseteq Call,
         feature # "idling" => \A c \in calls' : c.what \in {"route", "read", "start"},
         calm' => /\ \A c \in calls' : c.of = active /\ c.answer # None => c.answer = Truth(c.what)
                  /\ \A w \in {"read", "claims"} :
                       (\A c \in calls' : c.of = active => c.what # w)
                         => \A c \in calls : c.of = active => c.what # w
  PROVE  IInv'
<1>1. TypeOK' /\ ShownIsEntry' /\ RunningIsArmed' /\ ByFeature'
  BY DEF IInv, TypeOK, ShownIsEntry, RunningIsArmed, ByFeature, Moved, Wire, store, page, Has
<1>2. ASSUME calm'
      PROVE  /\ active # None
             /\ \A a \in {active} : Reported(a)' = Reported(a) /\ claimed'[a] = claimed[a]
             /\ (\A c \in calls' : c.of = active => c.what # "read") => view.entry.state = Reported(active)
             /\ feature = "idling" /\ (\A c \in calls' : c.of = active => c.what \notin {"read", "claims"})
                  => view.entry.owners = claimed[active]
  BY <1>2 DEF IInv, Moved, CalmCarries
<1>3. CalmCarries'
  BY <1>2 DEF CalmCarries, Truth, Moved, store, page
<1> QED BY <1>1, <1>3 DEF IInv

LEMMA BackendKeeps ==
  ASSUME IInv, NEW k \in Account, Backend(k)
  PROVE  IInv'
<1> USE DEF IInv
<1>1. ASSUME Moved, UNCHANGED <<feature, store, page, calls>> PROVE IInv'
  <2>1. calm' => calm
    BY <1>1 DEF Moved
  <2>2. calm' => \A c \in calls' : c.of = active /\ c.answer # None => c.answer = Truth(c.what)
    BY <1>1, <2>1 DEF CalmCarries
  <2> QED BY <1>1, <2>2, MovedKeeps DEF TypeOK, ByFeature
<1>2. session[k] \in Session /\ started \in 0..MaxCycle /\ Nothing \in Report /\ Nothing \in Session
  BY NothingTyped DEF TypeOK, Report
<1>3. CASE Reclaims(k)
  <2>1. feature = "idling" /\ Claim(k) /\ UNCHANGED <<session, events>>
    BY <1>3 DEF Reclaims
  <2> QED BY <1>1, <1>3, <2>1, AnnounceMoves DEF Reclaims
<1>4. CASE Idles(k)
  <2>1. feature = "idling" /\ UNCHANGED <<claimed, started>> /\ Announce(k) /\ calm' = (calm /\ k # active)
    BY <1>4 DEF Idles, Announce, Becomes
  <2> QED BY <1>1, <1>4, <2>1, AnnounceMoves DEF Idles
<1>5. CASE Exits(k)
  BY <1>1, <1>2, <1>5, BecomesMoves DEF Exits
<1>6. CASE Begins(k)
  BY <1>1, <1>6, BeginMoves DEF Begins
<1>7. CASE Ends(k)
  <2> DEFINE s == [session[k] EXCEPT !.phase = "finished"]
  <2>1. s \in Session /\ s \in Report
    BY <1>2 DEF Session, Report
  <2>2. Becomes(k, s) /\ Emit(k, session'[k])
    BY <1>7 DEF Ends
  <2> HIDE DEF s
  <2>3. session'[k] = s
    BY <2>1, <2>2, BecomesTyped
  <2>4. Emit(k, s)
    BY <2>2, <2>3 DEF Emit
  <2>5. Moved
    BY <1>2, <1>7, <2>1, <2>2, <2>4, BecomesMoves DEF Ends
  <2> QED BY <1>1, <1>7, <2>5 DEF Ends
<1>8. CASE Progresses(k)
  <2>1. session[k] \in Report /\ Reported(k) = session[k]
    BY <1>2, <1>8 DEF Progresses, Report, Reported
  <2>2. /\ events' \in Wire /\ Len(events') <= MaxEvents
        /\ \A i \in 1..Len(events') : \/ i \in 1..Len(events) /\ events'[i] = events[i]
                                      \/ events'[i] = [of |-> k, state |-> session[k]]
    BY <1>8, <2>1, EmitAppends DEF Progresses
  <2>3. Moved
    BY <1>8, <2>1, <2>2 DEF Progresses, Moved, CalmCarries, TypeOK, Reported, backend
  <2> QED BY <1>1, <1>8, <2>3 DEF Progresses
<1>9. CASE Stops(k)
  <2> DEFINE s == [session[k] EXCEPT !.phase = "stopping"]
  <2>1. s \in Session /\ Becomes(k, s)
    BY <1>2, <1>9 DEF Stops, Session
  <2> HIDE DEF s
  <2>2. Moved
    BY <1>2, <1>9, <2>1, BecomesMoves DEF Stops
  <2> QED BY <1>1, <1>9, <2>2 DEF Stops
<1>10. CASE StopEnds(k)
  <2> DEFINE t == [session[k] EXCEPT !.phase = "finished"]
  <2>1. t \in Report /\ Emit(k, t) /\ Becomes(k, Nothing)
    BY <1>2, <1>10 DEF StopEnds, Report, Session
  <2> HIDE DEF t
  <2>2. Moved
    BY <1>2, <1>10, <2>1, BecomesMoves DEF StopEnds
  <2> QED BY <1>1, <1>10, <2>2 DEF StopEnds
<1>11. CASE Removed(k)
  BY <1>1, <1>2, <1>11, BecomesMoves DEF Removed
<1> QED BY <1>3, <1>4, <1>5, <1>6, <1>7, <1>8, <1>9, <1>10, <1>11 DEF Backend

-----------------------------------------------------------------------------
LEMMA CallTyped ==
  ASSUME TypeOK, NEW c \in calls
  PROVE  /\ c \in Call /\ c.of \in Account /\ c.answer \in Report \cup {None}
         /\ Reported(c.of) \in Report /\ claimed[c.of] \in Report
BY NothingTyped DEF TypeOK, Call, Reported, Report

LEMMA AnsweredCalls ==
  ASSUME TypeOK, NEW c \in calls, NEW s \in Report, calls' = Answered(c, s)
  PROVE  /\ calls' \subseteq Call
         /\ \A d \in calls' : d \in calls \/ (d.of = c.of /\ d.what = c.what /\ d.answer = s)
         /\ \A d \in calls : \E e \in calls' : e.of = d.of /\ e.what = d.what
<1> DEFINE d == [c EXCEPT !.answer = s]
<1>1. d \in Call /\ d.of = c.of /\ d.what = c.what /\ d.answer = s
  BY CallTyped DEF Call
<1>2. calls' = (calls \ {c}) \cup {d}
  BY DEF Answered
<1> QED BY <1>1, <1>2 DEF TypeOK

LEMMA ServeKeeps ==
  ASSUME IInv, NEW c \in calls, ServeRead(c) \/ ServeToggle(c) \/ ServeStart(c) \/ ServeAutoIdle(c)
  PROVE  IInv'
<1> USE DEF IInv
<1>1. /\ c \in Call /\ c.of \in Account /\ c.answer \in Report \cup {None}
      /\ Reported(c.of) \in Report /\ claimed[c.of] \in Report
  BY CallTyped
<1>2. ASSUME Moved, UNCHANGED <<feature, store, page>>, NEW s \in Report, calls' = Answered(c, s),
             (calm' /\ c.of = active) => s = Truth(c.what)
      PROVE  IInv'
  <2>1. /\ calls' \subseteq Call
        /\ \A d \in calls' : d \in calls \/ (d.of = c.of /\ d.what = c.what /\ d.answer = s)
        /\ \A d \in calls : \E e \in calls' : e.of = d.of /\ e.what = d.what
    BY <1>2, AnsweredCalls
  <2>2. calm' => calm
    BY <1>2 DEF Moved
  <2>3. calm' => \A d \in calls' : d.of = active /\ d.answer # None => d.answer = Truth(d.what)
    BY <1>2, <2>1, <2>2 DEF CalmCarries
  <2>4. feature # "idling" => \A d \in calls' : d.what \in {"route", "read", "start"}
    BY <2>1 DEF ByFeature
  <2> QED BY <1>2, <2>1, <2>3, <2>4, MovedKeeps
<1>3. ASSUME UNCHANGED <<backend, events, calm>> PROVE Moved
  BY <1>3 DEF Moved, CalmCarries, TypeOK, Wire, Reported, backend
<1>4. CASE ServeRead(c)
  <2> DEFINE s == IF c.what = "claims" THEN claimed[c.of] ELSE Reported(c.of)
  <2>1. UNCHANGED <<feature, store, page>> /\ calls' = Answered(c, s) /\ UNCHANGED <<backend, events, calm>>
    BY <1>4 DEF ServeRead
  <2>2. s \in Report /\ (c.of = active => s = Truth(c.what))
    BY <1>1 DEF Truth
  <2> HIDE DEF s
  <2> QED BY <1>2, <1>3, <2>1, <2>2
<1>5. CASE ServeToggle(c)
  <2>1. UNCHANGED <<feature, store, page>> /\ calls' = (calls \ {c}) \cup {Ask(c.of, "refresh")}
        /\ c.what = "command"
    BY <1>5 DEF ServeToggle
  <2>2. /\ Ask(c.of, "refresh") \in Call /\ Ask(c.of, "refresh").answer = None
        /\ feature = "idling"
    BY <1>1, <2>1 DEF Ask, Call, ByFeature
  <2>3. Moved
    BY <1>1, <1>3, <1>5, <2>2, AnnounceMoves DEF ServeToggle
  <2>4. calm' => calm
    BY <2>3 DEF Moved
  <2>5. calm' => \A d \in calls' : d.of = active /\ d.answer # None => d.answer = Truth(d.what)
    BY <2>1, <2>2, <2>4 DEF CalmCarries
  <2>6. \A w \in {"read", "claims"} : (\A d \in calls' : d.of = active => d.what # w)
                                       => \A d \in calls : d.of = active => d.what # w
    BY <2>1
  <2> QED BY <2>1, <2>2, <2>3, <2>5, <2>6, MovedKeeps DEF TypeOK
<1>6. CASE ServeStart(c)
  <2>1. UNCHANGED <<feature, store, page>> /\ calls' = Answered(c, session'[c.of]) /\ c.what = "start"
    BY <1>6 DEF ServeStart
  <2>2. CASE Begin(c.of)
    <3>1. Moved /\ session'[c.of] \in Report /\ (calm' => c.of # active)
      BY <1>1, <2>2, BeginMoves
    <3> QED BY <1>2, <2>1, <3>1
  <2>3. CASE session[c.of].phase \notin {"none", "stopping"} /\ UNCHANGED <<backend, events, calm>>
    <3>1. session'[c.of] \in Report /\ session'[c.of] = Reported(c.of)
      BY <1>1, <2>3 DEF TypeOK, Report, Reported, backend
    <3>2. c.of = active => session'[c.of] = Truth(c.what)
      BY <2>1, <3>1 DEF Truth
    <3> QED BY <1>2, <1>3, <2>1, <2>3, <3>1, <3>2
  <2> QED BY <1>6, <2>2, <2>3 DEF ServeStart
<1>7. CASE ServeAutoIdle(c)
  <2>1. /\ UNCHANGED <<feature, store, page>> /\ feature = "idling" /\ c.what = "start"
        /\ calm' = (calm /\ c.of # active)
        /\ Claim(c.of) \/ UNCHANGED <<claimed, started>>
        /\ \/ Announce(c.of) /\ calls' = Answered(c, session'[c.of])
           \/ calls' = Answered(c, claimed'[c.of]) /\ UNCHANGED <<session, events>>
    BY <1>7 DEF ServeAutoIdle
  <2>2. /\ Moved /\ (calm' => c.of # active)
        /\ claimed'[c.of] \in Report /\ (Announce(c.of) => session'[c.of] \in Report)
    BY <1>1, <2>1, AnnounceMoves
  <2> QED BY <1>2, <2>1, <2>2
<1> QED BY <1>4, <1>5, <1>6, <1>7

-----------------------------------------------------------------------------
(* Steps that write one entry. *)
LEMMA StoreKeeps ==
  ASSUME IInv, NEW k \in Account, NEW e \in Entry, Wrote(k, e),
         e.state.phase = "running" => k \notin dismissed',
         feature # "idling" => e.owners = Nothing,
         UNCHANGED <<feature, backend, page, calm>>,
         calls' \subseteq Call,
         feature # "idling" => \A c \in calls' : c.what \in {"route", "read", "start"},
         events' \in Wire, Len(events') <= MaxEvents,
         \A i \in 1..Len(events') : \E j \in 1..Len(events) : events'[i] = events[j],
         \A c \in calls' : c \in calls \/ c.answer = None,
         calm /\ k = active =>
           /\ (\A c \in calls' : c.of = active => c.what # "read") => e.state = Reported(active)
           /\ feature = "idling" /\ (\A c \in calls' : c.of = active => c.what \notin {"read", "claims"})
                => e.owners = claimed[active],
         k # active => \A c \in calls : c.of = active => c \in calls'
  PROVE  IInv'
<1> USE DEF IInv
<1>1. active' = active /\ feature' = feature /\ calm' = calm
  BY DEF page
<1>2. /\ DOMAIN entries' \subseteq Account /\ \A j \in DOMAIN entries' : entries'[j] \in Entry
      /\ view' \in [key : Account \cup {None}, entry : Entry, dismissed : BOOLEAN]
      /\ dismissed' \subseteq Account
      /\ ShownIsEntry' /\ RunningIsArmed'
      /\ feature # "idling" => /\ \A j \in DOMAIN entries' : entries'[j].owners = Nothing
                               /\ view'.entry.owners = Nothing
      /\ feature = "idling" => dismissed' = {}
      /\ view'.key = k => view'.entry = e
      /\ view'.key # k => view' = view
  BY <1>1, WriteKeeps
<1>3. TypeOK' /\ ByFeature'
  BY <1>1, <1>2 DEF TypeOK, ByFeature, page, backend, Wire
<1>4. CalmCarries'
  <2> SUFFICES ASSUME calm
               PROVE  /\ active # None
                      /\ \A c \in calls' : c.of = active /\ c.answer # None => c.answer = Truth(c.what)
                      /\ \A i \in 1..Len(events') : events'[i].of = active => events'[i].state = Reported(active)
                      /\ (\A c \in calls' : c.of = active => c.what # "read")
                           => view'.entry.state = Reported(active)
                      /\ feature = "idling" /\ (\A c \in calls' : c.of = active => c.what \notin {"read", "claims"})
                           => view'.entry.owners = claimed[active]
    BY <1>1 DEF CalmCarries, Truth, Reported, backend
  <2>1. view'.key = active
    BY <1>1, <1>2 DEF ShownIsEntry
  <2>2. CASE k = active
    BY <2>1, <2>2, <1>2 DEF CalmCarries
  <2>3. CASE k # active
    BY <2>1, <2>3, <1>2 DEF CalmCarries
  <2> QED BY <2>2, <2>3
<1> QED BY <1>2, <1>3, <1>4

LEMMA FollowTyped ==
  ASSUME NEW k \in Account
  PROVE  /\ Follow(k) \subseteq Call
         /\ \A c \in Follow(k) : c.of = k /\ c.what = "claims" /\ c.answer = None
         /\ feature = "idling" => Ask(k, "claims") \in Follow(k) /\ Ask(k, "claims").of = k
                                  /\ Ask(k, "claims").what = "claims"
         /\ feature # "idling" => Follow(k) = {}
BY DEF Follow, Ask, Call

LEMMA UpdateKeeps ==
  ASSUME IInv, NEW k \in Account, NEW s \in Report, Update(k, s), calm /\ k = active => s = Reported(active),
         UNCHANGED <<feature, backend, page, calm>>,
         NEW left \in SUBSET calls, calls' = left \cup Follow(k),
         k # active => \A c \in calls : c.of = active => c \in left,
         events' \in Wire, Len(events') <= MaxEvents,
         \A i \in 1..Len(events') : \E j \in 1..Len(events) : events'[i] = events[j]
  PROVE  IInv'
<1> USE DEF IInv
<1>1. PICK e \in Entry : /\ Wrote(k, e) /\ e.state = s
                         /\ e.owners = IF feature = "idling" THEN Of(k).owners ELSE Nothing
                         /\ feature # "idling" /\ s.phase = "running" => k \notin dismissed'
  BY UpdateWrites
<1>2. /\ calls' \subseteq Call
      /\ feature # "idling" => \A c \in calls' : c.what \in {"route", "read", "start"}
      /\ \A c \in calls' : c \in calls \/ c.answer = None
      /\ feature = "idling" => \E c \in calls' : c.of = k /\ c.what = "claims"
      /\ k # active => \A c \in calls : c.of = active => c \in calls'
  BY FollowTyped DEF TypeOK, ByFeature
<1>3. feature = "idling" => dismissed' = {}
  BY <1>1 DEF Wrote, ByFeature
<1> QED BY <1>1, <1>2, <1>3, StoreKeeps

LEMMA ReturnKeeps ==
  ASSUME IInv, NEW c \in calls, Return(c)
  PROVE  IInv'
<1> USE DEF IInv
<1>1. c \in Call /\ c.of \in Account /\ c.answer \in Report
  BY CallTyped DEF Return
<1>2. calm /\ c.of = active => c.answer = Truth(c.what)
  BY DEF CalmCarries, Return
<1>3. /\ UNCHANGED <<feature, backend, page, calm>> /\ events' \in Wire /\ Len(events') <= MaxEvents
      /\ \A i \in 1..Len(events') : \E j \in 1..Len(events) : events'[i] = events[j]
  BY DEF Return, TypeOK, Wire
<1>4. CASE c.what # "claims"
  <2>1. Update(c.of, c.answer) /\ calls' = (calls \ {c}) \cup Follow(c.of)
    BY <1>4 DEF Return
  <2>2. calls \ {c} \in SUBSET calls /\ (c.of # active => \A d \in calls : d.of = active => d \in calls \ {c})
    OBVIOUS
  <2>3. calm /\ c.of = active => c.answer = Reported(active)
    BY <1>2, <1>4 DEF Truth
  <2> QED BY <1>1, <1>2, <1>3, <2>1, <2>2, <2>3, UpdateKeeps
<1>5. CASE c.what = "claims"
  <2> DEFINE e == [Of(c.of) EXCEPT !.owners = c.answer]
  <2>1. Store(c.of, e, dismissed) /\ calls' = calls \ {c}
    BY <1>5 DEF Return, SetClaimsByOwner
  <2>2. Of(c.of) \in Entry /\ feature = "idling" /\ dismissed = {}
    BY <1>1, <1>5, OfTyped DEF ByFeature
  <2>3. e \in Entry /\ e.state = Of(c.of).state /\ e.owners = c.answer
    BY <1>1, <2>2 DEF Entry
  <2>4. Wrote(c.of, e) /\ dismissed' = {}
    BY <2>1, <2>2 DEF Store, Wrote
  <2>5. calm /\ c.of = active => Of(c.of) = view.entry
    BY DEF ShownIsEntry, Of, CalmCarries
  <2>6. calm /\ c.of = active =>
          /\ (\A d \in calls' : d.of = active => d.what # "read") => e.state = Reported(active)
          /\ e.owners = claimed[active]
    BY <1>2, <1>5, <2>1, <2>3, <2>5 DEF CalmCarries, Truth
  <2>7. /\ calls' \subseteq Call /\ \A d \in calls' : d \in calls \/ d.answer = None
        /\ c.of # active => \A d \in calls : d.of = active => d \in calls'
    BY <2>1 DEF TypeOK
  <2> QED BY <1>1, <1>3, <2>2, <2>3, <2>4, <2>6, <2>7, StoreKeeps
<1> QED BY <1>4, <1>5

LEMMA DeliverKeeps ==
  ASSUME IInv, Deliver
  PROVE  IInv'
<1> USE DEF IInv
<1> DEFINE e == Head(events)
<1>1. events \in Wire /\ events # <<>> /\ events' = Tail(events) /\ UNCHANGED <<feature, backend, page, calm>>
  BY DEF Deliver, TypeOK, Wire
<1>2. e = events[1] /\ 1 \in 1..Len(events) /\ e.of \in Account /\ e.state \in Report
  <2>1. e = events[1] /\ 1 \in 1..Len(events)
    BY <1>1 DEF Wire
  <2>2. e \in [of : Account, state : Report]
    BY <1>1, HeadTailProperties DEF Wire
  <2> QED BY <2>1, <2>2
<1>3. /\ events' \in Wire /\ Len(events') <= MaxEvents
      /\ \A i \in 1..Len(events') : i + 1 \in 1..Len(events) /\ events'[i] = events[i + 1]
  <2>1. /\ events' \in Wire /\ Len(events') = Len(events) - 1
        /\ \A i \in 1..Len(events') : events'[i] = events[i + 1]
    BY <1>1, HeadTailProperties DEF Wire
  <2>2. Len(events) \in Nat /\ Len(events) <= MaxEvents
    BY <1>1 DEF Wire, TypeOK
  <2> QED BY <2>1, <2>2, ViewsAssumption
<1>4. \A i \in 1..Len(events') : \E j \in 1..Len(events) : events'[i] = events[j]
  BY <1>3
<1>5. CASE Routed(e.of)
  <2>1. Update(e.of, e.state) /\ calls' = calls \cup Follow(e.of)
    BY <1>5 DEF Deliver
  <2>2. calm /\ e.of = active => e.state = Reported(active)
    BY <1>2 DEF CalmCarries
  <2> QED BY <1>1, <1>2, <1>3, <1>4, <2>1, <2>2, UpdateKeeps
<1>6. CASE ~Routed(e.of)
  <2>1. UNCHANGED <<store, calls>>
    BY <1>6 DEF Deliver
  <2>2. Moved
    BY <1>1, <1>3, <1>4 DEF Moved, CalmCarries, TypeOK, Reported, backend
  <2>3. calm' => \A c \in calls' : c.of = active /\ c.answer # None => c.answer = Truth(c.what)
    BY <1>1, <2>1 DEF CalmCarries
  <2> QED BY <1>1, <2>1, <2>2, <2>3, MovedKeeps DEF TypeOK, ByFeature
<1> QED BY <1>5, <1>6

-----------------------------------------------------------------------------
(* Steps that leave the store alone. *)
LEMMA ResolveKeeps ==
  ASSUME IInv, NEW c \in calls, Resolve(c)
  PROVE  IInv'
<1> USE DEF IInv
<1>1. /\ calls' = calls \ {c} /\ routed' = routed \cup {c.of} /\ c.what = "route" /\ c.of \in Account
      /\ UNCHANGED <<feature, session, claimed, started, entries, view, dismissed, signed, active, listening, events, calm>>
  BY CallTyped DEF Resolve, store, backend
<1>2. TypeOK' /\ ByFeature'
  BY <1>1 DEF TypeOK, ByFeature
<1>3. ShownIsEntry' /\ RunningIsArmed'
  BY <1>1 DEF ShownIsEntry, RunningIsArmed, Has
<1>4. CalmCarries'
  BY <1>1 DEF CalmCarries, Truth, Reported, backend
<1> QED BY <1>2, <1>3, <1>4

LEMMA FailKeeps ==
  ASSUME IInv, NEW c \in calls, Fail(c)
  PROVE  IInv'
<1> USE DEF IInv
<1>1. /\ calls' = calls \ {c}
      /\ calm' = (calm /\ (c.of = active => c.what \notin {"read", "claims"}))
      /\ UNCHANGED <<feature, session, claimed, started, entries, view, dismissed, signed, active, routed, listening, events>>
  BY DEF Fail, store, backend, page
<1>2. TypeOK' /\ ByFeature'
  BY <1>1 DEF TypeOK, ByFeature
<1>3. ShownIsEntry' /\ RunningIsArmed'
  BY <1>1 DEF ShownIsEntry, RunningIsArmed, Has
<1>4. CalmCarries'
  BY <1>1 DEF CalmCarries, Truth, Reported, backend
<1> QED BY <1>2, <1>3, <1>4

LEMMA ListenKeeps ==
  ASSUME IInv, Listen
  PROVE  IInv'
<1> USE DEF IInv
<1>1. listening' \in BOOLEAN
      /\ UNCHANGED <<feature, session, claimed, started, entries, view, dismissed, signed, active, routed, events, calls, calm>>
  BY DEF Listen, store, backend
<1>2. TypeOK' /\ ByFeature'
  BY <1>1 DEF TypeOK, ByFeature
<1>3. ShownIsEntry' /\ RunningIsArmed' /\ CalmCarries'
  BY <1>1 DEF ShownIsEntry, RunningIsArmed, Has, CalmCarries, Truth, Reported
<1> QED BY <1>2, <1>3

LEMMA AsksKeeps ==
  ASSUME IInv, NEW what \in {"command", "start"}, Asks(what), feature # "idling" => what = "start"
  PROVE  IInv'
<1> USE DEF IInv
<1> DEFINE n == Ask(active, what)
<1>1. /\ calls' = calls \cup {n}
      /\ UNCHANGED <<feature, session, claimed, started, entries, view, dismissed, signed, active, routed, listening, events, calm>>
  BY DEF Asks, store, backend, page
<1>2. n \in Call /\ n.of = active /\ n.what = what /\ n.answer = None
  BY DEF Ask, Call, Asks, TypeOK
<1>3. TypeOK' /\ ByFeature'
  BY <1>1, <1>2 DEF TypeOK, ByFeature
<1>4. ShownIsEntry' /\ RunningIsArmed'
  BY <1>1 DEF ShownIsEntry, RunningIsArmed, Has
<1>5. CalmCarries'
  BY <1>1, <1>2 DEF CalmCarries, Truth, Reported, backend
<1> QED BY <1>3, <1>4, <1>5

LEMMA DismissKeeps ==
  ASSUME IInv, DismissFinished
  PROVE  IInv'
<1> USE DEF IInv
<1>1. /\ feature # "idling" /\ active # None /\ view.entry.state.phase = "finished"
      /\ dismissed' = dismissed \cup {active} /\ view' = [view EXCEPT !.dismissed = TRUE]
      /\ UNCHANGED <<feature, session, claimed, started, entries, signed, active, routed, listening, events, calls, calm>>
  BY DEF DismissFinished, backend, page
<1>2. view'.key = view.key /\ view'.entry = view.entry /\ view'.dismissed = TRUE
      /\ view' \in [key : Account \cup {None}, entry : Entry, dismissed : BOOLEAN]
  BY <1>1 DEF TypeOK
<1>3. active \in Account /\ Has(active) /\ view.entry = entries[active] /\ view.key = active
  BY <1>1 DEF TypeOK, ShownIsEntry
<1>4. TypeOK' /\ ByFeature'
  BY <1>1, <1>2, <1>3 DEF TypeOK, ByFeature
<1>5. ShownIsEntry'
  BY <1>1, <1>2, <1>3 DEF ShownIsEntry, Has
<1>6. RunningIsArmed'
  <2>1. entries[active].state.phase # "running"
    BY <1>1, <1>3
  <2> QED BY <1>1, <2>1 DEF RunningIsArmed, Has
<1>7. CalmCarries'
  BY <1>1, <1>2 DEF CalmCarries, Truth, Reported, backend
<1> QED BY <1>4, <1>5, <1>6, <1>7

-----------------------------------------------------------------------------
(* The active account changes. *)
LEMMA SyncAsks ==
  ASSUME TypeOK, ByFeature, NEW k \in Account,
         CASE feature = "idling" -> IdlingSync(k)
           [] feature = "farming" -> FarmingSync(k)
           [] feature = "unlocker" -> UnlockerSync(k)
  PROVE  /\ calls' \subseteq Call
         /\ feature # "idling" => \A c \in calls' : c.what \in {"route", "read", "start"}
         /\ \A c \in calls' : (c \in calls /\ ~Guarded(c)) \/ (c.of = k /\ c.answer = None)
         /\ \E c \in calls' : c.of = k /\ c.what = "read"
         /\ listening' = FALSE /\ events' = <<>>
<1> DEFINE new == IF feature = "idling" THEN {Ask(k, "read")} ELSE {Ask(k, "route"), Ask(k, "read")}
<1>1. Resync(new)
  BY DEF IdlingSync, FarmingSync, UnlockerSync, TypeOK, Feature
<1>2. calls' = {c \in calls : ~Guarded(c)} \cup new /\ listening' = FALSE /\ events' = <<>>
  BY <1>1 DEF Resync
<1>3. /\ \A c \in new : c \in Call /\ c.of = k /\ c.answer = None /\ c.what \in {"route", "read"}
      /\ \E c \in new : c.of = k /\ c.what = "read"
  <2>1. \A w \in {"route", "read"} : Ask(k, w) \in Call /\ Ask(k, w).of = k /\ Ask(k, w).answer = None /\ Ask(k, w).what = w
    BY DEF Ask, Call
  <2> QED BY <2>1
<1> HIDE DEF new
<1> QED BY <1>2, <1>3 DEF TypeOK, ByFeature

LEMMA ActivateKeeps ==
  ASSUME IInv, NEW k \in Account, NEW es, NEW d \in SUBSET Account,
         DOMAIN es \subseteq DOMAIN entries, \A j \in DOMAIN es : es[j] = entries[j],
         d \subseteq dismissed,
         Activate(k, es, d), UNCHANGED <<feature, backend, routed>>,
         k \in signed', signed' \subseteq Account
  PROVE  IInv'
<1> USE DEF IInv
<1> DEFINE e == IF k \in DOMAIN es THEN es[k] ELSE Blank
<1>1. /\ active' = k /\ dismissed' = d /\ view' = [key |-> k, entry |-> e, dismissed |-> k \in d]
      /\ entries' = [j \in DOMAIN es \cup {k} |-> IF j = k THEN e ELSE es[j]]
      /\ calm' = ~\E c \in calls : c.of = k /\ ~Guarded(c)
  BY DEF Activate, SetActiveAccount
<1>2. /\ calls' \subseteq Call
      /\ feature # "idling" => \A c \in calls' : c.what \in {"route", "read", "start"}
      /\ \A c \in calls' : (c \in calls /\ ~Guarded(c)) \/ (c.of = k /\ c.answer = None)
      /\ \E c \in calls' : c.of = k /\ c.what = "read"
      /\ listening' = FALSE /\ events' = <<>>
  BY SyncAsks DEF Activate
<1>3. e \in Entry /\ (feature # "idling" => e.owners = Nothing) /\ (k \in d => e.state.phase # "running")
  BY NothingTyped DEF TypeOK, ByFeature, Blank, RunningIsArmed, Has
<1>4. k # None
  BY ViewsAssumption
<1>5. /\ DOMAIN entries' = DOMAIN es \cup {k} /\ entries'[k] = e
      /\ \A j \in DOMAIN es : j # k => entries'[j] = entries[j]
  BY <1>1
<1> HIDE DEF e
<1>6. view' \in [key : Account \cup {None}, entry : Entry, dismissed : BOOLEAN]
      /\ view'.key = k /\ view'.entry = e /\ view'.dismissed = (k \in d)
  BY <1>1, <1>3
<1>7. TypeOK'
  <2>1. events' \in Wire /\ Len(events') <= MaxEvents
    BY <1>2, ViewsAssumption DEF Wire
  <2>2. DOMAIN entries' \subseteq Account /\ \A j \in DOMAIN entries' : entries'[j] \in Entry
    BY <1>3, <1>5 DEF TypeOK
  <2>3. calm' \in BOOLEAN /\ active' \in signed' \cup {None}
    BY <1>1
  <2> QED BY <1>1, <1>2, <1>6, <2>1, <2>2, <2>3 DEF TypeOK, Wire, backend
<1>8. ShownIsEntry'
  BY <1>1, <1>4, <1>5, <1>6 DEF ShownIsEntry, Has
<1>9. RunningIsArmed'
  BY <1>1, <1>3, <1>5 DEF RunningIsArmed, Has
<1>10. ByFeature'
  BY <1>1, <1>2, <1>3, <1>5, <1>6 DEF ByFeature, backend
<1>11. CalmCarries'
  <2>1. ASSUME calm', NEW c \in calls', c.of = k PROVE c.answer = None
    BY <1>1, <1>2, <2>1
  <2>2. calm' => \A c \in calls' : c.of = active' /\ c.answer # None => FALSE
    BY <1>1, <2>1
  <2>3. active' # None /\ Len(events') = 0 /\ ~(\A c \in calls' : c.of = active' => c.what # "read")
        /\ ~(\A c \in calls' : c.of = active' => c.what \notin {"read", "claims"})
    BY <1>1, <1>2, <1>4
  <2>4. 1..Len(events') = {}
    BY <2>3
  <2> QED BY <2>2, <2>3, <2>4 DEF CalmCarries
<1> QED BY <1>7, <1>8, <1>9, <1>10, <1>11

LEMMA SignInKeeps ==
  ASSUME IInv, NEW k \in Account, SignIn(k)
  PROVE  IInv'
<1>1. /\ Activate(k, entries, dismissed) /\ UNCHANGED <<feature, backend, routed>>
      /\ signed' = signed \cup {k} /\ signed \subseteq Account /\ dismissed \subseteq Account
  BY DEF SignIn, IInv, TypeOK
<1> QED BY <1>1, ActivateKeeps

LEMMA SwitchKeeps ==
  ASSUME IInv, NEW k \in Account, Switch(k)
  PROVE  IInv'
<1>1. /\ Activate(k, entries, dismissed) /\ UNCHANGED <<feature, backend, routed>>
      /\ signed' = signed /\ k \in signed /\ signed \subseteq Account /\ dismissed \subseteq Account
  BY DEF Switch, IInv, TypeOK
<1> QED BY <1>1, ActivateKeeps

LEMMA SignOutKeeps ==
  ASSUME IInv, NEW k \in Account, SignOutEnds(k)
  PROVE  IInv'
<1> USE DEF IInv
<1>1. k \in signed /\ signed' = signed \ {k} /\ UNCHANGED <<feature, backend, routed>>
  BY DEF SignOutEnds
<1>2. /\ DOMAIN Without(k) = DOMAIN entries \ {k}
      /\ \A j \in DOMAIN Without(k) : Without(k)[j] = entries[j]
  BY DEF Without
<1>3. CASE k # active
  <2>1. /\ entries' = Without(k) /\ dismissed' = dismissed \ {k}
        /\ UNCHANGED <<active, view, listening, events, calls, calm>>
    BY <1>3 DEF SignOutEnds
  <2>2. TypeOK' /\ ByFeature'
    BY <1>1, <1>2, <1>3, <2>1 DEF TypeOK, ByFeature, backend
  <2>3. ShownIsEntry'
    BY <1>2, <1>3, <2>1 DEF ShownIsEntry, Has
  <2>4. RunningIsArmed' /\ CalmCarries'
    BY <1>1, <1>2, <2>1 DEF RunningIsArmed, Has, CalmCarries, Truth, Reported, backend
  <2> QED BY <2>2, <2>3, <2>4
<1>4. CASE k = active /\ signed' # {}
  <2>1. PICK j \in signed' : Activate(j, Without(k), dismissed \ {k})
    BY <1>4 DEF SignOutEnds
  <2>2. j \in Account /\ signed' \subseteq Account /\ dismissed \ {k} \in SUBSET Account
    BY <1>1 DEF TypeOK
  <2> QED BY <1>1, <1>2, <2>1, <2>2, ActivateKeeps
<1>5. CASE k = active /\ signed' = {}
  <2>1. /\ entries' = Without(k) /\ dismissed' = dismissed \ {k} /\ active' = None /\ calm' = FALSE
        /\ view' = [key |-> None, entry |-> Blank, dismissed |-> FALSE]
        /\ calls' = {c \in calls : ~Guarded(c)} /\ listening' = FALSE /\ events' = <<>>
    BY <1>5 DEF SignOutEnds, Resync
  <2>2. calls' \subseteq calls /\ calls' \subseteq Call /\ events' \in Wire /\ Len(events') <= MaxEvents
    BY <2>1, ViewsAssumption DEF TypeOK, Wire
  <2>3. view' \in [key : Account \cup {None}, entry : Entry, dismissed : BOOLEAN] /\ view'.entry.owners = Nothing
        /\ view'.key = None
    BY <2>1, NothingTyped DEF Blank
  <2>4. TypeOK' /\ ByFeature'
    BY <1>1, <1>2, <2>1, <2>2, <2>3 DEF TypeOK, ByFeature, backend, Wire
  <2>5. ShownIsEntry' /\ RunningIsArmed' /\ CalmCarries'
    BY <1>2, <2>1, <2>3 DEF ShownIsEntry, RunningIsArmed, Has, CalmCarries
  <2> QED BY <2>4, <2>5
<1> QED BY <1>3, <1>4, <1>5 DEF SignOutEnds

-----------------------------------------------------------------------------
LEMMA InitInv == Init => IInv
<1> SUFFICES ASSUME Init PROVE IInv
  OBVIOUS
<1>1. TypeOK
  <2>1. Nothing \in Session
    BY NothingTyped DEF Report
  <2>2. events \in Seq([of : Account, state : Report]) /\ Len(events) <= MaxEvents
    BY ViewsAssumption DEF Init
  <2>3. view \in [key : Account \cup {None}, entry : Entry, dismissed : BOOLEAN]
    BY NothingTyped DEF Init
  <2>4. DOMAIN entries = {} /\ session \in [Account -> Session]
    BY <2>1 DEF Init
  <2>5. claimed \in [Account -> Report] /\ started \in 0..MaxCycle
    BY NothingTyped, ViewsAssumption DEF Init
  <2> QED BY <2>2, <2>3, <2>4, <2>5 DEF Init, TypeOK
<1>2. ShownIsEntry /\ RunningIsArmed /\ ByFeature /\ CalmCarries
  BY NothingTyped DEF Init, ShownIsEntry, RunningIsArmed, ByFeature, CalmCarries, Blank
<1> QED BY <1>1, <1>2 DEF IInv

LEMMA StutterKeeps ==
  ASSUME IInv, UNCHANGED vars
  PROVE  IInv'
<1>1. UNCHANGED <<feature, session, claimed, started, entries, view, dismissed, signed, active, routed, listening, events, calls, calm>>
  BY DEF vars, store, backend, page
<1> QED BY <1>1 DEF IInv, TypeOK, ShownIsEntry, RunningIsArmed, Has, ByFeature, CalmCarries, Truth, Reported

LEMMA StepInv == IInv /\ [Next]_vars => IInv'
<1> SUFFICES ASSUME IInv, [Next]_vars PROVE IInv'
  OBVIOUS
<1>1. ASSUME NEW k \in Account, Backend(k) PROVE IInv'
  BY <1>1, BackendKeeps
<1>2. ASSUME NEW k \in Account, SignIn(k) \/ Switch(k) \/ SignOutEnds(k) PROVE IInv'
  BY <1>2, SignInKeeps, SwitchKeeps, SignOutKeeps
<1>3. ASSUME NEW c \in calls, ServeRead(c) \/ ServeToggle(c) \/ ServeStart(c) \/ ServeAutoIdle(c) PROVE IInv'
  BY <1>3, ServeKeeps
<1>4. ASSUME NEW c \in calls, Return(c) \/ Resolve(c) \/ Fail(c) PROVE IInv'
  BY <1>4, ReturnKeeps, ResolveKeeps, FailKeeps
<1>5. CASE Deliver \/ Listen \/ DismissFinished
  BY <1>5, DeliverKeeps, ListenKeeps, DismissKeeps
<1>6. CASE ToggleIdle \/ AutoIdle \/ AutoFarm
  BY <1>6, AsksKeeps DEF ToggleIdle, AutoIdle, AutoFarm
<1>7. CASE UNCHANGED vars
  BY <1>7, StutterKeeps
<1> QED BY <1>1, <1>2, <1>3, <1>4, <1>5, <1>6, <1>7 DEF Next

LEMMA SpecInv == Spec => []IInv
BY InitInv, StepInv, PTL DEF Spec

(* What an effect asks for is for the active account. *)
GuardedIsActive == \A c \in calls : Guarded(c) => c.of = active /\ active # None

LEMMA GuardedInit == Init => GuardedIsActive
BY DEF Init, GuardedIsActive

LEMMA GuardedStep == IInv /\ GuardedIsActive /\ [Next]_vars => GuardedIsActive'
<1> SUFFICES ASSUME IInv, GuardedIsActive, [Next]_vars PROVE GuardedIsActive'
  OBVIOUS
<1> DEFINE Fresh(cs) == \A c \in cs : c \in calls \/ ~Guarded(c)
<1>1. ASSUME active' = active, Fresh(calls') PROVE GuardedIsActive'
  BY <1>1 DEF GuardedIsActive, Guarded
<1>2. \A k \in Account \cup {None} : \A w \in {"claims", "command", "start", "refresh"} : ~Guarded(Ask(k, w))
  BY DEF Ask, Guarded
<1>4. ASSUME NEW k \in Account, Backend(k) PROVE GuardedIsActive'
  BY <1>1, <1>4 DEF Backend, Reclaims, Idles, Exits, Begins, Ends, Progresses, Stops, StopEnds, Removed, page
<1>5. ASSUME NEW j \in Account, NEW es, NEW d, Activate(j, es, d) PROVE GuardedIsActive'
  <2>1. /\ active' = j /\ j # None
        /\ \A c \in calls' : (c \in calls /\ ~Guarded(c)) \/ (c.of = j /\ c.answer = None)
    BY <1>5, SyncAsks, ViewsAssumption DEF Activate, IInv
  <2> QED BY <2>1 DEF GuardedIsActive, Guarded
<1>6. ASSUME NEW k \in Account, SignIn(k) \/ Switch(k) PROVE GuardedIsActive'
  BY <1>5, <1>6 DEF SignIn, Switch
<1>7. ASSUME NEW k \in Account, SignOutEnds(k) PROVE GuardedIsActive'
  <2>1. CASE k # active
    BY <1>1, <1>7, <2>1 DEF SignOutEnds
  <2>2. CASE k = active /\ signed' # {}
    <3>1. PICK j \in signed' : Activate(j, Without(k), dismissed \ {k})
      BY <1>7, <2>2 DEF SignOutEnds
    <3>2. signed' \subseteq Account
      BY <1>7 DEF SignOutEnds, IInv, TypeOK
    <3> QED BY <1>5, <3>1, <3>2
  <2>3. CASE k = active /\ signed' = {}
    <3>1. calls' = {c \in calls : ~Guarded(c)}
      BY <1>7, <2>3 DEF SignOutEnds, Resync
    <3> QED BY <3>1 DEF GuardedIsActive, Guarded
  <2> QED BY <2>1, <2>2, <2>3, <1>7 DEF SignOutEnds
<1>8. ASSUME NEW c \in calls, NEW s, calls' = Answered(c, s), active' = active PROVE GuardedIsActive'
  <2>1. c \in Call
    BY DEF IInv, TypeOK
  <2> DEFINE a == [c EXCEPT !.answer = s]
  <2>2. \A d \in calls' : d \in calls \/ d = a
    BY <1>8 DEF Answered
  <2>3. a.of = c.of /\ (Guarded(a) => Guarded(c))
    BY <2>1 DEF Guarded, Call
  <2> HIDE DEF a
  <2>4. ASSUME NEW d \in calls', Guarded(d) PROVE d.of = active /\ active # None
    <3>1. CASE d \in calls
      BY <2>4, <3>1 DEF GuardedIsActive
    <3>2. CASE d = a
      BY <2>3, <2>4, <3>2 DEF GuardedIsActive
    <3> QED BY <2>2, <3>1, <3>2
  <2> QED BY <1>8, <2>4 DEF GuardedIsActive, Guarded
<1>9. ASSUME NEW c \in calls, ServeRead(c) \/ ServeStart(c) \/ ServeAutoIdle(c) PROVE GuardedIsActive'
  BY <1>8, <1>9 DEF ServeRead, ServeStart, ServeAutoIdle, page
<1>10. ASSUME NEW c \in calls, Resolve(c) \/ Fail(c) PROVE GuardedIsActive'
  BY <1>1, <1>10 DEF Resolve, Fail, page
<1>11. ASSUME NEW c \in calls, ServeToggle(c) PROVE GuardedIsActive'
  <2>1. c.of \in Account
    BY CallTyped DEF IInv
  <2>2. Fresh(calls')
    BY <1>2, <1>11, <2>1 DEF ServeToggle
  <2> QED BY <1>1, <1>11, <2>2 DEF ServeToggle, page
<1>12. \A k \in Account : Fresh(Follow(k))
  BY <1>2 DEF Follow
<1>13. ASSUME NEW c \in calls, Return(c) PROVE GuardedIsActive'
  <2>1. c.of \in Account
    BY CallTyped DEF IInv
  <2>2. calls' \subseteq calls \cup Follow(c.of) /\ active' = active
    BY <1>13 DEF Return, page
  <2> QED BY <1>1, <1>12, <2>1, <2>2
<1>14. CASE Deliver
  <2>1. Head(events) \in [of : Account, state : Report]
    BY <1>14, HeadTailProperties DEF Deliver, IInv, TypeOK
  <2>2. calls' \subseteq calls \cup Follow(Head(events).of) /\ active' = active
    BY <1>14 DEF Deliver, page
  <2> QED BY <1>1, <1>12, <2>1, <2>2
<1>15. ASSUME NEW w \in {"command", "start"}, Asks(w) PROVE GuardedIsActive'
  <2>1. active \in Account /\ calls' = calls \cup {Ask(active, w)} /\ active' = active
    BY <1>15 DEF Asks, page, IInv, TypeOK
  <2> QED BY <1>1, <1>2, <2>1
<1>16. CASE ToggleIdle \/ AutoIdle \/ AutoFarm
  BY <1>15, <1>16 DEF ToggleIdle, AutoIdle, AutoFarm
<1>17. CASE Listen \/ DismissFinished \/ UNCHANGED vars
  BY <1>1, <1>17 DEF Listen, DismissFinished, vars, page
<1> QED BY <1>4, <1>6, <1>7, <1>9, <1>10, <1>11, <1>13, <1>14, <1>16, <1>17 DEF Next

LEMMA SpecGuarded == Spec => []GuardedIsActive
BY GuardedInit, GuardedStep, SpecInv, PTL DEF Spec

(* The stores, the event wire and the commands in flight keep their types. *)
THEOREM ViewsTypeOK == Spec => []TypeOK
<1>1. IInv => TypeOK
  BY DEF IInv
<1> QED BY SpecInv, <1>1, PTL

(* What the pages read is the active account's entry, through every switch, *)
(* sign-out, late answer and event. *)
THEOREM ViewIsEntry == Spec => []ShownIsEntry
<1>1. IInv => ShownIsEntry
  BY DEF IInv
<1> QED BY SpecInv, <1>1, PTL

(* No running session is shown with its summary dismissed in advance. *)
THEOREM Armed == Spec => []RunningIsArmed
<1>1. IInv => RunningIsArmed
  BY DEF IInv
<1> QED BY SpecInv, <1>1, PTL

(* Once what the effects of an activation asked for is back, the page shows *)
(* what the backend runs and, in idling, what its registry claims, each by  *)
(* its own read, for any number of accounts and of lost events.             *)
THEOREM Heals == Spec => []ActivationHeals
<1>1. IInv => ActivationHeals
  <2> SUFFICES ASSUME IInv, calm, \A c \in calls : c.of = active => c.what \notin {"read", "claims"}
               PROVE  view.entry = [state |-> Reported(active), owners |-> claimed[active]]
    BY DEF ActivationHeals
  <2>1. view.entry \in Entry /\ active \in Account
    BY DEF IInv, TypeOK, CalmCarries
  <2>2. view.entry.state = Reported(active) /\ view.entry.owners = claimed[active]
    BY <2>1 DEF IInv, CalmCarries, ByFeature
  <2> QED BY <2>1, <2>2 DEF Entry
<1> QED BY SpecInv, <1>1, PTL

(* An account's entry appears only while it is signed in, or through an    *)
(* answer no sign-out cancels, or through an event routed by Steam id.     *)
THEOREM NoComeback == Spec => NoResurrection
<1> DEFINE Allowed(k) == \/ k \in signed'
                         \/ \E c \in calls \ calls' : c.of = k /\ ~Guarded(c)
                         \/ feature # "idling" /\ k \in routed
           NoneNew == \A k \in DOMAIN entries' \ DOMAIN entries : Allowed(k)
<1>1. IInv /\ GuardedIsActive /\ [Next]_vars => [NoneNew]_vars
  <2> SUFFICES ASSUME IInv, GuardedIsActive, Next, NEW k \in DOMAIN entries', k \notin DOMAIN entries
               PROVE  Allowed(k)
    OBVIOUS
  <2>1. entries' # entries
    OBVIOUS
  <2>2. ASSUME NEW j \in Account, Backend(j) PROVE Allowed(k)
    BY <2>1, <2>2 DEF Backend, Reclaims, Idles, Exits, Begins, Ends, Progresses, Stops, StopEnds, Removed, store
  <2>3. ASSUME NEW j \in Account, NEW es, NEW d, Activate(j, es, d), j \in signed', DOMAIN es \subseteq DOMAIN entries
        PROVE  Allowed(k)
    BY <2>3 DEF Activate, SetActiveAccount
  <2>4. ASSUME NEW j \in Account, SignIn(j) \/ Switch(j) PROVE Allowed(k)
    BY <2>3, <2>4 DEF SignIn, Switch
  <2>5. ASSUME NEW j \in Account, SignOutEnds(j) PROVE Allowed(k)
    <3>1. DOMAIN Without(j) \subseteq DOMAIN entries
      BY DEF Without
    <3>2. signed' \subseteq Account
      BY <2>5 DEF SignOutEnds, IInv, TypeOK
    <3>3. entries' # Without(j)
      BY <3>1
    <3>4. PICK i \in signed' : Activate(i, Without(j), dismissed \ {j})
      BY <2>5, <3>3 DEF SignOutEnds
    <3> QED BY <2>3, <3>1, <3>2, <3>4
  <2>6. ASSUME NEW j \in Account, NEW e, NEW d, Store(j, e, d) PROVE k = j
    BY <2>6 DEF Store, Put
  <2>7. ASSUME NEW j \in Account, NEW s \in Report, Update(j, s) PROVE k = j
    BY <2>6, <2>7 DEF Update, SetAppIds, UpdateFarming, UpdateUnlocker, IInv, TypeOK, Feature
  <2>8. ASSUME NEW c \in calls, ServeRead(c) \/ ServeToggle(c) \/ ServeStart(c) \/ ServeAutoIdle(c) \/ Resolve(c) \/ Fail(c)
        PROVE  Allowed(k)
    BY <2>1, <2>8 DEF ServeRead, ServeToggle, ServeStart, ServeAutoIdle, Resolve, Fail, store
  <2>9. ASSUME NEW c \in calls, Return(c) PROVE Allowed(k)
    <3>1. c \in Call /\ c.of \in Account /\ c.answer \in Report
      BY <2>9, CallTyped DEF Return, IInv
    <3>2. k = c.of
      BY <2>6, <2>7, <2>9, <3>1 DEF Return, SetClaimsByOwner
    <3>3. signed' = signed /\ active' = active /\ active \in signed \cup {None} /\ c.answer # None
      BY <2>9 DEF Return, page, IInv, TypeOK
    <3>4. c \notin calls'
      BY <2>9, <3>1, FollowTyped DEF Return
    <3> QED BY <3>2, <3>3, <3>4 DEF GuardedIsActive
  <2>10. CASE Deliver
    <3> DEFINE e == Head(events)
    <3>1. e \in [of : Account, state : Report]
      BY <2>10, HeadTailProperties DEF Deliver, IInv, TypeOK
    <3>2. Routed(e.of) /\ Update(e.of, e.state)
      BY <2>1, <2>10 DEF Deliver, store
    <3>3. k = e.of
      BY <2>7, <3>1, <3>2
    <3>4. signed' = signed
      BY <2>10 DEF Deliver, page
    <3> QED BY <3>2, <3>3, <3>4 DEF Routed
  <2>11. CASE Listen \/ ToggleIdle \/ AutoIdle \/ AutoFarm \/ DismissFinished
    BY <2>1, <2>11 DEF Listen, ToggleIdle, AutoIdle, AutoFarm, Asks, DismissFinished, store
  <2> QED BY <2>2, <2>4, <2>5, <2>8, <2>9, <2>10, <2>11 DEF Next
<1> QED BY SpecInv, SpecGuarded, <1>1, PTL DEF Spec, NoResurrection
=============================================================================
