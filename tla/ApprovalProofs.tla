--------------------------- MODULE ApprovalProofs ---------------------------
(***************************************************************************)
(* Proofs about Approval, for every set of requests, of deliverables and   *)
(* every finite set of versions.                                           *)
(*                                                                         *)
(* TypeOK is not inductive alone: the checklist a sign-off loads names the *)
(* newest version of each deliverable, and that there is one follows from  *)
(* the numbers being gap-free, which follows from a deleted draft being    *)
(* the newest, which is OnlyNewestOpen.  IInv collects these.              *)
(***************************************************************************)
EXTENDS Approval, SequenceTheorems, FunctionTheorems, FiniteSetTheorems, TLAPS

\* A version row exists exactly when it belongs to a live deliverable.
RowsLive ==
  /\ \A v \in VersionIds : vof[v] = NoDeliverable <=> vstate[v] \in RowGone
  /\ \A v \in VersionIds : vof[v] # NoDeliverable => dstatus[vof[v]] = "live"

\* The numbers of a deliverable's versions are distinct and are 1..k.
NumbersDistinct ==
  \A d \in DeliverableIds : \A v, w \in VersionsOf(d) : vnum[v] = vnum[w] => v = w

NumbersFromOne ==
  \A d \in DeliverableIds : \E k \in Nat :
    /\ \A v \in VersionsOf(d) : vnum[v] \in 1..k
    /\ \A n \in 1..k : \E v \in VersionsOf(d) : vnum[v] = n

\* A loaded transition is one staff may make.
LoadedLegal ==
  \A r \in Requests : req[r].op = "transition" =>
    Transition(req[r].from, req[r].to, "staff")

IInv == /\ TypeOK
        /\ RowsLive
        /\ NumbersDistinct
        /\ NumbersFromOne
        /\ OnlyNewestOpen
        /\ LoadedLegal

-----------------------------------------------------------------------------
(* The newest version *)

\* A deliverable with versions has a newest one: the one numbered k.
LEMMA NewestExists ==
  ASSUME TypeOK, NumbersFromOne, NEW d \in DeliverableIds, VersionsOf(d) # {}
  PROVE  Newest(d) \in VersionIds /\ IsNewest(Newest(d), d)
<1>1. PICK k \in Nat : /\ \A v \in VersionsOf(d) : vnum[v] \in 1..k
                       /\ \A n \in 1..k : \E v \in VersionsOf(d) : vnum[v] = n
  BY DEF NumbersFromOne
<1>2. k \in 1..k
  BY <1>1
<1>3. \E v \in VersionIds : IsNewest(v, d)
  BY <1>1, <1>2 DEF IsNewest, VersionsOf
<1>4. QED
  BY <1>3 DEF Newest

LEMMA LatestFacts ==
  ASSUME TypeOK, RowsLive, NumbersFromOne, NEW d \in DeliverableIds
  PROVE  /\ LatestState(d) \in VersionState \cup {NoState}
         /\ LatestNumber(d) \in Nat
         /\ \A v \in VersionsOf(d) : vnum[v] <= LatestNumber(d)
         /\ VersionsOf(d) # {} =>
              \E v \in VersionsOf(d) : vstate[v] = LatestState(d) /\ vnum[v] = LatestNumber(d)
<1>1. CASE VersionsOf(d) = {}
  BY <1>1 DEF LatestState, LatestNumber
<1>2. CASE VersionsOf(d) # {}
  <2>1. Newest(d) \in VersionIds /\ IsNewest(Newest(d), d)
    BY <1>2, NewestExists
  <2>2. vof[Newest(d)] # NoDeliverable
    BY <2>1, NoDeliverableAssumption DEF IsNewest
  <2>3. vstate[Newest(d)] \in VersionState
    BY <2>1, <2>2 DEF RowsLive, TypeOK
  <2>4. QED
    BY <1>2, <2>1, <2>3 DEF LatestState, LatestNumber, IsNewest, VersionsOf, TypeOK
<1>3. QED
  BY <1>1, <1>2

LEMMA HandoffType ==
  ASSUME TypeOK, RowsLive, NumbersFromOne
  PROVE  Handoff \in SUBSET HandoffRow
<1>1. ASSUME NEW d \in required
      PROVE  [d |-> d, number |-> LatestNumber(d), state |-> LatestState(d),
              waived |-> d \in waived] \in HandoffRow
  <2>1. d \in DeliverableIds
    BY DEF TypeOK
  <2>2. LatestNumber(d) \in Nat /\ LatestState(d) \in VersionState \cup {NoState}
    BY <2>1, LatestFacts
  <2>3. (d \in waived) \in BOOLEAN
    OBVIOUS
  <2>4. QED
    BY <2>1, <2>2, <2>3 DEF HandoffRow
<1>2. QED
  BY <1>1 DEF Handoff

-----------------------------------------------------------------------------
(* Type correctness *)

\* The fields of a loaded request, by its operation.
LEMMA LoadedFields ==
  ASSUME NEW q \in Loaded \cup {Idle}
  PROVE  /\ q.op \in {"deliverableEdit", "deliverableDelete", "deliverableWaive",
                      "versionCreate"} => q.d \in DeliverableIds
         /\ q.op \in {"transition", "versionDelete", "portalDecide"} => q.v \in VersionIds
         /\ q.op = "transition" => q.from \in VersionState /\ q.to \in VersionState
         /\ q.op = "portalDecide" => q.to \in Decision
         /\ q.op = "signoffRecord" => q.rows \in SUBSET HandoffRow
  BY DEF Loaded, Idle

LEMMA InitIInv == Init => IInv
<1> SUFFICES ASSUME Init PROVE IInv
  OBVIOUS
<1>1. TypeOK
  BY DEF Init, TypeOK, RowGone, Idle
<1>2. NumbersFromOne
  <2>1. ASSUME NEW d \in DeliverableIds PROVE VersionsOf(d) = {}
    BY NoDeliverableAssumption DEF Init, VersionsOf
  <2>2. QED
    BY <2>1, 0 \in Nat, 1..0 = {} DEF NumbersFromOne
<1>3. QED
  BY <1>1, <1>2, NoDeliverableAssumption
  DEF Init, IInv, RowsLive, NumbersDistinct, OnlyNewestOpen, LoadedLegal, VersionsOf,
      RowGone, Idle

\* A step that leaves the version rows alone keeps what is said of them.
LEMMA VersionsUnchanged ==
  ASSUME IInv, UNCHANGED <<dstatus, vstate, vof, vnum>>
  PROVE  RowsLive' /\ NumbersDistinct' /\ NumbersFromOne' /\ OnlyNewestOpen'
<1>1. \A d \in DeliverableIds : VersionsOf(d)' = VersionsOf(d)
  BY DEF VersionsOf
<1>2. QED
  BY <1>1 DEF IInv, RowsLive, NumbersDistinct, NumbersFromOne, OnlyNewestOpen

\* A request that has loaded q.
LEMMA BeginIInv ==
  ASSUME IInv, NEW r \in Requests, NEW q \in Loaded, Begin(r, q),
         q.op = "transition" => Transition(q.from, q.to, "staff")
  PROVE  IInv'
<1>1. UNCHANGED <<project, dstatus, required, waived, vstate, vof, vnum, decisions,
                  trail, signoffs>>
  BY DEF Begin, tables, deliverableVars, versionVars
<1>2. req' = [req EXCEPT ![r] = q]
  BY DEF Begin
<1>3. TypeOK'
  BY <1>1, <1>2 DEF IInv, TypeOK
<1>4. LoadedLegal'
  BY <1>2 DEF IInv, LoadedLegal, TypeOK
<1>5. QED
  BY <1>1, <1>3, <1>4, VersionsUnchanged DEF IInv

\* A step that ends a request and leaves the versions and the deliverables' rows alone.
LEMMA FinishIInv ==
  ASSUME IInv, NEW r \in Requests, Finish(r), TypeOK',
         UNCHANGED <<dstatus, vstate, vof, vnum>>
  PROVE  IInv'
<1>1. LoadedLegal'
  BY DEF IInv, LoadedLegal, Finish, Idle, TypeOK
<1>2. QED
  BY <1>1, VersionsUnchanged DEF IInv

-----------------------------------------------------------------------------
(* The transactions that change versions *)

LEMMA VersionCreateIInv ==
  ASSUME IInv, NEW r \in Requests, VersionCreateCommit(r)
  PROVE  IInv'
<1>0. PICK d \in DeliverableIds : d = req[r].d
  BY LoadedFields DEF IInv, TypeOK, VersionCreateCommit, Serving
<1>1. dstatus[d] = "live" /\ NewVersionAllowed(LatestState(d))
  BY <1>0 DEF VersionCreateCommit
<1>2. PICK v \in VersionIds :
        /\ vstate[v] = "free"
        /\ vstate' = [vstate EXCEPT ![v] = "draft"]
        /\ vof' = [vof EXCEPT ![v] = d]
        /\ vnum' = [vnum EXCEPT ![v] = LatestNumber(d) + 1]
        /\ trail' = IF NeedsReason(LatestState(d))
                    THEN [trail EXCEPT ![v] = Append(@, "deliverable.reopened")]
                    ELSE trail
  BY <1>0 DEF VersionCreateCommit
<1>3. UNCHANGED <<project, dstatus, required, waived, decisions, signoffs>> /\ Finish(r)
  BY DEF VersionCreateCommit, deliverableVars
<1>4. /\ LatestNumber(d) \in Nat
      /\ \A w \in VersionsOf(d) : vnum[w] <= LatestNumber(d)
      /\ VersionsOf(d) # {} =>
           \E w \in VersionsOf(d) : vstate[w] = LatestState(d) /\ vnum[w] = LatestNumber(d)
  BY <1>1, LatestFacts DEF IInv
<1>5. vof[v] = NoDeliverable
  BY <1>2 DEF IInv, RowsLive, RowGone
<1>6. /\ VersionsOf(d)' = VersionsOf(d) \cup {v}
      /\ \A e \in DeliverableIds \ {d} : VersionsOf(e)' = VersionsOf(e)
      /\ v \notin VersionsOf(d)
      /\ \A e \in DeliverableIds : v \notin VersionsOf(e)
  BY <1>1, <1>2, <1>5, NoDeliverableAssumption DEF VersionsOf, IInv, TypeOK
<1>7. TypeOK'
  <2>1. trail' \in [VersionIds -> Seq(Event)]
    BY <1>2 DEF IInv, TypeOK, Event
  <2>2. QED
    BY <1>2, <1>3, <1>4, <2>1 DEF IInv, TypeOK, VersionState, Finish, Idle
<1>8. RowsLive'
  BY <1>1, <1>2, <1>3, NoDeliverableAssumption DEF IInv, RowsLive, TypeOK, RowGone
<1>9. NumbersDistinct'
  BY <1>2, <1>4, <1>6 DEF IInv, NumbersDistinct, TypeOK, VersionsOf
<1>10. NumbersFromOne'
  <2>1. ASSUME NEW e \in DeliverableIds
        PROVE  \E k \in Nat : /\ \A w \in VersionsOf(e)' : vnum'[w] \in 1..k
                              /\ \A n \in 1..k : \E w \in VersionsOf(e)' : vnum'[w] = n
    <3>1. PICK k \in Nat : /\ \A w \in VersionsOf(e) : vnum[w] \in 1..k
                           /\ \A n \in 1..k : \E w \in VersionsOf(e) : vnum[w] = n
      BY DEF IInv, NumbersFromOne
    <3>2. CASE e # d
      BY <1>2, <1>6, <3>1, <3>2 DEF VersionsOf, IInv, TypeOK
    <3>3. CASE e = d
      <4>1. LatestNumber(d) = k
        <5>1. CASE VersionsOf(d) = {}
          BY <3>1, <3>3, <5>1 DEF LatestNumber
        <5>2. CASE VersionsOf(d) # {}
          <6>1. k \in 1..k
            BY <3>1, <3>3, <5>2
          <6>2. PICK w \in VersionsOf(d) : vnum[w] = LatestNumber(d)
            BY <1>4, <5>2
          <6>3. PICK x \in VersionsOf(d) : vnum[x] = k
            BY <3>1, <3>3, <6>1
          <6>4. QED
            BY <1>4, <3>1, <3>3, <6>2, <6>3
        <5>3. QED
          BY <5>1, <5>2
      <4>2. vnum'[v] = k + 1 /\ \A w \in VersionsOf(d) : vnum'[w] = vnum[w]
        BY <1>2, <1>6, <4>1 DEF VersionsOf, IInv, TypeOK
      <4>3. \A w \in VersionsOf(e)' : vnum'[w] \in 1..(k + 1)
        BY <1>6, <3>1, <3>3, <4>2
      <4>4. \A n \in 1..(k + 1) : \E w \in VersionsOf(e)' : vnum'[w] = n
        BY <1>6, <3>1, <3>3, <4>2
      <4>5. QED
        BY <4>3, <4>4
    <3>4. QED
      BY <3>2, <3>3
  <2>2. QED
    BY <2>1 DEF NumbersFromOne
<1>11. OnlyNewestOpen'
  <2>1. ASSUME NEW e \in DeliverableIds, NEW u \in VersionsOf(e)', NEW w \in VersionsOf(e)',
               vnum'[u] < vnum'[w]
        PROVE  vstate'[u] \in TerminalState
    <3>1. CASE e # d
      BY <1>2, <1>6, <2>1, <3>1 DEF VersionsOf, IInv, TypeOK, OnlyNewestOpen
    <3>2. CASE e = d
      <4>1. u # v
        BY <1>2, <1>4, <1>6, <2>1, <3>2 DEF VersionsOf, IInv, TypeOK
      <4>2. u \in VersionsOf(d) /\ vstate'[u] = vstate[u] /\ vnum'[u] = vnum[u]
        BY <1>2, <1>6, <2>1, <3>2, <4>1 DEF VersionsOf, IInv, TypeOK
      <4>3. PICK x \in VersionsOf(d) : vstate[x] = LatestState(d) /\ vnum[x] = LatestNumber(d)
        BY <1>4, <4>2
      <4>4. vnum[u] < vnum[x] \/ u = x
        BY <1>1, <1>4, <4>2, <4>3 DEF IInv, NumbersDistinct, TypeOK, VersionsOf
      <4>5. vstate[x] \in TerminalState
        <5>1. vstate[x] # NoState
          BY <4>3, NoDeliverableAssumption, <1>1 DEF IInv, RowsLive, TypeOK, VersionsOf, NoState,
             VersionState, RowGone
        <5>2. QED
          BY <1>1, <4>3, <5>1 DEF NewVersionAllowed, TerminalState
      <4>6. QED
        BY <1>1, <4>2, <4>3, <4>4, <4>5 DEF IInv, OnlyNewestOpen
    <3>3. QED
      BY <3>1, <3>2
  <2>2. QED
    BY <2>1 DEF OnlyNewestOpen
<1>12. LoadedLegal'
  BY <1>3 DEF IInv, LoadedLegal, Finish, Idle, TypeOK
<1>13. QED
  BY <1>7, <1>8, <1>9, <1>10, <1>11, <1>12 DEF IInv

\* A version that is open moves: it is the newest, so no version is older and open.
LEMMA MoveIInv ==
  ASSUME IInv, NEW r \in Requests, Finish(r), TypeOK',
         NEW v \in VersionIds, vstate[v] \in {"draft", "shared"},
         NEW to \in VersionState, vstate' = [vstate EXCEPT ![v] = to],
         UNCHANGED <<dstatus, vof, vnum>>
  PROVE  IInv'
<1>1. \A d \in DeliverableIds : VersionsOf(d)' = VersionsOf(d)
  BY DEF VersionsOf
<1>2. RowsLive'
  BY DEF IInv, RowsLive, TypeOK, RowGone, VersionState
<1>3. NumbersDistinct' /\ NumbersFromOne'
  BY <1>1 DEF IInv, NumbersDistinct, NumbersFromOne
<1>4. OnlyNewestOpen'
  <2>1. ASSUME NEW d \in DeliverableIds, NEW u \in VersionsOf(d), NEW w \in VersionsOf(d),
               vnum[u] < vnum[w]
        PROVE  vstate'[u] \in TerminalState
    <3>1. vstate[u] \in TerminalState
      BY <2>1 DEF IInv, OnlyNewestOpen
    <3>2. u # v
      BY <3>1 DEF TerminalState
    <3>3. QED
      BY <3>1, <3>2 DEF IInv, TypeOK, VersionsOf
  <2>2. QED
    BY <1>1, <2>1 DEF OnlyNewestOpen
<1>5. LoadedLegal'
  BY DEF IInv, LoadedLegal, Finish, Idle, TypeOK
<1>6. QED
  BY <1>2, <1>3, <1>4, <1>5 DEF IInv

\* Drafts are removed: of each deliverable at most the one numbered last.
LEMMA RemoveDrafts ==
  ASSUME IInv, NEW S \in SUBSET VersionIds, \A v \in S : vstate[v] = "draft",
         vstate' = [v \in VersionIds |-> IF v \in S THEN "deleted" ELSE vstate[v]],
         vof' = [v \in VersionIds |-> IF v \in S THEN NoDeliverable ELSE vof[v]],
         vnum' = [v \in VersionIds |-> IF v \in S THEN 0 ELSE vnum[v]]
  PROVE  NumbersDistinct' /\ NumbersFromOne' /\ OnlyNewestOpen'
<1>1. ASSUME NEW d \in DeliverableIds
      PROVE  /\ VersionsOf(d)' = VersionsOf(d) \ S
             /\ \A v \in VersionsOf(d)' : vstate'[v] = vstate[v] /\ vnum'[v] = vnum[v]
  BY NoDeliverableAssumption DEF VersionsOf, IInv, TypeOK
<1>2. NumbersDistinct'
  BY <1>1 DEF IInv, NumbersDistinct
<1>3. OnlyNewestOpen'
  <2>1. ASSUME NEW d \in DeliverableIds, NEW u \in VersionsOf(d)', NEW w \in VersionsOf(d)',
               vnum'[u] < vnum'[w]
        PROVE  vstate'[u] \in TerminalState
    BY <1>1, <2>1 DEF IInv, OnlyNewestOpen
  <2>2. QED
    BY <2>1 DEF OnlyNewestOpen
<1>4. NumbersFromOne'
  <2>1. ASSUME NEW d \in DeliverableIds
        PROVE  \E k \in Nat : /\ \A v \in VersionsOf(d)' : vnum'[v] \in 1..k
                              /\ \A n \in 1..k : \E v \in VersionsOf(d)' : vnum'[v] = n
    <3>1. PICK k \in Nat : /\ \A v \in VersionsOf(d) : vnum[v] \in 1..k
                           /\ \A n \in 1..k : \E v \in VersionsOf(d) : vnum[v] = n
      BY DEF IInv, NumbersFromOne
    <3>2. CASE VersionsOf(d) \cap S = {}
      <4>1. VersionsOf(d)' = VersionsOf(d)
        BY <1>1, <3>2
      <4>2. \A v \in VersionsOf(d) : vnum'[v] = vnum[v]
        BY <1>1, <4>1
      <4>3. QED
        BY <3>1, <4>1, <4>2
    <3>3. CASE VersionsOf(d) \cap S # {}
      <4>1. PICK x \in VersionsOf(d) : x \in S
        BY <3>3
      <4>2. ASSUME NEW y \in VersionsOf(d), y \in S
            PROVE  vnum[y] = k
        <5>1. vnum[y] \in 1..k /\ k \in 1..k
          BY <3>1
        <5>2. PICK z \in VersionsOf(d) : vnum[z] = k
          BY <3>1, <5>1
        <5>3. ~(vnum[y] < vnum[z])
          BY <4>2 DEF IInv, OnlyNewestOpen, TerminalState
        <5>4. QED
          BY <5>1, <5>2, <5>3
      <4>3. \A y \in VersionsOf(d) : y \in S => y = x
        BY <4>1, <4>2 DEF IInv, NumbersDistinct
      <4>4. vnum[x] = k /\ k \in 1..k
        BY <3>1, <4>1, <4>2
      <4>5. \A v \in VersionsOf(d)' : vnum'[v] \in 1..(k - 1)
        <5>1. ASSUME NEW v \in VersionsOf(d)'
              PROVE  vnum'[v] \in 1..(k - 1)
          <6>1. v \in VersionsOf(d) /\ v # x /\ vnum'[v] = vnum[v]
            BY <1>1, <4>1
          <6>2. vnum[v] # k
            BY <4>1, <4>4, <6>1 DEF IInv, NumbersDistinct
          <6>3. QED
            BY <3>1, <6>1, <6>2
        <5>2. QED
          BY <5>1
      <4>6. \A n \in 1..(k - 1) : \E v \in VersionsOf(d)' : vnum'[v] = n
        <5>1. ASSUME NEW n \in 1..(k - 1)
              PROVE  \E v \in VersionsOf(d)' : vnum'[v] = n
          <6>1. PICK v \in VersionsOf(d) : vnum[v] = n
            BY <3>1
          <6>2. v # x
            BY <4>4, <6>1
          <6>3. v \in VersionsOf(d)'
            BY <1>1, <4>3, <6>2
          <6>4. QED
            BY <1>1, <6>1, <6>3
        <5>2. QED
          BY <5>1
      <4>7. k - 1 \in Nat
        BY <4>4
      <4>8. QED
        BY <4>5, <4>6, <4>7
    <3>4. QED
      BY <3>2, <3>3
  <2>2. QED
    BY <2>1 DEF NumbersFromOne
<1>5. QED
  BY <1>2, <1>3, <1>4

LEMMA TransitionIInv ==
  ASSUME IInv, NEW r \in Requests, TransitionCommit(r)
  PROVE  IInv'
<1>1. PICK v \in VersionIds, to \in VersionState : v = req[r].v /\ to = req[r].to
  BY LoadedFields DEF IInv, TypeOK, TransitionCommit, Serving
<1>2. vstate[v] \in {"draft", "shared"}
  BY <1>1 DEF IInv, LoadedLegal, TransitionCommit, Serving, StillIn, Transition
<1>3. /\ vstate' = [vstate EXCEPT ![v] = to]
      /\ \E e \in {"version.shared", "version.withdrawn"} :
           trail' = [trail EXCEPT ![v] = Append(@, e)]
      /\ UNCHANGED <<project, dstatus, required, waived, vof, vnum, decisions, signoffs>>
      /\ Finish(r)
  BY <1>1 DEF TransitionCommit, deliverableVars
<1>4. TypeOK'
  BY <1>3 DEF IInv, TypeOK, Finish, Event
<1>5. QED
  BY <1>2, <1>3, <1>4, MoveIInv

LEMMA PortalDecideIInv ==
  ASSUME IInv, NEW r \in Requests, PortalDecideCommit(r)
  PROVE  IInv'
<1>1. PICK v \in VersionIds, to \in Decision : v = req[r].v /\ to = req[r].to
  BY LoadedFields DEF IInv, TypeOK, PortalDecideCommit, Serving
<1>2. vstate[v] \in {"draft", "shared"} /\ to \in VersionState
  BY <1>1 DEF PortalDecideCommit, StillIn, Decision, VersionState
<1>3. /\ vstate' = [vstate EXCEPT ![v] = to]
      /\ decisions' = [decisions EXCEPT ![v] = Append(@, to)]
      /\ \E e \in {"decision.approved", "decision.revision_requested"} :
           trail' = [trail EXCEPT ![v] = Append(@, e)]
      /\ UNCHANGED <<project, dstatus, required, waived, vof, vnum, signoffs>>
      /\ Finish(r)
  BY <1>1 DEF PortalDecideCommit, deliverableVars
<1>4. TypeOK'
  BY <1>2, <1>3 DEF IInv, TypeOK, Finish, Event
<1>5. QED
  BY <1>2, <1>3, <1>4, MoveIInv

LEMMA VersionDeleteIInv ==
  ASSUME IInv, NEW r \in Requests, VersionDeleteCommit(r)
  PROVE  IInv'
<1>1. PICK v \in VersionIds : v = req[r].v
  BY LoadedFields DEF IInv, TypeOK, VersionDeleteCommit, Serving
<1>2. /\ vstate[v] = "draft"
      /\ vstate' = [w \in VersionIds |-> IF w \in {v} THEN "deleted" ELSE vstate[w]]
      /\ vof' = [w \in VersionIds |-> IF w \in {v} THEN NoDeliverable ELSE vof[w]]
      /\ vnum' = [w \in VersionIds |-> IF w \in {v} THEN 0 ELSE vnum[w]]
      /\ UNCHANGED <<project, dstatus, required, waived, decisions, trail, signoffs>>
      /\ Finish(r)
  BY <1>1 DEF VersionDeleteCommit, StillIn, deliverableVars, IInv, TypeOK
<1>3. TypeOK'
  BY <1>2 DEF IInv, TypeOK, RowGone, Finish
<1>4. RowsLive'
  BY <1>2 DEF IInv, RowsLive, RowGone, TypeOK
<1>5. LoadedLegal'
  BY <1>2 DEF IInv, LoadedLegal, Finish, Idle, TypeOK
<1>6. NumbersDistinct' /\ NumbersFromOne' /\ OnlyNewestOpen'
  <2>1. {v} \in SUBSET VersionIds /\ \A w \in {v} : vstate[w] = "draft"
    BY <1>2
  <2>2. QED
    BY <1>2, <2>1, RemoveDrafts
<1>7. QED
  BY <1>3, <1>4, <1>5, <1>6 DEF IInv

LEMMA DeliverableDeleteIInv ==
  ASSUME IInv, NEW r \in Requests, DeliverableDeleteCommit(r)
  PROVE  IInv'
<1>1. PICK d \in DeliverableIds : d = req[r].d
  BY LoadedFields DEF IInv, TypeOK, DeliverableDeleteCommit, Serving
<1>2. /\ \A v \in VersionsOf(d) : vstate[v] = "draft"
      /\ dstatus' = [dstatus EXCEPT ![d] = "deleted"]
      /\ required' = required \ {d} /\ waived' = waived \ {d}
      /\ UNCHANGED <<project, decisions, trail, signoffs>>
      /\ Finish(r)
  BY <1>1 DEF DeliverableDeleteCommit, AllDraft
<1>3. /\ vstate' = [v \in VersionIds |-> IF v \in VersionsOf(d) THEN "deleted" ELSE vstate[v]]
      /\ vof' = [v \in VersionIds |-> IF v \in VersionsOf(d) THEN NoDeliverable ELSE vof[v]]
      /\ vnum' = [v \in VersionIds |-> IF v \in VersionsOf(d) THEN 0 ELSE vnum[v]]
  BY <1>1 DEF DeliverableDeleteCommit, VersionsOf
<1>4. TypeOK'
  BY <1>2, <1>3 DEF IInv, TypeOK, RowGone, Finish
<1>5. RowsLive'
  BY <1>2, <1>3 DEF IInv, RowsLive, RowGone, TypeOK, VersionsOf
<1>6. LoadedLegal'
  BY <1>2 DEF IInv, LoadedLegal, Finish, Idle, TypeOK
<1>7. NumbersDistinct' /\ NumbersFromOne' /\ OnlyNewestOpen'
  <2>1. VersionsOf(d) \in SUBSET VersionIds
    BY DEF VersionsOf
  <2>2. QED
    BY <1>2, <1>3, <2>1, RemoveDrafts
<1>8. QED
  BY <1>4, <1>5, <1>6, <1>7 DEF IInv

-----------------------------------------------------------------------------
(* The other transactions, and every step *)

LEMMA DeliverableCreateIInv ==
  ASSUME IInv, NEW r \in Requests, DeliverableCreateCommit(r)
  PROVE  IInv'
<1>1. PICK d \in DeliverableIds :
        /\ dstatus[d] = "free"
        /\ dstatus' = [dstatus EXCEPT ![d] = "live"]
        /\ required' = IF req[r].required THEN required \cup {d} ELSE required
  BY DEF DeliverableCreateCommit
<1>2. UNCHANGED <<project, waived, vstate, vof, vnum, decisions, trail, signoffs>> /\ Finish(r)
  BY DEF DeliverableCreateCommit, versionVars
<1>3. TypeOK'
  BY <1>1, <1>2 DEF IInv, TypeOK, Finish
<1>4. RowsLive'
  BY <1>1, <1>2 DEF IInv, RowsLive, TypeOK
<1>5. LoadedLegal'
  BY <1>2 DEF IInv, LoadedLegal, Finish, Idle, TypeOK
<1>6. QED
  BY <1>2, <1>3, <1>4, <1>5 DEF IInv, NumbersDistinct, NumbersFromOne, OnlyNewestOpen, VersionsOf

LEMMA SignoffHandoffIInv ==
  ASSUME IInv, NEW r \in Requests, SignoffHandoff(r)
  PROVE  IInv'
<1>1. /\ req' = [req EXCEPT ![r] = [op |-> "signoffRecord", rows |-> Handoff]]
      /\ UNCHANGED <<project, dstatus, required, waived, vstate, vof, vnum, decisions,
                     trail, signoffs>>
  BY DEF SignoffHandoff, tables, deliverableVars, versionVars
<1>2. [op |-> "signoffRecord", rows |-> Handoff] \in Loaded
  BY HandoffType DEF IInv, Loaded
<1>3. TypeOK'
  BY <1>1, <1>2 DEF IInv, TypeOK
<1>4. LoadedLegal'
  BY <1>1 DEF IInv, LoadedLegal, TypeOK
<1>5. QED
  BY <1>1, <1>3, <1>4, VersionsUnchanged DEF IInv

LEMMA StepIInv == IInv /\ [Next]_vars => IInv'
<1> SUFFICES ASSUME IInv, [Next]_vars PROVE IInv'
  OBVIOUS
<1>1. ASSUME NEW r \in Requests, Abort(r) PROVE IInv'
  <2>1. UNCHANGED <<project, dstatus, required, waived, vstate, vof, vnum, decisions,
                    trail, signoffs>> /\ Finish(r)
    BY <1>1 DEF Abort, tables, deliverableVars, versionVars
  <2>2. TypeOK'
    BY <2>1 DEF IInv, TypeOK, Finish
  <2>3. QED
    BY <2>1, <2>2, FinishIInv
<1>2. ASSUME NEW r \in Requests, DeliverableStep(r) PROVE IInv'
  <2>1. CASE DeliverableCreateBegin(r)
    BY <2>1, BeginIInv DEF DeliverableCreateBegin, Loaded
  <2>2. CASE DeliverableEditBegin(r)
    BY <2>2, BeginIInv DEF DeliverableEditBegin, Loaded
  <2>3. CASE DeliverableDeleteBegin(r)
    BY <2>3, BeginIInv DEF DeliverableDeleteBegin, Loaded
  <2>4. CASE DeliverableWaiveBegin(r)
    BY <2>4, BeginIInv DEF DeliverableWaiveBegin, Loaded
  <2>5. CASE DeliverableCreateCommit(r)
    BY <2>5, DeliverableCreateIInv
  <2>6. CASE DeliverableDeleteCommit(r)
    BY <2>6, DeliverableDeleteIInv
  <2>7. CASE DeliverableEditCommit(r) \/ DeliverableWaiveCommit(r)
    <3>1. req[r].d \in DeliverableIds
      BY <2>7, LoadedFields
      DEF IInv, TypeOK, DeliverableEditCommit, DeliverableWaiveCommit, Serving
    <3>2. /\ Finish(r)
          /\ UNCHANGED <<project, dstatus, vstate, vof, vnum, decisions, trail, signoffs>>
          /\ required' \subseteq required \cup {req[r].d}
          /\ waived' \subseteq waived \cup {req[r].d}
      BY <2>7 DEF DeliverableEditCommit, DeliverableWaiveCommit, versionVars
    <3>3. TypeOK'
      BY <3>1, <3>2 DEF IInv, TypeOK, Finish
    <3>4. QED
      BY <3>2, <3>3, FinishIInv
  <2>8. QED
    BY <1>2, <2>1, <2>2, <2>3, <2>4, <2>5, <2>6, <2>7 DEF DeliverableStep
<1>3. ASSUME NEW r \in Requests, VersionStep(r) PROVE IInv'
  <2>1. CASE VersionCreateBegin(r)
    BY <2>1, BeginIInv DEF VersionCreateBegin, Loaded
  <2>2. CASE TransitionBegin(r)
    <3>1. PICK v \in VersionIds, to \in {"shared", "withdrawn"} :
            /\ Transition(vstate[v], to, "staff")
            /\ Begin(r, [op |-> "transition", v |-> v, from |-> vstate[v], to |-> to])
      BY <2>2 DEF TransitionBegin
    <3>2. vstate[v] \in VersionState
      BY <3>1 DEF Transition, VersionState
    <3>3. QED
      BY <3>1, <3>2, BeginIInv DEF Loaded, VersionState
  <2>3. CASE VersionDeleteBegin(r)
    BY <2>3, BeginIInv DEF VersionDeleteBegin, Loaded
  <2>4. CASE PortalDecideBegin(r)
    BY <2>4, BeginIInv DEF PortalDecideBegin, Loaded
  <2>5. QED
    BY <1>3, <2>1, <2>2, <2>3, <2>4, VersionCreateIInv, TransitionIInv, VersionDeleteIInv,
       PortalDecideIInv DEF VersionStep
<1>4. ASSUME NEW r \in Requests, ProjectStep(r) PROVE IInv'
  <2>1. CASE SignoffBegin(r)
    BY <2>1, BeginIInv DEF SignoffBegin, Loaded
  <2>2. CASE ProjectCloseBegin(r)
    BY <2>2, BeginIInv DEF ProjectCloseBegin, Loaded
  <2>3. CASE ProjectReopenBegin(r)
    BY <2>3, BeginIInv DEF ProjectReopenBegin, Loaded
  <2>4. CASE SignoffHandoff(r)
    BY <2>4, SignoffHandoffIInv
  <2>5. CASE SignoffRecord(r) \/ ProjectCloseCommit(r) \/ ProjectReopenCommit(r)
    <3>1. /\ Finish(r)
          /\ UNCHANGED <<dstatus, required, waived, vstate, vof, vnum, decisions, trail>>
          /\ project' \in {"active", "closed"}
      BY <2>5 DEF SignoffRecord, ProjectCloseCommit, ProjectReopenCommit, deliverableVars,
                  versionVars
    <3>2. signoffs' \in Seq(SUBSET HandoffRow)
      <4>1. CASE SignoffRecord(r)
        <5>1. req[r].rows \in SUBSET HandoffRow
          BY <4>1, LoadedFields DEF SignoffRecord, Serving, IInv, TypeOK
        <5>2. signoffs \in Seq(SUBSET HandoffRow) /\ signoffs' = Append(signoffs, req[r].rows)
          BY <4>1 DEF SignoffRecord, IInv, TypeOK
        <5>3. QED
          BY <5>1, <5>2
      <4>2. CASE ProjectCloseCommit(r) \/ ProjectReopenCommit(r)
        BY <4>2 DEF ProjectCloseCommit, ProjectReopenCommit, IInv, TypeOK
      <4>3. QED
        BY <2>5, <4>1, <4>2
    <3>3. TypeOK'
      BY <3>1, <3>2 DEF IInv, TypeOK, Finish
    <3>4. QED
      BY <3>1, <3>3, FinishIInv
  <2>6. QED
    BY <1>4, <2>1, <2>2, <2>3, <2>4, <2>5 DEF ProjectStep
<1>5. CASE UNCHANGED vars
  BY <1>5 DEF vars, IInv, TypeOK, RowsLive, NumbersDistinct, NumbersFromOne, OnlyNewestOpen,
              LoadedLegal, VersionsOf
<1>6. QED
  BY <1>1, <1>2, <1>3, <1>4, <1>5 DEF Next

\* The inductive invariant holds in every reachable state.
THEOREM Invariant == Spec => []IInv
<1>1. QED
  BY InitIInv, StepIInv, PTL DEF Spec

\* The tables and the loaded requests keep their types.
THEOREM TypeCorrect == Spec => []TypeOK
<1>1. IInv => TypeOK
  BY DEF IInv
<1>2. QED
  BY <1>1, Invariant, PTL

\* Whatever requests race, only the newest version of a deliverable is a draft or
\* awaits a decision.
THEOREM OneOpenVersion == Spec => []OnlyNewestOpen
<1>1. IInv => OnlyNewestOpen
  BY DEF IInv
<1>2. QED
  BY <1>1, Invariant, PTL

-----------------------------------------------------------------------------
(* Every step, as the versions see it *)

\* A draft is added above the newest version.
Added(v, d) ==
  /\ vstate[v] = "free"
  /\ NewVersionAllowed(LatestState(d))
  /\ vstate' = [vstate EXCEPT ![v] = "draft"]
  /\ vof' = [vof EXCEPT ![v] = d]
  /\ vnum' = [vnum EXCEPT ![v] = LatestNumber(d) + 1]
  /\ trail' = IF NeedsReason(LatestState(d))
              THEN [trail EXCEPT ![v] = Append(@, "deliverable.reopened")]
              ELSE trail
  /\ UNCHANGED <<decisions, signoffs>>

\* A version is shared or withdrawn by staff.
Passed(v, to) ==
  /\ Transition(vstate[v], to, "staff")
  /\ vstate' = [vstate EXCEPT ![v] = to]
  /\ trail' = [trail EXCEPT ![v] = Append(@, IF to = "shared" THEN "version.shared"
                                                              ELSE "version.withdrawn")]
  /\ UNCHANGED <<vof, vnum, decisions, signoffs>>

\* A version is decided on by the client.
Decided(v, to) ==
  /\ vstate[v] = "shared"
  /\ vstate' = [vstate EXCEPT ![v] = to]
  /\ decisions' = [decisions EXCEPT ![v] = Append(@, to)]
  /\ trail' = [trail EXCEPT ![v] =
                 Append(@, IF to = "approved" THEN "decision.approved"
                                              ELSE "decision.revision_requested")]
  /\ UNCHANGED <<vof, vnum, signoffs>>

\* Drafts of one deliverable are removed.
Dropped(d, S) ==
  /\ \A v \in S : vstate[v] = "draft" /\ vof[v] = d
  /\ vstate' = [v \in VersionIds |-> IF v \in S THEN "deleted" ELSE vstate[v]]
  /\ vof' = [v \in VersionIds |-> IF v \in S THEN NoDeliverable ELSE vof[v]]
  /\ vnum' = [v \in VersionIds |-> IF v \in S THEN 0 ELSE vnum[v]]
  /\ UNCHANGED <<decisions, trail, signoffs>>

\* A sign-off is recorded, with the checklist a request has loaded.
Recorded(r) ==
  /\ req[r].op = "signoffRecord"
  /\ signoffs' = Append(signoffs, req[r].rows)
  /\ UNCHANGED <<vstate, vof, vnum, decisions, trail>>

StepKinds ==
  \/ UNCHANGED <<vstate, vof, vnum, decisions, trail, signoffs>>
  \/ \E d \in DeliverableIds, v \in VersionIds : Added(v, d)
  \/ \E v \in VersionIds, to \in {"shared", "withdrawn"} : Passed(v, to)
  \/ \E v \in VersionIds, to \in Decision : Decided(v, to)
  \/ \E d \in DeliverableIds, S \in SUBSET VersionIds : Dropped(d, S)
  \/ \E r \in Requests : Recorded(r)

LEMMA StepsAre == IInv /\ [Next]_vars => StepKinds
<1> SUFFICES ASSUME IInv, [Next]_vars PROVE StepKinds
  OBVIOUS
<1>1. ASSUME NEW r \in Requests, Abort(r) PROVE StepKinds
  BY <1>1 DEF Abort, tables, versionVars, StepKinds
<1>2. ASSUME NEW r \in Requests, DeliverableStep(r) PROVE StepKinds
  <2>1. CASE DeliverableDeleteCommit(r)
    <3>1. PICK d \in DeliverableIds : d = req[r].d
      BY <2>1, LoadedFields DEF IInv, TypeOK, DeliverableDeleteCommit, Serving
    <3>2. Dropped(d, VersionsOf(d))
      BY <2>1, <3>1 DEF DeliverableDeleteCommit, AllDraft, VersionsOf, Dropped
    <3>3. VersionsOf(d) \in SUBSET VersionIds
      BY DEF VersionsOf
    <3>4. QED
      BY <3>2, <3>3 DEF StepKinds
  <2>2. CASE ~DeliverableDeleteCommit(r)
    <3>1. UNCHANGED <<vstate, vof, vnum, decisions, trail, signoffs>>
      BY <1>2, <2>2 DEF DeliverableStep, DeliverableCreateBegin, DeliverableCreateCommit,
         DeliverableEditBegin, DeliverableEditCommit, DeliverableDeleteBegin,
         DeliverableWaiveBegin, DeliverableWaiveCommit, Begin, tables, versionVars
    <3>2. QED
      BY <3>1 DEF StepKinds
  <2>3. QED
    BY <2>1, <2>2
<1>3. ASSUME NEW r \in Requests, VersionStep(r) PROVE StepKinds
  <2>1. CASE VersionCreateBegin(r) \/ TransitionBegin(r) \/ VersionDeleteBegin(r)
             \/ PortalDecideBegin(r)
    <3>1. UNCHANGED <<vstate, vof, vnum, decisions, trail, signoffs>>
      BY <2>1 DEF VersionCreateBegin, TransitionBegin, VersionDeleteBegin, PortalDecideBegin,
         Begin, tables, versionVars
    <3>2. QED
      BY <3>1 DEF StepKinds
  <2>2. CASE VersionCreateCommit(r)
    <3>1. PICK d \in DeliverableIds : d = req[r].d
      BY <2>2, LoadedFields DEF IInv, TypeOK, VersionCreateCommit, Serving
    <3>2. \E v \in VersionIds : Added(v, d)
      BY <2>2, <3>1 DEF VersionCreateCommit, Added
    <3>3. QED
      BY <3>2 DEF StepKinds
  <2>3. CASE TransitionCommit(r)
    <3>1. PICK v \in VersionIds, to \in VersionState : v = req[r].v /\ to = req[r].to
      BY <2>3, LoadedFields DEF IInv, TypeOK, TransitionCommit, Serving
    <3>2. Transition(vstate[v], to, "staff")
      BY <2>3, <3>1 DEF IInv, LoadedLegal, TransitionCommit, Serving, StillIn
    <3>3. to \in {"shared", "withdrawn"}
      BY <3>2 DEF Transition
    <3>4. Passed(v, to)
      BY <2>3, <3>1, <3>2 DEF TransitionCommit, Passed
    <3>5. QED
      BY <3>3, <3>4 DEF StepKinds
  <2>4. CASE VersionDeleteCommit(r)
    <3>1. PICK v \in VersionIds : v = req[r].v
      BY <2>4, LoadedFields DEF IInv, TypeOK, VersionDeleteCommit, Serving
    <3>2. vstate[v] = "draft"
      BY <2>4, <3>1 DEF VersionDeleteCommit, StillIn
    <3>3. vof[v] \in DeliverableIds
      BY <3>2 DEF IInv, RowsLive, RowGone, TypeOK
    <3>4. Dropped(vof[v], {v})
      BY <2>4, <3>1, <3>2 DEF VersionDeleteCommit, Dropped, IInv, TypeOK
    <3>5. {v} \in SUBSET VersionIds
      OBVIOUS
    <3>6. QED
      BY <3>3, <3>4, <3>5 DEF StepKinds
  <2>5. CASE PortalDecideCommit(r)
    <3>1. PICK v \in VersionIds, to \in Decision : v = req[r].v /\ to = req[r].to
      BY <2>5, LoadedFields DEF IInv, TypeOK, PortalDecideCommit, Serving
    <3>2. Decided(v, to)
      BY <2>5, <3>1 DEF PortalDecideCommit, StillIn, Decided
    <3>3. QED
      BY <3>2 DEF StepKinds
  <2>6. QED
    BY <1>3, <2>1, <2>2, <2>3, <2>4, <2>5 DEF VersionStep
<1>4. ASSUME NEW r \in Requests, ProjectStep(r) PROVE StepKinds
  <2>1. CASE SignoffRecord(r)
    BY <2>1 DEF SignoffRecord, Serving, versionVars, Recorded, StepKinds
  <2>2. CASE ~SignoffRecord(r)
    BY <1>4, <2>2 DEF ProjectStep, SignoffBegin, SignoffHandoff, ProjectCloseBegin,
       ProjectCloseCommit, ProjectReopenBegin, ProjectReopenCommit, Begin, tables, versionVars,
       StepKinds
  <2>3. QED
    BY <2>1, <2>2
<1>5. CASE UNCHANGED vars
  BY <1>5 DEF vars, StepKinds
<1>6. QED
  BY <1>1, <1>2, <1>3, <1>4, <1>5 DEF Next

-----------------------------------------------------------------------------
(* The numbers *)

\* The numbers count the versions: as many as there are, from one.
LEMMA NumbersCount ==
  ASSUME IInv, NEW d \in DeliverableIds
  PROVE  /\ IsFiniteSet(VersionsOf(d)) /\ Cardinality(VersionsOf(d)) \in Nat
         /\ {vnum[v] : v \in VersionsOf(d)} = 1..Cardinality(VersionsOf(d))
<1> DEFINE S == VersionsOf(d)
           f == [v \in S |-> vnum[v]]
<1>1. PICK k \in Nat : /\ \A v \in S : vnum[v] \in 1..k
                       /\ \A n \in 1..k : \E v \in S : vnum[v] = n
  BY DEF IInv, NumbersFromOne
<1>2. IsFiniteSet(S)
  <2>1. S \in SUBSET VersionIds
    BY DEF VersionsOf
  <2>2. QED
    BY <2>1, VersionIdsAssumption, FS_Subset
<1>3. f \in Bijection(S, 1..k)
  <2>1. f \in [S -> 1..k]
    BY <1>1
  <2>2. \A a, b \in S : f[a] = f[b] => a = b
    BY DEF IInv, NumbersDistinct
  <2>3. \A n \in 1..k : \E v \in S : f[v] = n
    BY <1>1
  <2> HIDE DEF S, f
  <2>4. QED
    BY <2>1, <2>2, <2>3, Fun_IsBij
<1> HIDE DEF f
<1>4. ExistsBijection(S, 1..k)
  BY <1>3 DEF ExistsBijection
<1>5. Cardinality(1..k) = Cardinality(S)
  <2> HIDE DEF S
  <2>1. QED
    BY <1>2, <1>4, FS_Bijection
<1>6. Cardinality(1..k) = k
  BY FS_Interval, 1 \in Int, k \in Int
<1>7. QED
  BY <1>1, <1>2, <1>5, <1>6

\* Approval.NumbersGapFree: drafts deleted and uploads racing them leave the numbers
\* of a deliverable's versions 1..n.
THEOREM GapFree == Spec => []NumbersGapFree
<1>1. ASSUME IInv, NEW d \in DeliverableIds, dstatus[d] # "live"
      PROVE  VersionsOf(d) = {}
  BY <1>1, NoDeliverableAssumption DEF IInv, RowsLive, VersionsOf
<1>2. IInv => NumbersGapFree
  BY <1>1, NumbersCount DEF NumbersGapFree
<1>3. QED
  BY <1>2, Invariant, PTL

-----------------------------------------------------------------------------
(* The decisions *)

LEMMA DecisionsStep == IInv /\ DecisionsAgree /\ [Next]_vars => DecisionsAgree'
<1> SUFFICES ASSUME IInv, DecisionsAgree, [Next]_vars, NEW w \in VersionIds
             PROVE  IF vstate'[w] \in Decision THEN decisions'[w] = <<vstate'[w]>>
                                               ELSE decisions'[w] = <<>>
  BY DEF DecisionsAgree
<1>1. IF vstate[w] \in Decision THEN decisions[w] = <<vstate[w]>> ELSE decisions[w] = <<>>
  BY DEF DecisionsAgree
<1>2. /\ vstate \in [VersionIds -> VersionState \cup RowGone]
      /\ decisions \in [VersionIds -> Seq(Decision)]
  BY DEF IInv, TypeOK
<1>3. CASE UNCHANGED <<vstate, vof, vnum, decisions, trail, signoffs>>
  BY <1>1, <1>3
<1>4. ASSUME NEW d \in DeliverableIds, NEW v \in VersionIds, Added(v, d)
      PROVE  IF vstate'[w] \in Decision THEN decisions'[w] = <<vstate'[w]>>
                                        ELSE decisions'[w] = <<>>
  BY <1>1, <1>2, <1>4 DEF Added, Decision
<1>5. ASSUME NEW v \in VersionIds, NEW to \in {"shared", "withdrawn"}, Passed(v, to)
      PROVE  IF vstate'[w] \in Decision THEN decisions'[w] = <<vstate'[w]>>
                                        ELSE decisions'[w] = <<>>
  BY <1>1, <1>2, <1>5 DEF Passed, Decision, Transition
<1>6. ASSUME NEW v \in VersionIds, NEW to \in Decision, Decided(v, to)
      PROVE  IF vstate'[w] \in Decision THEN decisions'[w] = <<vstate'[w]>>
                                        ELSE decisions'[w] = <<>>
  <2>1. CASE w = v
    <3>1. decisions[w] = <<>>
      BY <1>1, <1>6, <2>1 DEF Decided, Decision
    <3>2. decisions'[w] = Append(<<>>, to) /\ vstate'[w] = to
      BY <1>2, <1>6, <2>1, <3>1 DEF Decided
    <3>3. Append(<<>>, to) = <<to>>
      OBVIOUS
    <3>4. QED
      BY <3>2, <3>3
  <2>2. CASE w # v
    BY <1>1, <1>2, <1>6, <2>2 DEF Decided
  <2>3. QED
    BY <2>1, <2>2
<1>7. ASSUME NEW d \in DeliverableIds, NEW S \in SUBSET VersionIds, Dropped(d, S)
      PROVE  IF vstate'[w] \in Decision THEN decisions'[w] = <<vstate'[w]>>
                                        ELSE decisions'[w] = <<>>
  BY <1>1, <1>2, <1>7 DEF Dropped, Decision
<1>8. ASSUME NEW r \in Requests, Recorded(r)
      PROVE  IF vstate'[w] \in Decision THEN decisions'[w] = <<vstate'[w]>>
                                        ELSE decisions'[w] = <<>>
  BY <1>1, <1>8 DEF Recorded
<1>9. QED
  BY <1>3, <1>4, <1>5, <1>6, <1>7, <1>8, StepsAre DEF StepKinds

\* Approval.DecisionsAgree: however decisions, withdrawals and deletions race, each
\* decided version carries its one decision row, and no other version carries any.
THEOREM OneDecisionEach == Spec => []DecisionsAgree
<1>1. Init => DecisionsAgree
  BY DEF Init, DecisionsAgree, Decision
<1>2. IInv /\ DecisionsAgree /\ [Next]_vars => DecisionsAgree'
  BY DecisionsStep
<1>3. QED
  BY <1>1, <1>2, Invariant, PTL DEF Spec

-----------------------------------------------------------------------------
(* The sign-offs *)

\* What a snapshot says is so.
Truthful(rows) ==
  /\ Ready(rows)
  /\ \A row \in rows : row.state = "approved" =>
       \E v \in VersionsOf(row.d) : vnum[v] = row.number /\ vstate[v] = "approved"

\* The checklist a sign-off has loaded is as truthful as the one it records.
LoadedTruthful ==
  \A r \in Requests : req[r].op = "signoffRecord" => Truthful(req[r].rows)

\* An approved version is approved for good: it is never moved, renumbered or removed.
LEMMA ApprovedStays ==
  ASSUME IInv, [Next]_vars, NEW v \in VersionIds, vstate[v] = "approved"
  PROVE  vstate'[v] = "approved" /\ vof'[v] = vof[v] /\ vnum'[v] = vnum[v]
<1>1. /\ vstate \in [VersionIds -> VersionState \cup RowGone]
      /\ vof \in [VersionIds -> DeliverableIds \cup {NoDeliverable}]
      /\ vnum \in [VersionIds -> Nat]
  BY DEF IInv, TypeOK
<1>2. StepKinds
  BY StepsAre
<1>3. ASSUME NEW d \in DeliverableIds, NEW w \in VersionIds, Added(w, d)
      PROVE  vstate'[v] = "approved" /\ vof'[v] = vof[v] /\ vnum'[v] = vnum[v]
  BY <1>1, <1>3 DEF Added
<1>4. ASSUME NEW w \in VersionIds, NEW to \in {"shared", "withdrawn"}, Passed(w, to)
      PROVE  vstate'[v] = "approved" /\ vof'[v] = vof[v] /\ vnum'[v] = vnum[v]
  BY <1>1, <1>4 DEF Passed, Transition
<1>5. ASSUME NEW w \in VersionIds, NEW to \in Decision, Decided(w, to)
      PROVE  vstate'[v] = "approved" /\ vof'[v] = vof[v] /\ vnum'[v] = vnum[v]
  BY <1>1, <1>5 DEF Decided
<1>6. ASSUME NEW d \in DeliverableIds, NEW S \in SUBSET VersionIds, Dropped(d, S)
      PROVE  vstate'[v] = "approved" /\ vof'[v] = vof[v] /\ vnum'[v] = vnum[v]
  BY <1>1, <1>6 DEF Dropped
<1>7. QED
  BY <1>2, <1>3, <1>4, <1>5, <1>6 DEF StepKinds, Recorded

LEMMA TruthStays ==
  ASSUME IInv, [Next]_vars, NEW rows, rows \in SUBSET HandoffRow, Truthful(rows)
  PROVE  Truthful(rows)'
<1>1. ASSUME NEW row \in rows, row.state = "approved"
      PROVE  \E v \in VersionsOf(row.d)' : vnum'[v] = row.number /\ vstate'[v] = "approved"
  <2>1. PICK v \in VersionsOf(row.d) : vnum[v] = row.number /\ vstate[v] = "approved"
    BY <1>1 DEF Truthful
  <2>2. v \in VersionIds /\ vof[v] = row.d
    BY DEF VersionsOf
  <2>3. vstate'[v] = "approved" /\ vof'[v] = vof[v] /\ vnum'[v] = vnum[v]
    BY <2>1, <2>2, ApprovedStays
  <2>4. QED
    BY <2>1, <2>2, <2>3 DEF VersionsOf
<1>2. Ready(rows)
  BY DEF Truthful
<1>3. QED
  BY <1>1, <1>2 DEF Truthful, Ready, Satisfied

\* The checklist is truthful when it is read: it names the newest versions.
LEMMA HandoffTruthful ==
  ASSUME IInv, Ready(Handoff)
  PROVE  Truthful(Handoff)
<1>1. ASSUME NEW row \in Handoff, row.state = "approved"
      PROVE  \E v \in VersionsOf(row.d) : vnum[v] = row.number /\ vstate[v] = "approved"
  <2>1. PICK d \in required : row = [d |-> d, number |-> LatestNumber(d),
                                     state |-> LatestState(d), waived |-> d \in waived]
    BY DEF Handoff
  <2>2. d \in DeliverableIds
    BY DEF IInv, TypeOK
  <2>3. LatestState(d) = "approved" /\ row.d = d /\ row.number = LatestNumber(d)
    BY <1>1, <2>1
  <2>4. VersionsOf(d) # {}
    BY <2>3 DEF LatestState, NoState
  <2>5. \E v \in VersionsOf(d) : vstate[v] = LatestState(d) /\ vnum[v] = LatestNumber(d)
    BY <2>2, <2>4, LatestFacts DEF IInv
  <2>6. QED
    BY <2>3, <2>5
<1>2. QED
  BY <1>1 DEF Truthful

\* A request that comes to hold a checklist has just read it.
LEMMA HandoffRead ==
  ASSUME IInv, [Next]_vars, NEW s \in Requests, req'[s].op = "signoffRecord"
  PROVE  \/ req'[s] = req[s]
         \/ /\ Ready(Handoff) /\ req'[s].rows = Handoff
            /\ UNCHANGED <<vstate, vof, vnum>>
<1>1. req \in [Requests -> Loaded \cup {Idle}]
  BY DEF IInv, TypeOK
<1>2. ASSUME NEW r \in Requests, NEW q, Begin(r, q), q.op # "signoffRecord"
      PROVE  req'[s] = req[s]
  BY <1>1, <1>2 DEF Begin
<1>3. ASSUME NEW r \in Requests, Finish(r)
      PROVE  req'[s] = req[s]
  BY <1>1, <1>3 DEF Finish, Idle
<1>4. ASSUME NEW r \in Requests, DeliverableStep(r) PROVE req'[s] = req[s]
  <2>1. CASE Finish(r)
    BY <1>3, <2>1
  <2>2. CASE ~Finish(r)
    BY <1>2, <1>4, <2>2
    DEF DeliverableStep, DeliverableCreateBegin, DeliverableCreateCommit,
        DeliverableEditBegin, DeliverableEditCommit, DeliverableDeleteBegin,
        DeliverableDeleteCommit, DeliverableWaiveBegin, DeliverableWaiveCommit
  <2>3. QED
    BY <2>1, <2>2
<1>5. ASSUME NEW r \in Requests, VersionStep(r) PROVE req'[s] = req[s]
  <2>1. CASE Finish(r)
    BY <1>3, <2>1
  <2>2. CASE ~Finish(r)
    BY <1>2, <1>5, <2>2
    DEF VersionStep, VersionCreateBegin, VersionCreateCommit, TransitionBegin,
        TransitionCommit, VersionDeleteBegin, VersionDeleteCommit, PortalDecideBegin,
        PortalDecideCommit
  <2>3. QED
    BY <2>1, <2>2
<1>6. ASSUME NEW r \in Requests, SignoffHandoff(r)
      PROVE  \/ req'[s] = req[s]
             \/ /\ Ready(Handoff) /\ req'[s].rows = Handoff
                /\ UNCHANGED <<vstate, vof, vnum>>
  BY <1>1, <1>6 DEF SignoffHandoff, tables, versionVars
<1>7. ASSUME NEW r \in Requests, ProjectStep(r), ~SignoffHandoff(r) PROVE req'[s] = req[s]
  <2>1. CASE Finish(r)
    BY <1>3, <2>1
  <2>2. CASE ~Finish(r)
    BY <1>2, <1>7, <2>2
    DEF ProjectStep, SignoffBegin, SignoffRecord, ProjectCloseBegin, ProjectCloseCommit,
        ProjectReopenBegin, ProjectReopenCommit
  <2>3. QED
    BY <2>1, <2>2
<1>8. CASE UNCHANGED vars
  BY <1>8 DEF vars
<1>9. QED
  BY <1>3, <1>4, <1>5, <1>6, <1>7, <1>8 DEF Next, Abort

LEMMA SnapshotStep ==
  IInv /\ LoadedTruthful /\ SnapshotTruthful /\ [Next]_vars
    => LoadedTruthful' /\ SnapshotTruthful'
<1> SUFFICES ASSUME IInv, LoadedTruthful, SnapshotTruthful, [Next]_vars
             PROVE  LoadedTruthful' /\ SnapshotTruthful'
  OBVIOUS
<1>1. LoadedTruthful'
  <2>1. ASSUME NEW s \in Requests, req'[s].op = "signoffRecord"
        PROVE  Truthful(req[s].rows)'
    <3>1. CASE req'[s] = req[s]
      <4>1. req[s].rows \in SUBSET HandoffRow
        BY <2>1, <3>1, LoadedFields DEF IInv, TypeOK
      <4>2. Truthful(req[s].rows)
        BY <2>1, <3>1 DEF LoadedTruthful
      <4> DEFINE rows == req[s].rows
      <4>3. rows' = rows
        BY <3>1
      <4>4. \A rs \in SUBSET HandoffRow : Truthful(rs) => Truthful(rs)'
        BY TruthStays
      <4>5. QED
        BY <4>1, <4>2, <4>3, <4>4 DEF Truthful
    <3>2. CASE /\ Ready(Handoff) /\ req'[s].rows = Handoff
               /\ UNCHANGED <<vstate, vof, vnum>>
      <4>1. Truthful(Handoff)
        BY <3>2, HandoffTruthful
      <4>2. QED
        BY <3>2, <4>1 DEF Truthful, VersionsOf, Ready, Satisfied
    <3>3. QED
      BY <2>1, <3>1, <3>2, HandoffRead
  <2>2. QED
    BY <2>1 DEF LoadedTruthful
<1>2. SnapshotTruthful'
  <2>1. signoffs \in Seq(SUBSET HandoffRow)
    BY DEF IInv, TypeOK
  <2>2. \A i \in DOMAIN signoffs : signoffs[i] \in SUBSET HandoffRow /\ Truthful(signoffs[i])
    BY <2>1 DEF SnapshotTruthful, Truthful
  <2>3. \A rs \in SUBSET HandoffRow : Truthful(rs) => Truthful(rs)'
    BY TruthStays
  <2>4. ASSUME NEW i \in DOMAIN signoffs'
        PROVE  \E rs \in SUBSET HandoffRow : rs = signoffs'[i] /\ Truthful(rs)
    <3>1. CASE signoffs' = signoffs
      BY <2>2, <2>4, <3>1
    <3>2. ASSUME NEW r \in Requests, Recorded(r)
          PROVE  \E rs \in SUBSET HandoffRow : rs = signoffs'[i] /\ Truthful(rs)
      <4>1. req[r].rows \in SUBSET HandoffRow /\ Truthful(req[r].rows)
        BY <3>2, LoadedFields DEF Recorded, IInv, TypeOK, LoadedTruthful
      <4>2. signoffs' = Append(signoffs, req[r].rows)
        BY <3>2 DEF Recorded
      <4>3. \/ i \in DOMAIN signoffs /\ signoffs'[i] = signoffs[i]
           \/ signoffs'[i] = req[r].rows
        BY <2>1, <2>4, <4>1, <4>2
      <4>4. QED
        BY <2>2, <4>1, <4>3
    <3>3. QED
      BY <3>1, <3>2, StepsAre DEF StepKinds, Added, Passed, Decided, Dropped
  <2>5. \A i \in DOMAIN signoffs' : Truthful(signoffs[i])'
    BY <2>3, <2>4 DEF Truthful
  <2>6. QED
    BY <2>5 DEF SnapshotTruthful, Truthful
<1>3. QED
  BY <1>1, <1>2

\* Approval.SnapshotTruthful: a sign-off recorded on a checklist read earlier calls
\* approved what is approved still, whatever happened in between or since.
THEOREM SignoffsTruthful == Spec => []SnapshotTruthful
<1>1. Init => LoadedTruthful /\ SnapshotTruthful
  BY DEF Init, LoadedTruthful, SnapshotTruthful, Idle
<1>2. IInv /\ LoadedTruthful /\ SnapshotTruthful /\ [Next]_vars
        => LoadedTruthful' /\ SnapshotTruthful'
  BY SnapshotStep
<1>3. QED
  BY <1>1, <1>2, Invariant, PTL DEF Spec

-----------------------------------------------------------------------------
(* The audit trail *)

\* An id not drawn yet has no trail.
FreeUntold == \A v \in VersionIds : vstate[v] = "free" => trail[v] = <<>>

TrailInv == FreeUntold /\ AuditTrailAgrees

\* The trail begins with a reopening.
Reopening(t) == t # <<>> /\ Head(t) = "deliverable.reopened"

LEMMA PathType ==
  ASSUME NEW s, NEW p \in Paths(s)
  PROVE  p \in Seq(Event)
<1>1. /\ <<>> \in Seq(Event) /\ <<"version.shared">> \in Seq(Event)
      /\ <<"version.withdrawn">> \in Seq(Event)
      /\ <<"version.shared", "version.withdrawn">> \in Seq(Event)
      /\ <<"version.shared", "decision.approved">> \in Seq(Event)
      /\ <<"version.shared", "decision.revision_requested">> \in Seq(Event)
  BY DEF Event
<1>2. QED
  BY <1>1 DEF Paths

\* One more event lengthens the path, and leaves a reopening where it was.
LEMMA OneMore ==
  ASSUME NEW t \in Seq(Event), NEW p \in Seq(Event), NEW e \in Event,
         t \in {p, <<"deliverable.reopened">> \o p}
  PROVE  Append(t, e) \in {Append(p, e), <<"deliverable.reopened">> \o Append(p, e)}
<1>1. <<"deliverable.reopened">> \in Seq(Event)
  BY DEF Event
<1>2. Append(<<"deliverable.reopened">> \o p, e) = <<"deliverable.reopened">> \o Append(p, e)
  BY <1>1, AppendIsConcat, ConcatAssociative
<1>3. QED
  BY <1>2

LEMMA ReopeningStays ==
  ASSUME NEW t \in Seq(Event), NEW e \in Event, e # "deliverable.reopened"
  PROVE  Reopening(Append(t, e)) <=> Reopening(t)
<1>1. CASE t = <<>>
  <2>1. Append(t, e) = <<e>> /\ Head(<<e>>) = e
    BY <1>1
  <2>2. QED
    BY <1>1, <2>1 DEF Reopening
<1>2. CASE t # <<>>
  BY <1>2 DEF Reopening
<1>3. QED
  BY <1>1, <1>2

\* A path and the event that follows it make a path of the state that follows.
LEMMA PathGoesOn ==
  ASSUME NEW from, NEW to, NEW e \in Event, NEW p \in Paths(from),
         \/ from = "draft" /\ to = "shared" /\ e = "version.shared"
         \/ from \in {"draft", "shared"} /\ to = "withdrawn" /\ e = "version.withdrawn"
         \/ from = "shared" /\ to = "approved" /\ e = "decision.approved"
         \/ from = "shared" /\ to = "revision_requested" /\ e = "decision.revision_requested"
  PROVE  Append(p, e) \in Paths(to)
<1>1. from = "draft" => p = <<>>
  BY DEF Paths
<1>2. from = "shared" => p = <<"version.shared">>
  BY DEF Paths
<1>3. Append(<<>>, e) = <<e>> /\ Append(<<"version.shared">>, e) = <<"version.shared", e>>
  <2>1. <<>> \in Seq(Event) /\ <<"version.shared">> \in Seq(Event)
    BY DEF Event
  <2>2. <<"version.shared", e>> \in Seq(Event)
    BY DEF Event
  <2>3. Append(<<>>, e) = <<e>>
    OBVIOUS
  <2>4. /\ Len(Append(<<"version.shared">>, e)) = 2
        /\ Append(<<"version.shared">>, e)[1] = "version.shared"
        /\ Append(<<"version.shared">>, e)[2] = e
    BY <2>1
  <2>5. Append(<<"version.shared">>, e) = <<"version.shared", e>>
    <3> DEFINE s == Append(<<"version.shared">>, e)
               t == <<"version.shared", e>>
    <3>1. s \in Seq(Event) /\ Len(s) = 2 /\ s[1] = "version.shared" /\ s[2] = e
      BY <2>1, <2>4
    <3>2. t \in Seq(Event) /\ Len(t) = 2 /\ t[1] = "version.shared" /\ t[2] = e
      BY <2>2
    <3> HIDE DEF s, t
    <3>3. \A i \in 1..Len(s) : s[i] = t[i]
      <4>1. \A i \in 1..2 : i = 1 \/ i = 2
        OBVIOUS
      <4>2. QED
        BY <3>1, <3>2, <4>1
    <3>4. s = t
      BY <3>1, <3>2, <3>3, SeqEqual
    <3>5. QED
      BY <3>4 DEF s, t
  <2>6. QED
    BY <2>3, <2>5
<1>4. CASE from = "draft"
  BY <1>1, <1>3, <1>4 DEF Paths
<1>5. CASE from = "shared"
  BY <1>2, <1>3, <1>5 DEF Paths
<1>6. QED
  BY <1>4, <1>5

\* A version moves: its trail goes on.
LEMMA MoveAudited ==
  ASSUME IInv, TrailInv, NEW v \in VersionIds, NEW to \in VersionState, NEW e \in Event,
         \/ vstate[v] = "draft" /\ to = "shared" /\ e = "version.shared"
         \/ vstate[v] \in {"draft", "shared"} /\ to = "withdrawn" /\ e = "version.withdrawn"
         \/ vstate[v] = "shared" /\ to = "approved" /\ e = "decision.approved"
         \/ /\ vstate[v] = "shared" /\ to = "revision_requested"
            /\ e = "decision.revision_requested",
         vstate' = [vstate EXCEPT ![v] = to],
         trail' = [trail EXCEPT ![v] = Append(@, e)],
         UNCHANGED <<vof, vnum>>
  PROVE  TrailInv'
<1>1. /\ vstate \in [VersionIds -> VersionState \cup RowGone]
      /\ trail \in [VersionIds -> Seq(Event)]
  BY DEF IInv, TypeOK
<1>2. FreeUntold'
  BY <1>1 DEF TrailInv, FreeUntold, VersionState
<1>3. ASSUME NEW w \in VersionIds PROVE PathAudited(w)'
  <2>1. PICK p \in Paths(vstate[w]) : trail[w] \in {p, <<"deliverable.reopened">> \o p}
    BY DEF TrailInv, AuditTrailAgrees, PathAudited
  <2>2. CASE w = v
    <3>1. Append(p, e) \in Paths(to)
      BY <2>1, <2>2, PathGoesOn
    <3>2. p \in Seq(Event) /\ trail[v] \in Seq(Event)
      BY <1>1, <2>1, PathType
    <3>3. Append(trail[v], e) \in {Append(p, e), <<"deliverable.reopened">> \o Append(p, e)}
      BY <2>1, <2>2, <3>2, OneMore
    <3>4. vstate'[w] = to /\ trail'[w] = Append(trail[v], e)
      BY <1>1, <2>2
    <3>5. QED
      BY <3>1, <3>3, <3>4 DEF PathAudited
  <2>3. CASE w # v
    BY <1>1, <2>1, <2>3 DEF PathAudited
  <2>4. QED
    BY <2>2, <2>3
<1>4. ReopeningAudited'
  <2>1. ASSUME NEW d \in DeliverableIds, NEW u \in VersionsOf(d), NEW w \in VersionsOf(d),
               vnum[w] = vnum[u] + 1
        PROVE  vstate'[u] = "approved" <=> Reopening(trail'[w])
    <3>1. u \in VersionIds /\ w \in VersionIds /\ vnum[u] \in Nat
      BY DEF VersionsOf, IInv, TypeOK
    <3>2. vstate[u] \in TerminalState
      BY <2>1, <3>1 DEF IInv, OnlyNewestOpen
    <3>3. u # v /\ vstate'[u] = vstate[u]
      BY <1>1, <3>1, <3>2 DEF TerminalState
    <3>4. vstate[u] = "approved" <=> Reopening(trail[w])
      BY <2>1 DEF TrailInv, AuditTrailAgrees, ReopeningAudited, Reopening
    <3>5. Reopening(trail'[w]) <=> Reopening(trail[w])
      <4>1. trail[w] \in Seq(Event) /\ e # "deliverable.reopened"
        BY <1>1, <3>1
      <4>2. trail'[w] = trail[w] \/ trail'[w] = Append(trail[w], e)
        BY <1>1, <3>1
      <4>3. QED
        BY <4>1, <4>2, ReopeningStays
    <3>6. QED
      BY <3>3, <3>4, <3>5
  <2>2. \A d \in DeliverableIds : VersionsOf(d)' = VersionsOf(d)
    BY DEF VersionsOf
  <2>3. QED
    BY <2>1, <2>2 DEF ReopeningAudited, Reopening
<1>5. QED
  BY <1>2, <1>3, <1>4 DEF TrailInv, AuditTrailAgrees

LEMMA AddAudited ==
  ASSUME IInv, TrailInv, NEW d \in DeliverableIds, NEW v \in VersionIds, Added(v, d)
  PROVE  TrailInv'
<1>1. /\ vstate \in [VersionIds -> VersionState \cup RowGone]
      /\ trail \in [VersionIds -> Seq(Event)]
      /\ vof \in [VersionIds -> DeliverableIds \cup {NoDeliverable}]
      /\ vnum \in [VersionIds -> Nat]
  BY DEF IInv, TypeOK
<1>2. /\ vstate[v] = "free" /\ trail[v] = <<>>
      /\ vstate' = [vstate EXCEPT ![v] = "draft"]
      /\ vof' = [vof EXCEPT ![v] = d]
      /\ vnum' = [vnum EXCEPT ![v] = LatestNumber(d) + 1]
  BY DEF Added, TrailInv, FreeUntold
<1>3. /\ LatestState(d) = "approved" => trail'[v] = <<"deliverable.reopened">>
      /\ LatestState(d) # "approved" => trail'[v] = <<>>
      /\ \A w \in VersionIds \ {v} : trail'[w] = trail[w]
  <2>1. Append(<<>>, "deliverable.reopened") = <<"deliverable.reopened">>
    OBVIOUS
  <2>2. CASE LatestState(d) = "approved"
    <3>1. trail' = [trail EXCEPT ![v] = Append(@, "deliverable.reopened")]
      BY <2>2 DEF Added, NeedsReason
    <3>2. QED
      BY <1>1, <1>2, <2>1, <2>2, <3>1
  <2>3. CASE LatestState(d) # "approved"
    BY <1>2, <2>3 DEF Added, NeedsReason
  <2>4. QED
    BY <2>2, <2>3
<1>4. vof[v] = NoDeliverable
  BY <1>2 DEF IInv, RowsLive, RowGone
<1>5. FreeUntold'
  BY <1>1, <1>2, <1>3 DEF TrailInv, FreeUntold
<1>6. ASSUME NEW w \in VersionIds PROVE PathAudited(w)'
  <2>1. CASE w = v
    <3>1. <<>> \in Paths("draft") /\ vstate'[v] = "draft"
      BY <1>1, <1>2 DEF Paths
    <3>2. <<"deliverable.reopened">> \o <<>> = <<"deliverable.reopened">>
      OBVIOUS
    <3>3. trail'[v] \in {<<>>, <<"deliverable.reopened">> \o <<>>}
      BY <1>3, <3>2
    <3>4. QED
      BY <2>1, <3>1, <3>3 DEF PathAudited
  <2>2. CASE w # v
    BY <1>1, <1>2, <1>3, <2>2 DEF PathAudited, TrailInv, AuditTrailAgrees
  <2>3. QED
    BY <2>1, <2>2
<1>7. ReopeningAudited'
  <2>1. /\ LatestNumber(d) \in Nat
        /\ \A w \in VersionsOf(d) : vnum[w] <= LatestNumber(d)
        /\ VersionsOf(d) # {} =>
             \E w \in VersionsOf(d) : vstate[w] = LatestState(d) /\ vnum[w] = LatestNumber(d)
    BY LatestFacts DEF IInv
  <2>2. ASSUME NEW c \in DeliverableIds, NEW u \in VersionsOf(c)', NEW w \in VersionsOf(c)',
               vnum'[w] = vnum'[u] + 1
        PROVE  vstate'[u] = "approved" <=> Reopening(trail'[w])
    <3>1. u \in VersionIds /\ w \in VersionIds /\ vof'[u] = c /\ vof'[w] = c
      BY DEF VersionsOf
    <3>2. vnum'[u] \in Nat
      BY <1>1, <1>2, <2>1, <3>1
    <3>3. u # w
      BY <2>2, <3>2
    <3>4. CASE w = v
      <4>1. c = d /\ u \in VersionsOf(d) /\ vnum'[u] = vnum[u] /\ vstate'[u] = vstate[u]
        BY <1>1, <1>2, <3>1, <3>3, <3>4 DEF VersionsOf
      <4>2. vnum[u] = LatestNumber(d)
        BY <1>1, <1>2, <2>1, <2>2, <3>1, <3>4, <4>1
      <4>3. vstate[u] = LatestState(d)
        BY <2>1, <4>1, <4>2 DEF IInv, NumbersDistinct
      <4>4. Reopening(<<"deliverable.reopened">>) /\ ~Reopening(<<>>)
        BY DEF Reopening
      <4>5. QED
        BY <1>3, <3>4, <4>1, <4>3, <4>4
    <3>5. CASE u = v
      <4>1. c = d /\ w \in VersionsOf(d) /\ vnum'[w] = vnum[w]
        BY <1>1, <1>2, <3>1, <3>3, <3>5 DEF VersionsOf
      <4>2. vnum[w] = LatestNumber(d) + 2
        BY <1>1, <1>2, <2>1, <2>2, <3>5, <4>1
      <4>3. QED
        BY <2>1, <4>1, <4>2
    <3>6. CASE w # v /\ u # v
      <4>1. /\ u \in VersionsOf(c) /\ w \in VersionsOf(c) /\ vnum[w] = vnum[u] + 1
            /\ vstate'[u] = vstate[u] /\ trail'[w] = trail[w]
        BY <1>1, <1>2, <1>3, <2>2, <3>1, <3>6 DEF VersionsOf
      <4>2. vstate[u] = "approved" <=> Reopening(trail[w])
        BY <4>1 DEF TrailInv, AuditTrailAgrees, ReopeningAudited, Reopening
      <4>3. QED
        BY <4>1, <4>2
    <3>7. QED
      BY <3>4, <3>5, <3>6
  <2>3. QED
    BY <2>2 DEF ReopeningAudited, Reopening
<1>8. QED
  BY <1>5, <1>6, <1>7 DEF TrailInv, AuditTrailAgrees

LEMMA DropAudited ==
  ASSUME IInv, TrailInv, NEW d \in DeliverableIds, NEW S \in SUBSET VersionIds, Dropped(d, S)
  PROVE  TrailInv'
<1>1. /\ \A v \in S : vstate[v] = "draft"
      /\ vstate' = [v \in VersionIds |-> IF v \in S THEN "deleted" ELSE vstate[v]]
      /\ vof' = [v \in VersionIds |-> IF v \in S THEN NoDeliverable ELSE vof[v]]
      /\ vnum' = [v \in VersionIds |-> IF v \in S THEN 0 ELSE vnum[v]]
      /\ trail' = trail
  BY DEF Dropped
<1>2. FreeUntold'
  BY <1>1 DEF TrailInv, FreeUntold
<1>3. ASSUME NEW w \in VersionIds PROVE PathAudited(w)'
  <2>1. PICK p \in Paths(vstate[w]) : trail[w] \in {p, <<"deliverable.reopened">> \o p}
    BY DEF TrailInv, AuditTrailAgrees, PathAudited
  <2>2. p \in Paths(vstate'[w])
    <3>1. Paths("draft") = Paths("deleted")
      BY DEF Paths
    <3>2. QED
      BY <1>1, <3>1
  <2>3. QED
    BY <1>1, <2>1, <2>2 DEF PathAudited
<1>4. ReopeningAudited'
  <2>1. ASSUME NEW c \in DeliverableIds, NEW u \in VersionsOf(c)', NEW w \in VersionsOf(c)',
               vnum'[w] = vnum'[u] + 1
        PROVE  vstate'[u] = "approved" <=> Reopening(trail'[w])
    <3>1. /\ u \in VersionsOf(c) /\ w \in VersionsOf(c) /\ vnum[w] = vnum[u] + 1
          /\ vstate'[u] = vstate[u]
      BY <1>1, <2>1, NoDeliverableAssumption DEF VersionsOf
    <3>2. vstate[u] = "approved" <=> Reopening(trail[w])
      BY <3>1 DEF TrailInv, AuditTrailAgrees, ReopeningAudited, Reopening
    <3>3. QED
      BY <1>1, <3>1, <3>2
  <2>2. QED
    BY <2>1 DEF ReopeningAudited, Reopening
<1>5. QED
  BY <1>2, <1>3, <1>4 DEF TrailInv, AuditTrailAgrees

LEMMA TrailStep == IInv /\ TrailInv /\ [Next]_vars => TrailInv'
<1> SUFFICES ASSUME IInv, TrailInv, [Next]_vars PROVE TrailInv'
  OBVIOUS
<1>1. CASE UNCHANGED <<vstate, vof, vnum, trail>>
  BY <1>1 DEF TrailInv, FreeUntold, AuditTrailAgrees, PathAudited, ReopeningAudited, VersionsOf
<1>2. ASSUME NEW v \in VersionIds, NEW to \in {"shared", "withdrawn"}, Passed(v, to)
      PROVE  TrailInv'
  <2> DEFINE e == IF to = "shared" THEN "version.shared" ELSE "version.withdrawn"
  <2>1. e \in Event /\ to \in VersionState
    BY DEF Event, VersionState
  <2>2. \/ vstate[v] = "draft" /\ to = "shared" /\ e = "version.shared"
        \/ vstate[v] \in {"draft", "shared"} /\ to = "withdrawn" /\ e = "version.withdrawn"
    BY <1>2 DEF Passed, Transition
  <2>3. /\ vstate' = [vstate EXCEPT ![v] = to]
        /\ trail' = [trail EXCEPT ![v] = Append(@, e)]
        /\ UNCHANGED <<vof, vnum>>
    BY <1>2 DEF Passed
  <2> HIDE DEF e
  <2>4. QED
    BY <2>1, <2>2, <2>3, MoveAudited
<1>3. ASSUME NEW v \in VersionIds, NEW to \in Decision, Decided(v, to)
      PROVE  TrailInv'
  <2> DEFINE e == IF to = "approved" THEN "decision.approved" ELSE "decision.revision_requested"
  <2>1. e \in Event /\ to \in VersionState
    BY DEF Event, VersionState, Decision
  <2>2. \/ vstate[v] = "shared" /\ to = "approved" /\ e = "decision.approved"
        \/ /\ vstate[v] = "shared" /\ to = "revision_requested"
           /\ e = "decision.revision_requested"
    BY <1>3 DEF Decided, Decision
  <2>3. /\ vstate' = [vstate EXCEPT ![v] = to]
        /\ trail' = [trail EXCEPT ![v] = Append(@, e)]
        /\ UNCHANGED <<vof, vnum>>
    BY <1>3 DEF Decided
  <2> HIDE DEF e
  <2>4. QED
    BY <2>1, <2>2, <2>3, MoveAudited
<1>4. QED
  BY <1>1, <1>2, <1>3, AddAudited, DropAudited, StepsAre DEF StepKinds, Recorded

\* Approval.AuditTrailAgrees: what each version's audit entries tell is the path its
\* row took, and the entries of a reopening are where an approved version was reopened.
THEOREM TrailAgrees == Spec => []AuditTrailAgrees
<1>1. Init => TrailInv
  <2> SUFFICES ASSUME Init PROVE TrailInv
    OBVIOUS
  <2>1. ASSUME NEW v \in VersionIds PROVE PathAudited(v)
    <3>1. <<>> \in Paths("free")
      BY DEF Paths
    <3>2. QED
      BY <3>1 DEF Init, PathAudited
  <2>2. \A d \in DeliverableIds : VersionsOf(d) = {}
    BY NoDeliverableAssumption DEF Init, VersionsOf
  <2>3. QED
    BY <2>1, <2>2 DEF Init, TrailInv, FreeUntold, AuditTrailAgrees, ReopeningAudited
<1>2. IInv /\ TrailInv /\ [Next]_vars => TrailInv'
  BY TrailStep
<1>3. TrailInv => AuditTrailAgrees
  BY DEF TrailInv
<1>4. QED
  BY <1>1, <1>2, <1>3, Invariant, PTL DEF Spec

-----------------------------------------------------------------------------
(* The contract *)

\* History lists the states of the versions, each at its number.
HistoryTrue == \A d \in DeliverableIds :
  /\ History[d] \in Seq(VersionState)
  /\ Len(History[d]) = Cardinality(VersionsOf(d))
  /\ \A v \in VersionsOf(d) : History[d][vnum[v]] = vstate[v]

\* And any sequence that does is History.
HistoryOnly == \A d \in DeliverableIds : \A s \in Seq(VersionState) :
  /\ Len(s) = Cardinality(VersionsOf(d))
  /\ \A v \in VersionsOf(d) : s[vnum[v]] = vstate[v]
  => History[d] = s

\* A version that is open has the last number.
OpenIsLast == \A d \in DeliverableIds : \A v \in VersionsOf(d) :
  vstate[v] \in {"draft", "shared"} => vnum[v] = Cardinality(VersionsOf(d))

LEMMA HistoryFacts == IInv => HistoryTrue /\ HistoryOnly /\ OpenIsLast
<1> SUFFICES ASSUME IInv PROVE HistoryTrue /\ HistoryOnly /\ OpenIsLast
  OBVIOUS
<1>1. ASSUME NEW d \in DeliverableIds, NEW v \in VersionsOf(d)
      PROVE  vstate[v] \in VersionState /\ v \in VersionIds
  BY NoDeliverableAssumption DEF IInv, RowsLive, TypeOK, VersionsOf
<1>2. ASSUME NEW d \in DeliverableIds
      PROVE  /\ History[d] \in Seq(VersionState)
             /\ Len(History[d]) = Cardinality(VersionsOf(d))
             /\ \A v \in VersionsOf(d) : History[d][vnum[v]] = vstate[v]
  <2> DEFINE k == Cardinality(VersionsOf(d))
             at(n) == CHOOSE v \in VersionsOf(d) : vnum[v] = n
  <2>1. k \in Nat /\ {vnum[v] : v \in VersionsOf(d)} = 1..k
    BY NumbersCount
  <2>2. History[d] = [n \in 1..k |-> vstate[at(n)]]
    BY DEF History
  <2>3. ASSUME NEW n \in 1..k
        PROVE  at(n) \in VersionsOf(d) /\ vnum[at(n)] = n
    <3>1. \E v \in VersionsOf(d) : vnum[v] = n
      BY <2>1
    <3>2. QED
      BY <3>1
  <2> HIDE DEF at
  <2>4. History[d] \in [1..k -> VersionState]
    <3>1. \A n \in 1..k : vstate[at(n)] \in VersionState
      BY <1>1, <2>3
    <3>2. QED
      BY <2>2, <3>1
  <2>5. ASSUME NEW v \in VersionsOf(d)
        PROVE  History[d][vnum[v]] = vstate[v]
    <3>1. vnum[v] \in 1..k
      BY <2>1
    <3>2. at(vnum[v]) = v
      BY <2>3, <3>1 DEF IInv, NumbersDistinct
    <3>3. QED
      BY <2>2, <3>1, <3>2
  <2> HIDE DEF k
  <2>6. History[d] \in Seq(VersionState) /\ Len(History[d]) = k
    BY <2>1, <2>4
  <2>7. QED
    BY <2>5, <2>6 DEF k
<1>3. ASSUME NEW d \in DeliverableIds, NEW s \in Seq(VersionState),
             Len(s) = Cardinality(VersionsOf(d)),
             \A v \in VersionsOf(d) : s[vnum[v]] = vstate[v]
      PROVE  History[d] = s
  <2>1. \A n \in 1..Len(s) : History[d][n] = s[n]
    <3>1. \A n \in 1..Len(s) : \E v \in VersionsOf(d) : vnum[v] = n
      BY <1>3, NumbersCount
    <3>2. QED
      BY <1>2, <1>3, <3>1
  <2>2. QED
    BY <1>2, <1>3, <2>1, SeqEqual
<1>4. OpenIsLast
  <2>1. ASSUME NEW d \in DeliverableIds, NEW v \in VersionsOf(d),
               vstate[v] \in {"draft", "shared"}
        PROVE  vnum[v] = Cardinality(VersionsOf(d))
    <3> DEFINE k == Cardinality(VersionsOf(d))
    <3>1. k \in Nat /\ {vnum[w] : w \in VersionsOf(d)} = 1..k
      BY NumbersCount
    <3>2. vnum[v] \in 1..k /\ k \in 1..k
      BY <3>1
    <3>3. PICK z \in VersionsOf(d) : vnum[z] = k
      BY <3>1, <3>2
    <3>4. ~(vnum[v] < vnum[z])
      BY <2>1 DEF IInv, OnlyNewestOpen, TerminalState
    <3>5. QED
      BY <3>2, <3>3, <3>4
  <2>2. QED
    BY <2>1 DEF OpenIsLast
<1>5. QED
  BY <1>2, <1>3, <1>4 DEF HistoryTrue, HistoryOnly

\* The deliverables a step leaves alone keep their history.
LEMMA SameHistory ==
  ASSUME HistoryTrue, HistoryOnly', NEW c \in DeliverableIds,
         VersionsOf(c)' = VersionsOf(c),
         \A v \in VersionsOf(c) : vstate'[v] = vstate[v] /\ vnum'[v] = vnum[v]
  PROVE  History'[c] = History[c]
<1>1. /\ History[c] \in Seq(VersionState)
      /\ Len(History[c]) = Cardinality(VersionsOf(c)')
      /\ \A v \in VersionsOf(c)' : History[c][vnum'[v]] = vstate'[v]
  BY DEF HistoryTrue
<1>2. QED
  BY <1>1 DEF HistoryOnly

\* One deliverable's history changes into s.
LEMMA OneHistory ==
  ASSUME HistoryTrue, HistoryOnly', NEW d \in DeliverableIds, NEW s \in Seq(VersionState),
         \A c \in DeliverableIds \ {d} :
           /\ VersionsOf(c)' = VersionsOf(c)
           /\ \A v \in VersionsOf(c) : vstate'[v] = vstate[v] /\ vnum'[v] = vnum[v],
         Len(s) = Cardinality(VersionsOf(d)'),
         \A v \in VersionsOf(d)' : s[vnum'[v]] = vstate'[v]
  PROVE  History' = [History EXCEPT ![d] = s]
<1>1. History'[d] = s
  BY DEF HistoryOnly
<1>2. \A c \in DeliverableIds \ {d} : History'[c] = History[c]
  BY SameHistory
<1>3. /\ History = [c \in DeliverableIds |-> History[c]]
      /\ History' = [c \in DeliverableIds |-> History'[c]]
  BY DEF History
<1> HIDE DEF History
<1>4. [History EXCEPT ![d] = s] = [c \in DeliverableIds |-> IF c = d THEN s ELSE History[c]]
  BY <1>3
<1>5. QED
  BY <1>1, <1>2, <1>3, <1>4

\* The newest state is the last of the history.
LEMMA LatestIsLast ==
  ASSUME IInv, HistoryTrue, NEW d \in DeliverableIds
  PROVE  /\ Contract!Latest(d) = LatestState(d)
         /\ LatestNumber(d) = Cardinality(VersionsOf(d))
<1> DEFINE k == Cardinality(VersionsOf(d))
<1>1. k \in Nat /\ {vnum[v] : v \in VersionsOf(d)} = 1..k /\ IsFiniteSet(VersionsOf(d))
  BY NumbersCount
<1>2. Len(History[d]) = k /\ History[d] \in Seq(VersionState)
  BY DEF HistoryTrue
<1>3. CASE VersionsOf(d) = {}
  <2>1. k = 0
    BY <1>3, FS_EmptySet
  <2>2. History[d] = <<>>
    BY <1>2, <2>1
  <2>3. QED
    BY <1>3, <2>1, <2>2 DEF LatestState, LatestNumber, Contract!Latest, Contract!NoState, NoState
<1>4. CASE VersionsOf(d) # {}
  <2>1. PICK w \in VersionsOf(d) : vstate[w] = LatestState(d) /\ vnum[w] = LatestNumber(d)
    BY <1>4, LatestFacts DEF IInv
  <2>2. \A v \in VersionsOf(d) : vnum[v] <= LatestNumber(d) /\ LatestNumber(d) \in Nat
    BY LatestFacts DEF IInv
  <2>3. LatestNumber(d) \in 1..k
    BY <1>1, <2>1
  <2>4. k \in 1..k
    BY <1>1, <2>3
  <2>5. PICK z \in VersionsOf(d) : vnum[z] = k
    BY <1>1, <2>4
  <2>6. LatestNumber(d) = k
    <3>1. vnum[z] <= LatestNumber(d)
      BY <2>2, <2>5
    <3>2. QED
      BY <1>1, <2>3, <2>5, <3>1
  <2>7. History[d][k] = LatestState(d)
    BY <2>1, <2>6 DEF HistoryTrue
  <2>8. History[d] # <<>>
    BY <1>2, <2>4
  <2>9. QED
    BY <1>2, <2>6, <2>7, <2>8 DEF Contract!Latest, Contract!Newest
<1>5. QED
  BY <1>3, <1>4

LEMMA AddsDraft ==
  ASSUME IInv, IInv', HistoryTrue, HistoryOnly', NEW d \in DeliverableIds,
         NEW v \in VersionIds, Added(v, d)
  PROVE  Contract!AddDraft(d)
<1> DEFINE k == Cardinality(VersionsOf(d))
           s == Append(History[d], "draft")
<1>1. /\ vstate[v] = "free"
      /\ vstate' = [vstate EXCEPT ![v] = "draft"]
      /\ vof' = [vof EXCEPT ![v] = d]
      /\ vnum' = [vnum EXCEPT ![v] = k + 1]
  BY LatestIsLast DEF Added
<1>2. vof[v] = NoDeliverable
  BY <1>1 DEF IInv, RowsLive, RowGone
<1>3. /\ VersionsOf(d)' = VersionsOf(d) \cup {v}
      /\ \A c \in DeliverableIds \ {d} : VersionsOf(c)' = VersionsOf(c)
      /\ \A c \in DeliverableIds : v \notin VersionsOf(c)
  BY <1>1, <1>2, NoDeliverableAssumption DEF VersionsOf, IInv, TypeOK
<1>4. \A c \in DeliverableIds : \A w \in VersionsOf(c) :
        vstate'[w] = vstate[w] /\ vnum'[w] = vnum[w]
  BY <1>1, <1>3 DEF VersionsOf, IInv, TypeOK
<1>5. k \in Nat /\ Cardinality(VersionsOf(d)') = k + 1
  BY <1>3, NumbersCount, FS_AddElement
<1>6. History[d] \in Seq(VersionState) /\ Len(History[d]) = k
  BY DEF HistoryTrue
<1>7. "draft" \in VersionState
  BY DEF VersionState
<1>8. s \in Seq(VersionState) /\ Len(s) = k + 1
  BY <1>5, <1>6, <1>7
<1>9. ASSUME NEW w \in VersionsOf(d)'
      PROVE  s[vnum'[w]] = vstate'[w]
  <2>1. CASE w = v
    BY <1>1, <1>5, <1>6, <1>7, <2>1 DEF IInv, TypeOK
  <2>2. CASE w # v
    <3>1. w \in VersionsOf(d) /\ vstate'[w] = vstate[w] /\ vnum'[w] = vnum[w]
      BY <1>3, <1>4, <2>2
    <3>2. vnum[w] \in 1..k /\ History[d][vnum[w]] = vstate[w]
      BY <3>1, NumbersCount DEF HistoryTrue
    <3>3. QED
      BY <1>6, <1>7, <3>1, <3>2
  <2>3. QED
    BY <2>1, <2>2
<1> HIDE DEF s, k
<1>10. History' = [History EXCEPT ![d] = s]
  BY <1>3, <1>4, <1>5, <1>8, <1>9, OneHistory
<1>11. NewVersionAllowed(LatestState(d))
  BY DEF Added
<1>12. QED
  BY <1>10, <1>11, LatestIsLast
  DEF s, Contract!AddDraft, Contract!NewVersionAllowed, NewVersionAllowed, NoState, Contract!NoState

LEMMA MovesNewest ==
  ASSUME IInv, HistoryTrue, HistoryOnly', OpenIsLast, NEW v \in VersionIds,
         NEW to \in VersionState, NEW role, role \in Role, Transition(vstate[v], to, role),
         vstate' = [vstate EXCEPT ![v] = to], UNCHANGED <<vof, vnum>>
  PROVE  \E d \in DeliverableIds, x \in VersionState, p \in Role : Contract!Move(d, x, p)
<1>1. vstate[v] \in {"draft", "shared"}
  BY DEF Transition
<1>2. PICK d \in DeliverableIds : v \in VersionsOf(d)
  BY <1>1 DEF IInv, RowsLive, RowGone, TypeOK, VersionsOf
<1> DEFINE k == Cardinality(VersionsOf(d))
           s == [History[d] EXCEPT ![k] = to]
<1>3. vnum[v] = k /\ k \in Nat /\ {vnum[w] : w \in VersionsOf(d)} = 1..k
  BY <1>1, <1>2, NumbersCount DEF OpenIsLast
<1>4. k \in 1..k
  BY <1>2, <1>3
<1>5. \A c \in DeliverableIds : VersionsOf(c)' = VersionsOf(c)
  BY DEF VersionsOf
<1>6. History[d] \in Seq(VersionState) /\ Len(History[d]) = k /\ History[d][k] = vstate[v]
  BY <1>2, <1>3 DEF HistoryTrue
<1> HIDE DEF k
<1>7. /\ s \in Seq(VersionState) /\ Len(s) = k /\ s[k] = to
      /\ \A n \in 1..k : n # k => s[n] = History[d][n]
  BY <1>4, <1>6
<1> HIDE DEF s
<1>8. ASSUME NEW w \in VersionsOf(d)'
      PROVE  s[vnum'[w]] = vstate'[w]
  <2>1. w \in VersionsOf(d) /\ w \in VersionIds /\ vnum'[w] = vnum[w]
    BY <1>2, <1>5 DEF VersionsOf
  <2>2. CASE w = v
    BY <1>3, <1>7, <2>1, <2>2 DEF IInv, TypeOK
  <2>3. CASE w # v
    <3>1. vnum[w] # k
      BY <1>2, <1>3, <2>1, <2>3 DEF IInv, NumbersDistinct
    <3>2. vnum[w] \in 1..k /\ History[d][vnum[w]] = vstate[w]
      BY <1>2, <1>3, <2>1 DEF HistoryTrue
    <3>3. vstate'[w] = vstate[w]
      BY <2>1, <2>3 DEF IInv, TypeOK
    <3>4. QED
      BY <1>7, <2>1, <3>1, <3>2, <3>3
  <2>4. QED
    BY <2>2, <2>3
<1>9. ASSUME NEW c \in DeliverableIds \ {d}, NEW w \in VersionsOf(c)
      PROVE  vstate'[w] = vstate[w] /\ vnum'[w] = vnum[w]
  BY <1>2, <1>9 DEF VersionsOf, IInv, TypeOK
<1>10. Cardinality(VersionsOf(d)') = k
  BY <1>2, <1>5 DEF k
<1>11. History' = [History EXCEPT ![d] = s]
  BY <1>2, <1>5, <1>7, <1>8, <1>9, <1>10, OneHistory
<1>12. History' = [History EXCEPT ![d][Len(History[d])] = to]
  BY <1>6, <1>11 DEF s
<1>13. Contract!Newest(d) = vstate[v] /\ History[d] # <<>>
  BY <1>4, <1>6 DEF Contract!Newest
<1>14. Contract!Move(d, to, role)
  BY <1>12, <1>13 DEF Contract!Move, Contract!Transition, Transition, Contract!IsStaff, IsStaff
<1>15. QED
  BY <1>2, <1>14

LEMMA DropsDraft ==
  ASSUME IInv, HistoryTrue, HistoryOnly', OpenIsLast, NEW d \in DeliverableIds,
         NEW S \in SUBSET VersionIds, Dropped(d, S), S # {}
  PROVE  Contract!DropDraft(d)
<1> DEFINE k == Cardinality(VersionsOf(d))
           s == SubSeq(History[d], 1, k - 1)
<1>1. /\ \A v \in S : vstate[v] = "draft" /\ vof[v] = d
      /\ vstate' = [v \in VersionIds |-> IF v \in S THEN "deleted" ELSE vstate[v]]
      /\ vof' = [v \in VersionIds |-> IF v \in S THEN NoDeliverable ELSE vof[v]]
      /\ vnum' = [v \in VersionIds |-> IF v \in S THEN 0 ELSE vnum[v]]
  BY DEF Dropped
<1>2. PICK x \in S : TRUE
  OBVIOUS
<1>3. k \in Nat /\ {vnum[w] : w \in VersionsOf(d)} = 1..k /\ IsFiniteSet(VersionsOf(d))
  BY NumbersCount
<1>4. \A y \in S : y \in VersionsOf(d) /\ vnum[y] = k
  BY <1>1 DEF OpenIsLast, VersionsOf
<1>5. S = {x} /\ x \in VersionsOf(d) /\ vnum[x] = k
  BY <1>2, <1>4 DEF IInv, NumbersDistinct
<1>6. k \in 1..k /\ k - 1 \in Nat
  BY <1>3, <1>5
<1>7. /\ VersionsOf(d)' = VersionsOf(d) \ {x}
      /\ \A c \in DeliverableIds \ {d} : VersionsOf(c)' = VersionsOf(c)
      /\ \A w \in VersionIds \ {x} : vstate'[w] = vstate[w] /\ vnum'[w] = vnum[w]
  BY <1>1, <1>5, NoDeliverableAssumption DEF VersionsOf
<1>8. Cardinality(VersionsOf(d)') = k - 1
  BY <1>3, <1>5, <1>7, FS_RemoveElement
<1>9. History[d] \in Seq(VersionState) /\ Len(History[d]) = k /\ History[d][k] = "draft"
  BY <1>1, <1>2, <1>5 DEF HistoryTrue
<1> HIDE DEF k
<1>10. /\ s \in Seq(VersionState) /\ Len(s) = k - 1
       /\ \A n \in 1..(k - 1) : s[n] = History[d][n]
  BY <1>6, <1>9
<1> HIDE DEF s
<1>11. ASSUME NEW w \in VersionsOf(d)'
       PROVE  s[vnum'[w]] = vstate'[w]
  <2>1. w \in VersionsOf(d) /\ w # x /\ w \in VersionIds
    BY <1>7 DEF VersionsOf
  <2>2. vnum[w] \in 1..k /\ vnum[w] # k
    BY <1>3, <1>5, <2>1 DEF IInv, NumbersDistinct
  <2>3. vnum[w] \in 1..(k - 1)
    BY <1>6, <2>2
  <2>4. History[d][vnum[w]] = vstate[w]
    BY <2>1 DEF HistoryTrue
  <2>5. QED
    BY <1>7, <1>10, <2>1, <2>3, <2>4
<1>12. \A c \in DeliverableIds \ {d} : \A w \in VersionsOf(c) :
         vstate'[w] = vstate[w] /\ vnum'[w] = vnum[w]
  BY <1>5, <1>7 DEF VersionsOf
<1>13. History' = [History EXCEPT ![d] = s]
  BY <1>7, <1>8, <1>10, <1>11, <1>12, OneHistory
<1>14. History' = [History EXCEPT ![d] = SubSeq(@, 1, Len(@) - 1)]
  BY <1>9, <1>13 DEF s
<1>15. Contract!Latest(d) = "draft"
  BY <1>6, <1>9 DEF Contract!Latest, Contract!Newest
<1>16. QED
  BY <1>14, <1>15 DEF Contract!DropDraft

LEMMA StepRefines ==
  ASSUME IInv, IInv', [Next]_vars, HistoryTrue, HistoryOnly', OpenIsLast
  PROVE  [Contract!Next]_History
<1> SUFFICES ASSUME History' # History
             PROVE  \E d \in DeliverableIds :
                      \/ Contract!AddDraft(d)
                      \/ \E to \in VersionState, role \in Role : Contract!Move(d, to, role)
                      \/ Contract!DropDraft(d)
  BY DEF Contract!Next, Contract!VersionState, VersionState, Contract!Role, Role
<1>1. StepKinds
  BY StepsAre
<1>2. ASSUME UNCHANGED <<vstate, vof, vnum>>
      PROVE  FALSE
  BY <1>2 DEF History, VersionsOf
<1>3. ASSUME NEW d \in DeliverableIds, NEW v \in VersionIds, Added(v, d)
      PROVE  Contract!AddDraft(d)
  BY <1>3, AddsDraft
<1>4. ASSUME NEW v \in VersionIds, NEW to \in {"shared", "withdrawn"}, Passed(v, to)
      PROVE  \E d \in DeliverableIds, x \in VersionState, p \in Role : Contract!Move(d, x, p)
  <2>1. to \in VersionState /\ "staff" \in Role
    BY DEF VersionState, Role
  <2>2. QED
    BY <1>4, <2>1, MovesNewest DEF Passed
<1>5. ASSUME NEW v \in VersionIds, NEW to \in Decision, Decided(v, to)
      PROVE  \E d \in DeliverableIds, x \in VersionState, p \in Role : Contract!Move(d, x, p)
  <2>1. to \in VersionState /\ "client" \in Role
    BY DEF VersionState, Role, Decision
  <2>2. Transition(vstate[v], to, "client")
    BY <1>5 DEF Decided, Transition, Decision
  <2>3. QED
    BY <1>5, <2>1, <2>2, MovesNewest DEF Decided
<1>6. ASSUME NEW d \in DeliverableIds, NEW S \in SUBSET VersionIds, Dropped(d, S)
      PROVE  Contract!DropDraft(d)
  <2>1. S # {}
    <3>1. ASSUME S = {} PROVE UNCHANGED <<vstate, vof, vnum>>
      BY <1>6, <3>1 DEF Dropped, IInv, TypeOK
    <3>2. QED
      BY <1>2, <3>1
  <2>2. QED
    BY <1>6, <2>1, DropsDraft
<1>7. QED
  BY <1>1, <1>2, <1>3, <1>4, <1>5, <1>6 DEF StepKinds, Recorded

\* Approval.ImplementsContract: the handlers, each reading first and writing later,
\* take no step the contract's state machine could not take at once.
THEOREM Refinement == Spec => ImplementsContract
<1>1. Init => Contract!Init
  <2> SUFFICES ASSUME Init PROVE History = [d \in DeliverableIds |-> <<>>]
    BY DEF Contract!Init
  <2>1. \A d \in DeliverableIds : VersionsOf(d) = {}
    BY NoDeliverableAssumption DEF Init, VersionsOf
  <2>2. HistoryTrue
    BY InitIInv, HistoryFacts
  <2>3. ASSUME NEW d \in DeliverableIds PROVE History[d] = <<>>
    <3>1. Len(History[d]) = 0 /\ History[d] \in Seq(VersionState)
      BY <2>1, <2>2, FS_EmptySet DEF HistoryTrue
    <3>2. QED
      BY <3>1
  <2>4. History = [d \in DeliverableIds |-> History[d]]
    BY DEF History
  <2> HIDE DEF History
  <2>5. QED
    BY <2>3, <2>4
<1>2. IInv' => HistoryOnly'
  BY HistoryFacts, PTL
<1>3. IInv /\ IInv' /\ [Next]_vars => [Contract!Next]_History
  BY <1>2, HistoryFacts, StepRefines
<1>4. QED
  BY <1>1, <1>3, Invariant, PTL DEF Spec, ImplementsContract, Contract!Spec
=============================================================================
