-------------------------- MODULE DcimLifecycleProofs --------------------------
(* Proofs about DcimLifecycle, for any objects and requests.                  *)
EXTENDS DcimLifecycle, TLAPS

LEMMA IdleTyped == Idle \in Request /\ Idle.pc = "idle" /\ Idle.target = None
BY DEF Idle, Request

(* Nothing stands in an interface, and every object that may stand in another
   one is looked for when that one is deleted. *)
LEMMA ParentKinds ==
  ASSUME NEW x \in Objects
  PROVE  /\ KindOf[x] \in Kinds /\ KindOf[x] # None /\ x # None
         /\ ParentKind(KindOf[x]) \in Kinds \ {"interface"}
         /\ KindOf[x] \in {FirstDependents(ParentKind(KindOf[x])),
                           NextDependents(FirstDependents(ParentKind(KindOf[x])))}
BY KindsAssumption, NoneAssumption DEF Kinds, ParentKind, FirstDependents, NextDependents

LEMMA InitIInv == Init => IInv
<1> SUFFICES ASSUME Init PROVE IInv
  OBVIOUS
<1>1. TypeOK
  BY IdleTyped DEF Init, TypeOK
<1>2. ParentsHaveKinds /\ InterfacesHaveNoExtension /\ OrphansNeedRace /\ DeletedLoseExtensions
  BY DEF Init, ParentsHaveKinds, InterfacesHaveNoExtension, OrphansNeedRace, DeletedLoseExtensions
<1>3. Reads /\ OneCreator /\ IdleHoldNothing
  BY IdleTyped DEF Init, Reads, OneCreator, IdleHoldNothing
<1>4. QED
  BY <1>1, <1>2, <1>3 DEF IInv

-----------------------------------------------------------------------------
(* Steps of a request that leave the table alone.                           *)

LEMMA QuietStep ==
  ASSUME IInv, NEW p \in Requests, UNCHANGED <<table, unchecked, raced>>,
         NEW r \in Request, req' = [req EXCEPT ![p] = r],
         overtaken' \in {overtaken, overtaken \ {p}},
         r.pc = "idle" => r.target = None,
         r.pc # "idle" => InProgress(r) /\ (p \notin overtaken' => Fresh(r)),
         r.pc # "idle" /\ r.op = "create" =>
           \A q \in Requests \ {p} : req[q].target # r.target
  PROVE  IInv'
<1>1. /\ rows' = rows /\ live' = live /\ parent' = parent /\ extended' = extended
      /\ unchecked' = unchecked /\ raced' = raced
  BY DEF table
<1>2. req'[p] = r /\ \A q \in Requests : q # p => req'[q] = req[q]
  BY DEF IInv, TypeOK
<1>3. TypeOK'
  BY <1>1 DEF IInv, TypeOK
<1>4. (ParentsHaveKinds /\ InterfacesHaveNoExtension /\ OrphansNeedRace /\ DeletedLoseExtensions)'
  BY <1>1 DEF IInv, ParentsHaveKinds, InterfacesHaveNoExtension, OrphansNeedRace,
              HasLiveParent, DeletedLoseExtensions
<1>5. IdleHoldNothing'
  BY <1>2 DEF IInv, IdleHoldNothing
<1>6. OneCreator'
  <2> SUFFICES ASSUME NEW o \in Requests, NEW q \in Requests,
                      req'[o].pc # "idle", req'[o].op = "create",
                      req'[q].target = req'[o].target, o # q
               PROVE  FALSE
    BY DEF OneCreator
  <2>1. o # p
    BY <1>2
  <2>2. req'[o] = req[o] /\ req[o].target \in Objects \ rows
    BY <1>2, <2>1 DEF IInv, Reads, InProgress
  <2>3. q = p /\ r.target = req[o].target
    BY <1>2, <2>1, <2>2 DEF IInv, OneCreator
  <2>4. CASE r.pc = "idle"
    BY <2>2, <2>3, <2>4, NoneAssumption
  <2>5. CASE r.pc # "idle" /\ r.op = "create"
    BY <2>1, <2>3, <2>5
  <2>6. CASE r.pc # "idle" /\ r.op # "create"
    BY <2>2, <2>3, <2>6 DEF InProgress
  <2>7. QED
    BY <2>4, <2>5, <2>6
<1>7. Reads'
  <2> SUFFICES ASSUME NEW q \in Requests, req'[q].pc # "idle"
               PROVE  InProgress(req'[q]) /\ (q \notin overtaken' => Fresh(req'[q]))
    BY <1>1 DEF Reads, InProgress, Fresh, Unseen
  <2>1. CASE q = p
    BY <1>2, <2>1
  <2>2. CASE q # p
    BY <1>2, <2>2 DEF IInv, Reads
  <2>3. QED
    BY <2>1, <2>2
<1>8. QED
  BY <1>3, <1>4, <1>5, <1>6, <1>7 DEF IInv

LEMMA CreateStep ==
  ASSUME IInv, NEW p \in Requests,
         NEW kind \in Kinds, NEW extensions \in SUBSET {"keep", "insert"},
         kind = "interface" => extensions = {"keep"},
         Create(p, kind, extensions)
  PROVE  IInv'
<1>1. PICK x \in In(Objects \ rows, kind), y \in Parents(kind), ext \in extensions :
        /\ \A q \in Requests : req[q].target # x
        /\ Begin(p, [Idle EXCEPT !.pc = "write", !.target = x, !.parent = y,
                                 !.extension = ext])
  BY DEF Create
<1> DEFINE r == [Idle EXCEPT !.pc = "write", !.target = x, !.parent = y, !.extension = ext]
<1>2. /\ r.pc = "write" /\ r.op = "create" /\ r.target = x /\ r.parent = y
      /\ r.extension = ext /\ r.loaded = None /\ r.dependents = None
  BY DEF Idle
<1>3. /\ x \in Objects \ rows /\ KindOf[x] = kind
      /\ y \in live \cup {None} /\ InRightKind(kind, y) /\ y \in Objects \cup {None}
  BY <1>1 DEF In, Parents, Roots, InRightKind, IInv, TypeOK
<1>4. r \in Request
  BY <1>3 DEF Idle, Request
<1>5. UNCHANGED <<table, unchecked, overtaken, raced>> /\ req' = [req EXCEPT ![p] = r]
  BY <1>1 DEF Begin
<1> HIDE DEF r
<1>6. InProgress(r)
  BY <1>2, <1>3 DEF InProgress
<1>7. Fresh(r)
  BY <1>2, <1>3 DEF Fresh
<1>8. QED
  BY <1>1, <1>2, <1>4, <1>5, <1>6, <1>7, QuietStep

LEMMA UpdateStep ==
  ASSUME IInv, NEW p \in Requests, NEW kind \in {"location", "rack", "device"},
         Update(p, kind)
  PROVE  IInv'
<1>0. PICK x \in In(live, kind) :
        \E y \in (Parents(kind) \ {x}) \cup {parent[x]}, ext \in ExtensionPatches(x) :
          Begin(p, [Idle EXCEPT !.pc = "write", !.op = "update", !.target = x,
                                !.parent = y, !.loaded = parent[x], !.extension = ext])
  BY DEF Update
<1>1. PICK y \in (Parents(kind) \ {x}) \cup {parent[x]}, ext \in ExtensionPatches(x) :
        Begin(p, [Idle EXCEPT !.pc = "write", !.op = "update", !.target = x,
                              !.parent = y, !.loaded = parent[x], !.extension = ext])
  BY <1>0
<1> DEFINE r == [Idle EXCEPT !.pc = "write", !.op = "update", !.target = x,
                             !.parent = y, !.loaded = parent[x], !.extension = ext]
<1>2. /\ r.pc = "write" /\ r.op = "update" /\ r.target = x /\ r.parent = y
      /\ r.extension = ext /\ r.loaded = parent[x] /\ r.dependents = None
  BY DEF Idle
<1>3. /\ x \in live /\ x \in rows /\ x \in Objects /\ KindOf[x] = kind
      /\ parent[x] \in Objects \cup {None} /\ InRightKind(kind, parent[x])
  BY DEF In, IInv, TypeOK, ParentsHaveKinds
<1>4. /\ y \in Objects \cup {None} /\ InRightKind(kind, y)
      /\ y # parent[x] => y \in live \cup {None}
  BY <1>3 DEF In, Parents, Roots, InRightKind, IInv, TypeOK
<1>5. r \in Request
  BY <1>3, <1>4 DEF Idle, Request, ExtensionPatches
<1>6. /\ UNCHANGED <<table, unchecked, overtaken, raced>>
      /\ req' = [req EXCEPT ![p] = r]
  BY <1>1 DEF Begin
<1> HIDE DEF r
<1>7. InProgress(r)
  BY <1>2, <1>3, <1>4 DEF InProgress
<1>8. Fresh(r)
  BY <1>2, <1>3, <1>4 DEF Fresh
<1>9. QED
  BY <1>2, <1>5, <1>6, <1>7, <1>8, QuietStep

LEMMA DeleteStep ==
  ASSUME IInv, NEW p \in Requests, NEW kind \in {"location", "rack", "device"},
         Delete(p, kind)
  PROVE  IInv'
<1>1. PICK x \in In(live, kind) :
        Begin(p, [Idle EXCEPT !.pc = "dependents", !.op = "delete", !.target = x,
                              !.dependents = FirstDependents(kind)])
  BY DEF Delete
<1> DEFINE r == [Idle EXCEPT !.pc = "dependents", !.op = "delete", !.target = x,
                             !.dependents = FirstDependents(kind)]
<1>2. /\ r.pc = "dependents" /\ r.op = "delete" /\ r.target = x /\ r.parent = None
      /\ r.extension = "keep" /\ r.dependents = FirstDependents(kind)
  BY DEF Idle
<1>3. x \in live /\ x \in rows /\ x \in Objects /\ KindOf[x] = kind
  BY DEF In, IInv, TypeOK
<1>4. FirstDependents(kind) \in Kinds
  BY DEF FirstDependents, Kinds
<1>5. r \in Request
  BY <1>3, <1>4 DEF Idle, Request
<1>6. /\ UNCHANGED <<table, unchecked, overtaken, raced>>
      /\ req' = [req EXCEPT ![p] = r]
  BY <1>1 DEF Begin
<1> HIDE DEF r
<1>7. InProgress(r)
  BY <1>2, <1>3, <1>4, NoneAssumption DEF InProgress, InRightKind
<1>8. \A z \in live : parent[z] = x => Unseen(r, z)
  <2> SUFFICES ASSUME NEW z \in live, parent[z] = x PROVE Unseen(r, z)
    OBVIOUS
  <2>1. z \in rows /\ z \in Objects /\ InRightKind(KindOf[z], x)
    BY DEF IInv, TypeOK, ParentsHaveKinds
  <2>2. ParentKind(KindOf[z]) = kind
    BY <1>3, <2>1, NoneAssumption DEF InRightKind
  <2>3. QED
    BY <1>2, <2>1, <2>2, ParentKinds DEF Unseen
<1>9. Fresh(r)
  BY <1>2, <1>8 DEF Fresh
<1>10. QED
  BY <1>2, <1>5, <1>6, <1>7, <1>9, QuietStep

LEMMA CheckStep ==
  ASSUME IInv, NEW p \in Requests, CheckDependents(p)
  PROVE  IInv'
<1> DEFINE next == NextDependents(req[p].dependents)
           r == IF Found(p) # {} THEN [req[p] EXCEPT !.pc = Refusal(p)]
                ELSE IF next # None THEN [req[p] EXCEPT !.dependents = next]
                ELSE [req[p] EXCEPT !.pc = "write", !.dependents = None,
                                    !.extension = RemovedExtension(p)]
<1>1. /\ req[p] \in Request /\ req[p].pc = "dependents"
      /\ InProgress(req[p]) /\ (p \notin overtaken => Fresh(req[p]))
  BY DEF CheckDependents, IInv, TypeOK, Reads
<1>2. /\ req' = [req EXCEPT ![p] = r]
      /\ UNCHANGED <<table, unchecked, overtaken, raced>>
  BY DEF CheckDependents, IInv, TypeOK
<1>3. /\ req[p].op = "delete" /\ req[p].target \in Objects /\ req[p].parent = None
      /\ KindOf[req[p].target] # "interface"
      /\ req[p].dependents \in {FirstDependents(KindOf[req[p].target]),
                         NextDependents(FirstDependents(KindOf[req[p].target]))} \ {None}
  BY <1>1 DEF InProgress, Request
<1>4. CASE Found(p) # {}
  <2>1. r \in Request /\ r.pc \in {"conflict", "raised"} /\ r.op = "delete"
        /\ r.target = req[p].target /\ r.parent = req[p].parent
        /\ r.extension = req[p].extension /\ r.loaded = req[p].loaded
    BY <1>1, <1>3, <1>4 DEF Request, Refusal
  <2> HIDE DEF r
  <2>2. InProgress(r)
    BY <1>1, <1>3, <2>1 DEF InProgress
  <2>3. Fresh(r)
    BY <2>1 DEF Fresh
  <2>4. QED
    BY <1>2, <2>1, <2>2, <2>3, QuietStep
<1>5. CASE Found(p) = {} /\ next # None
  <2>1. /\ next = "rack" /\ req[p].dependents = "location"
        /\ KindOf[req[p].target] = "location"
    BY <1>3, <1>5, NoneAssumption DEF NextDependents, FirstDependents, Kinds
  <2>2. /\ r \in Request /\ r.pc = "dependents" /\ r.op = "delete"
        /\ r.target = req[p].target /\ r.parent = req[p].parent /\ r.dependents = "rack"
        /\ r.extension = req[p].extension /\ r.loaded = req[p].loaded
    BY <1>1, <1>3, <1>5, <2>1 DEF Request, Kinds
  <2> HIDE DEF r, next
  <2>3. InProgress(r)
    BY <1>1, <1>3, <2>1, <2>2, NoneAssumption DEF InProgress, FirstDependents, NextDependents, Kinds
  <2>4. ASSUME p \notin overtaken, NEW x \in live \ unchecked, parent[x] = r.target
        PROVE  Unseen(r, x)
    <3>1. Unseen(req[p], x)
      BY <1>1, <1>3, <2>2, <2>4 DEF Fresh
    <3>2. KindOf[x] # "location"
      BY <1>5, <2>1, <2>2, <2>4 DEF Found, In
    <3>3. KindOf[x] = "rack"
      BY <2>1, <3>1, <3>2 DEF Unseen, NextDependents
    <3>4. QED
      BY <2>2, <3>3 DEF Unseen
  <2>5. p \notin overtaken => Fresh(r)
    BY <2>2, <2>4 DEF Fresh
  <2>6. QED
    BY <1>2, <2>2, <2>3, <2>5, QuietStep
<1>6. CASE Found(p) = {} /\ next = None
  <2>1. /\ r \in Request /\ r.pc = "write" /\ r.op = "delete"
        /\ r.target = req[p].target /\ r.parent = req[p].parent
        /\ r.extension = RemovedExtension(p) /\ r.loaded = req[p].loaded
        /\ RemovedExtension(p) \in {"keep", "remove"}
    BY <1>1, <1>3, <1>6 DEF Request, RemovedExtension
  <2> HIDE DEF r
  <2>2. InProgress(r)
    BY <1>1, <1>3, <2>1 DEF InProgress
  <2>3. ASSUME p \notin overtaken, NEW x \in live \ unchecked, parent[x] = r.target
        PROVE  FALSE
    <3>1. Unseen(req[p], x)
      BY <1>1, <1>3, <2>1, <2>3 DEF Fresh
    <3>2. x \in Objects
      BY DEF IInv, TypeOK
    <3>3. KindOf[x] # req[p].dependents
      BY <1>6, <2>1, <2>3 DEF Found, In
    <3>4. KindOf[x] # None
      BY <3>2, ParentKinds
    <3>5. QED
      BY <1>6, <3>1, <3>3, <3>4 DEF Unseen
  <2>4. r.extension = "keep" => r.target \notin extended
    BY <2>1 DEF RemovedExtension
  <2>5. p \notin overtaken => Fresh(r)
    BY <2>1, <2>3, <2>4 DEF Fresh
  <2>6. QED
    BY <1>2, <2>1, <2>2, <2>5, QuietStep
<1>7. QED
  BY <1>4, <1>5, <1>6

LEMMA AbandonStep ==
  ASSUME IInv, NEW p \in Requests, Abandon(p)
  PROVE  IInv'
BY IdleTyped, QuietStep DEF Abandon

-----------------------------------------------------------------------------
(* Commits.                                                                 *)

(* What a request that commits has read, and what its end does to the others:
   a request that is not overtaken afterwards was not before, and has no
   conflict with this one. *)
LEMMA FinishFacts ==
  ASSUME IInv, NEW p \in Requests, Finish(p)
  PROVE  /\ req[p] \in Request /\ req[p].pc = "write" /\ req[p].target \in Objects
         /\ InProgress(req[p]) /\ (p \notin overtaken => Fresh(req[p]))
         /\ req' \in [Requests -> Request] /\ req'[p] = Idle
         /\ \A q \in Requests : q # p => req'[q] = req[q]
         /\ overtaken' \subseteq Requests /\ raced' \subseteq Objects /\ raced \subseteq raced'
         /\ p \in overtaken => Concerns(p) \subseteq raced'
         /\ \A q \in Requests : q # p /\ q \notin overtaken' => q \notin overtaken /\ ~Conflict(p, q)
         /\ OneCreator' /\ IdleHoldNothing'
<1>1. /\ req \in [Requests -> Request] /\ req[p] \in Request /\ req[p].pc = "write"
      /\ overtaken \subseteq Requests /\ raced \subseteq Objects
  BY DEF IInv, TypeOK, Finish
<1>2. InProgress(req[p]) /\ (p \notin overtaken => Fresh(req[p])) /\ req[p].target \in Objects
  BY <1>1 DEF IInv, Reads, InProgress
<1>3. /\ req' \in [Requests -> Request] /\ req'[p] = Idle
      /\ \A q \in Requests : q # p => req'[q] = req[q]
  BY <1>1, IdleTyped DEF Finish
<1>4. Concerns(p) \subseteq Objects
  BY <1>1 DEF Concerns, Request
<1>5. /\ overtaken' \subseteq Requests /\ raced' \subseteq Objects /\ raced \subseteq raced'
      /\ p \in overtaken => Concerns(p) \subseteq raced'
      /\ \A q \in Requests : q # p /\ q \notin overtaken' => q \notin overtaken /\ ~Conflict(p, q)
  BY <1>1, <1>4 DEF Finish
<1>6. IdleHoldNothing'
  BY <1>3, IdleTyped DEF IInv, IdleHoldNothing
<1>7. OneCreator'
  <2> SUFFICES ASSUME NEW o \in Requests, NEW q \in Requests,
                      req'[o].pc # "idle", req'[o].op = "create",
                      req'[q].target = req'[o].target
               PROVE  o = q
    BY DEF OneCreator
  <2>1. o # p /\ req'[o] = req[o]
    BY <1>3, IdleTyped
  <2>2. req[o].target # None
    BY <2>1, NoneAssumption DEF IInv, Reads, InProgress
  <2>3. q # p
    BY <1>3, <2>1, <2>2, IdleTyped
  <2>4. QED
    BY <1>3, <2>1, <2>3 DEF IInv, OneCreator
<1>8. QED
  BY <1>1, <1>2, <1>3, <1>5, <1>6, <1>7

(* A request that has no conflict with the commit relies on nothing that the
   commit writes. *)
LEMMA NoConflict ==
  ASSUME NEW p \in Requests, NEW q \in Requests, ~Conflict(p, q),
         req[q].pc # "idle", "delete" \in {req[p].op, req[q].op}
  PROVE  /\ req[p].target # None => req[q].target # req[p].target /\ req[q].parent # req[p].target
         /\ req[p].parent # None => req[q].target # req[p].parent
BY DEF Conflict, Concerns

(* The requests other than the one that commits. *)
LEMMA OthersStay ==
  ASSUME IInv, NEW p \in Requests, Finish(p), Commit(p),
         NEW q \in Requests, q # p, req[q].pc # "idle"
  PROVE  /\ InProgress(req[q])'
         /\ q \notin overtaken' => Fresh(req[q])'
<1>1. /\ req[p] \in Request /\ req[p].target \in Objects /\ InProgress(req[p])
      /\ req'[q] = req[q] /\ req[q] \in Request /\ InProgress(req[q])
      /\ q \notin overtaken' => Fresh(req[q]) /\ ~Conflict(p, q)
      /\ req[p].target # None
  BY FinishFacts, NoneAssumption DEF IInv, TypeOK, Reads
<1>2. /\ rows \subseteq rows' /\ rows' \subseteq rows \cup {req[p].target}
      /\ req[p].op # "create" => rows' = rows
  BY DEF Commit, CommitCreate, CommitUpdate, CommitDelete
<1>3. req[p].op = "create" => req[q].target # req[p].target
  BY <1>1 DEF IInv, OneCreator, Finish
<1>4. (InProgress(req[q]))'
  BY <1>1, <1>2, <1>3 DEF InProgress
<1>5. ASSUME q \notin overtaken' PROVE (Fresh(req[q]))'
  <2>1. Fresh(req[q]) /\ ~Conflict(p, q)
    BY <1>1, <1>5
  <2>2. \A y \in live : y \notin live' => req[p].op = "delete" /\ y = req[p].target
    BY DEF Commit, CommitCreate, CommitUpdate, CommitDelete
  <2>3. req[q].op = "create" \/ (req[q].op = "update" /\ req[q].parent # req[q].loaded)
          => req[q].parent \in live' \cup {None}
    BY <1>1, <2>1, <2>2, NoConflict DEF Fresh
  <2>4. req[q].op = "update" => req[q].target \in live'
    BY <1>1, <2>1, <2>2, NoConflict DEF Fresh
  <2>5. ASSUME req[q].op = "delete", req[q].pc \in {"dependents", "write"},
               NEW x \in live' \ unchecked', parent'[x] = req[q].target
        PROVE  Unseen(req[q], x)
    <3>1. CASE x \in live \ unchecked /\ parent[x] = req[q].target
      BY <2>1, <2>5, <3>1 DEF Fresh
    <3>2. CASE ~(x \in live \ unchecked /\ parent[x] = req[q].target)
      <4>1. /\ req[p].op \in {"create", "update"} /\ x = req[p].target
            /\ parent'[x] = req[p].parent
        <5>1. /\ parent \in [Objects -> Objects \cup {None}] /\ live \subseteq Objects
              /\ live' \subseteq live \cup {req[p].target}
          BY DEF IInv, TypeOK, Commit, CommitCreate, CommitUpdate, CommitDelete
        <5>2. CASE CommitCreate(p)
          BY <1>1, <2>5, <3>2, <5>1, <5>2 DEF CommitCreate
        <5>3. CASE CommitUpdate(p)
          BY <1>1, <2>5, <3>2, <5>1, <5>3 DEF CommitUpdate
        <5>4. ~CommitDelete(p)
          BY <2>5, <3>2 DEF CommitDelete
        <5>5. QED
          BY <5>2, <5>3, <5>4 DEF Commit
      <4>2. req[p].parent = req[q].target /\ req[q].target # None
        BY <1>1, <2>5, <4>1, NoneAssumption DEF InProgress
      <4>3. FALSE
        BY <2>1, <2>5, <4>2, NoConflict
      <4>4. QED
        BY <4>3
    <3>3. QED
      BY <3>1, <3>2
  <2>6. ASSUME req[q].op = "delete", req[q].pc = "write", req[q].extension = "keep"
        PROVE  req[q].target \notin extended'
    <3>1. req[q].target \notin extended
      BY <2>1, <2>6 DEF Fresh
    <3>2. req[q].target # req[p].target
      BY <1>1, <2>1, <2>6, NoConflict
    <3>3. extended' \subseteq extended \cup {req[p].target}
      BY DEF Commit, CommitCreate, CommitUpdate, CommitDelete, StoreExtension
    <3>4. QED
      BY <3>1, <3>2, <3>3
  <2>7. QED
    BY <1>1, <2>3, <2>4, <2>5, <2>6 DEF Fresh, Unseen
<1>6. QED
  BY <1>4, <1>5

(* What the commits do to the objects, one lemma for each. *)
LEMMA OthersRead ==
  ASSUME IInv, NEW p \in Requests, Finish(p), Commit(p)
  PROVE  Reads'
<1> SUFFICES ASSUME NEW q \in Requests, req'[q].pc # "idle"
             PROVE  /\ InProgress(req[q])'
                    /\ q \notin overtaken' => Fresh(req[q])'
  BY DEF Reads, InProgress, Fresh, Unseen
<1>1. q # p /\ req'[q] = req[q]
  BY FinishFacts, IdleTyped
<1>2. QED
  BY <1>1, OthersStay DEF InProgress, Fresh, Unseen

LEMMA CommitCreateStep ==
  ASSUME IInv, NEW p \in Requests, CommitCreate(p)
  PROVE  IInv'
<1> DEFINE t == req[p].target
           y == req[p].parent
<1>1. /\ Finish(p) /\ Commit(p) /\ StoreExtension(p)
      /\ rows' = rows \cup {t} /\ live' = live \cup {t} /\ unchecked' = unchecked
      /\ parent' = [parent EXCEPT ![t] = y]
  BY DEF CommitCreate, Commit
<1>2. /\ t \in Objects \ rows /\ y \in Objects \cup {None} /\ InRightKind(KindOf[t], y)
      /\ KindOf[t] = "interface" => req[p].extension = "keep"
      /\ p \notin overtaken => y \in live \cup {None}
      /\ p \in overtaken => t \in raced'
      /\ raced \subseteq raced'
  BY <1>1, FinishFacts, NoneAssumption
     DEF CommitCreate, InProgress, Fresh, Request, Concerns
<1>3. extended' \subseteq extended \cup {t} /\ (t \in extended' => req[p].extension = "insert" \/ t \in extended)
  BY <1>1 DEF StoreExtension
<1>4. /\ rows \subseteq Objects /\ live \subseteq rows /\ extended \subseteq rows
      /\ unchecked \subseteq rows /\ parent \in [Objects -> Objects \cup {None}]
  BY DEF IInv, TypeOK
<1>5. parent'[t] = y /\ \A x \in rows : parent'[x] = parent[x]
  BY <1>1, <1>2, <1>4
<1>6. TypeOK'
  BY <1>1, <1>2, <1>3, <1>4, FinishFacts DEF TypeOK
<1>7. ParentsHaveKinds'
  BY <1>1, <1>2, <1>5 DEF IInv, ParentsHaveKinds, InRightKind
<1>8. InterfacesHaveNoExtension'
  BY <1>2, <1>3 DEF IInv, InterfacesHaveNoExtension
<1>9. OrphansNeedRace'
  <2> SUFFICES ASSUME NEW x \in live' \ unchecked'
               PROVE  (HasLiveParent(x) \/ {x, parent[x]} \cap raced # {})'
    BY DEF OrphansNeedRace, HasLiveParent
  <2>1. CASE x = t
    BY <1>1, <1>2, <1>5, <2>1 DEF HasLiveParent
  <2>2. CASE x # t
    BY <1>1, <1>2, <1>4, <1>5, <2>2 DEF IInv, OrphansNeedRace, HasLiveParent
  <2>3. QED
    BY <2>1, <2>2
<1>10. DeletedLoseExtensions'
  BY <1>1, <1>2, <1>3 DEF IInv, DeletedLoseExtensions
<1>11. QED
  BY <1>1, <1>6, <1>7, <1>8, <1>9, <1>10, FinishFacts, OthersRead DEF IInv

LEMMA CommitUpdateStep ==
  ASSUME IInv, NEW p \in Requests, CommitUpdate(p)
  PROVE  IInv'
<1> DEFINE t == req[p].target
           y == req[p].parent
<1>1. /\ Finish(p) /\ Commit(p) /\ StoreExtension(p)
      /\ rows' = rows /\ live' = live
      /\ \/ parent' = parent /\ unchecked' = unchecked
         \/ /\ y # req[p].loaded
            /\ parent' = [parent EXCEPT ![t] = y]
            /\ unchecked' = unchecked \ {t}
  BY DEF CommitUpdate, Commit
<1>2. /\ t \in Objects /\ t \in rows /\ y \in Objects \cup {None} /\ InRightKind(KindOf[t], y)
      /\ KindOf[t] # "interface"
      /\ p \notin overtaken => t \in live /\ (y # req[p].loaded => y \in live \cup {None})
      /\ p \in overtaken => t \in raced'
      /\ raced \subseteq raced'
  BY <1>1, FinishFacts, NoneAssumption
     DEF CommitUpdate, InProgress, Fresh, Request, Concerns
<1>3. extended' \subseteq extended \cup {t}
  BY <1>1 DEF StoreExtension
<1>4. /\ rows \subseteq Objects /\ live \subseteq rows /\ extended \subseteq rows
      /\ unchecked \subseteq rows /\ parent \in [Objects -> Objects \cup {None}]
  BY DEF IInv, TypeOK
<1>5. TypeOK'
  BY <1>1, <1>2, <1>3, <1>4, FinishFacts DEF TypeOK
<1>6. ParentsHaveKinds'
  BY <1>1, <1>2, <1>4 DEF IInv, ParentsHaveKinds, InRightKind
<1>7. InterfacesHaveNoExtension'
  BY <1>2, <1>3 DEF IInv, InterfacesHaveNoExtension
<1>8. OrphansNeedRace'
  <2> SUFFICES ASSUME NEW x \in live' \ unchecked'
               PROVE  (HasLiveParent(x) \/ {x, parent[x]} \cap raced # {})'
    BY DEF OrphansNeedRace, HasLiveParent
  <2>1. x \in Objects /\ x \in live
    BY <1>1, <1>4
  <2>2. CASE parent' = parent /\ unchecked' = unchecked
    BY <1>1, <1>2, <2>1, <2>2 DEF IInv, OrphansNeedRace, HasLiveParent
  <2>3. CASE x # t /\ parent'[x] = parent[x]
    BY <1>1, <1>2, <2>1, <2>3 DEF IInv, OrphansNeedRace, HasLiveParent
  <2>4. CASE x = t /\ parent'[x] = y /\ y # req[p].loaded
    BY <1>1, <1>2, <2>4 DEF HasLiveParent
  <2>5. QED
    BY <1>1, <1>2, <1>4, <2>1, <2>2, <2>3, <2>4
<1>9. DeletedLoseExtensions'
  BY <1>1, <1>2, <1>3 DEF IInv, DeletedLoseExtensions
<1>10. QED
  BY <1>1, <1>5, <1>6, <1>7, <1>8, <1>9, FinishFacts, OthersRead DEF IInv

LEMMA CommitDeleteStep ==
  ASSUME IInv, NEW p \in Requests, CommitDelete(p)
  PROVE  IInv'
<1> DEFINE t == req[p].target
<1>1. /\ Finish(p) /\ Commit(p) /\ StoreExtension(p)
      /\ rows' = rows /\ live' = live \ {t} /\ parent' = parent /\ unchecked' = unchecked
  BY DEF CommitDelete, Commit
<1>2. /\ t \in Objects /\ req[p].op = "delete" /\ req[p].pc = "write"
      /\ req[p].extension \in {"keep", "remove"}
      /\ p \notin overtaken => Fresh(req[p])
      /\ p \in overtaken => t \in raced'
      /\ raced \subseteq raced'
  BY <1>1, FinishFacts, NoneAssumption DEF CommitDelete, InProgress, Concerns
<1>3. /\ extended' \subseteq extended
      /\ t \in extended' => req[p].extension = "keep"
  BY <1>1, <1>2 DEF StoreExtension
<1>4. live \subseteq rows
  BY DEF IInv, TypeOK
<1>5. TypeOK'
  BY <1>1, <1>3, FinishFacts DEF IInv, TypeOK
<1>6. (ParentsHaveKinds /\ InterfacesHaveNoExtension)'
  BY <1>1, <1>3 DEF IInv, ParentsHaveKinds, InterfacesHaveNoExtension
<1>7. OrphansNeedRace'
  <2> SUFFICES ASSUME NEW x \in live' \ unchecked'
               PROVE  (HasLiveParent(x) \/ {x, parent[x]} \cap raced # {})'
    BY DEF OrphansNeedRace, HasLiveParent
  <2>1. HasLiveParent(x) \/ {x, parent[x]} \cap raced # {}
    BY <1>1 DEF IInv, OrphansNeedRace
  <2>2. CASE parent[x] # t
    BY <1>1, <1>2, <2>1, <2>2 DEF HasLiveParent
  <2>3. CASE parent[x] = t /\ p \in overtaken
    BY <1>1, <1>2, <2>3
  <2>4. CASE parent[x] = t /\ p \notin overtaken
    BY <1>1, <1>2, <2>4 DEF Fresh, Unseen
  <2>5. QED
    BY <2>2, <2>3, <2>4
<1>8. DeletedLoseExtensions'
  BY <1>1, <1>2, <1>3 DEF IInv, DeletedLoseExtensions, Fresh
<1>9. QED
  BY <1>1, <1>5, <1>6, <1>7, <1>8, FinishFacts, OthersRead DEF IInv

-----------------------------------------------------------------------------
(* The paths without checks.                                                *)

LEMMA ImportStep ==
  ASSUME IInv, ImportObject
  PROVE  IInv'
<1>0. PICK x \in Objects \ rows :
        \E y \in In(rows, ParentKind(KindOf[x])) \cup Roots(KindOf[x]),
           ext \in IF KindOf[x] = "interface" THEN {{}} ELSE SUBSET {x} :
          /\ \A q \in Requests : req[q].target # x
          /\ rows' = rows \cup {x} /\ live' = live \cup {x}
          /\ parent' = [parent EXCEPT ![x] = y]
          /\ extended' = extended \cup ext /\ unchecked' = unchecked \cup {x}
          /\ UNCHANGED <<req, overtaken, raced>>
  BY DEF ImportObject
<1>1. PICK y \in In(rows, ParentKind(KindOf[x])) \cup Roots(KindOf[x]),
           ext \in IF KindOf[x] = "interface" THEN {{}} ELSE SUBSET {x} :
        /\ \A q \in Requests : req[q].target # x
        /\ rows' = rows \cup {x} /\ live' = live \cup {x}
        /\ parent' = [parent EXCEPT ![x] = y]
        /\ extended' = extended \cup ext /\ unchecked' = unchecked \cup {x}
        /\ UNCHANGED <<req, overtaken, raced>>
  BY <1>0
<1>2. /\ rows \subseteq Objects /\ live \subseteq rows /\ extended \subseteq rows
      /\ unchecked \subseteq rows /\ parent \in [Objects -> Objects \cup {None}]
  BY DEF IInv, TypeOK
<1>3. y \in Objects \cup {None} /\ InRightKind(KindOf[x], y)
  BY <1>2 DEF In, Roots, InRightKind
<1>4. ext \subseteq {x} /\ (KindOf[x] = "interface" => ext = {})
  OBVIOUS
<1>5. parent'[x] = y /\ \A z \in rows : parent'[z] = parent[z]
  BY <1>1, <1>2
<1>6. TypeOK'
  BY <1>1, <1>2, <1>3, <1>4 DEF IInv, TypeOK
<1>7. ParentsHaveKinds'
  BY <1>1, <1>3, <1>5 DEF IInv, ParentsHaveKinds, InRightKind
<1>8. InterfacesHaveNoExtension'
  BY <1>1, <1>4 DEF IInv, InterfacesHaveNoExtension
<1>9. OrphansNeedRace'
  BY <1>1, <1>2, <1>5 DEF IInv, OrphansNeedRace, HasLiveParent
<1>10. DeletedLoseExtensions'
  BY <1>1, <1>4 DEF IInv, DeletedLoseExtensions
<1>11. OneCreator' /\ IdleHoldNothing'
  BY <1>1 DEF IInv, OneCreator, IdleHoldNothing
<1>12. Reads'
  <2> SUFFICES ASSUME NEW q \in Requests, req[q].pc # "idle"
               PROVE  /\ InProgress(req[q])'
                      /\ q \notin overtaken => Fresh(req[q])'
    BY <1>1 DEF Reads, InProgress, Fresh, Unseen
  <2>1. InProgress(req[q]) /\ (q \notin overtaken => Fresh(req[q])) /\ req[q].target # x
    BY <1>1 DEF IInv, Reads
  <2>2. InProgress(req[q])'
    BY <1>1, <2>1 DEF InProgress
  <2>3. ASSUME Fresh(req[q]) PROVE Fresh(req[q])'
    <3>1. \A z \in live' \ unchecked' : z \in live \ unchecked /\ parent'[z] = parent[z]
      BY <1>1, <1>2, <1>5
    <3>2. req[q].target \in extended' => req[q].target \in extended
      BY <1>1, <1>4, <2>1
    <3>3. QED
      BY <1>1, <2>3, <3>1, <3>2 DEF Fresh, Unseen
  <2>4. QED
    BY <2>1, <2>2, <2>3
<1>13. QED
  BY <1>6, <1>7, <1>8, <1>9, <1>10, <1>11, <1>12 DEF IInv

(* Nothing stands in an interface, no request but its creation is about it,
   and it has no extension. *)
LEMMA PatchInterfaceStep ==
  ASSUME IInv, PatchInterface
  PROVE  IInv'
<1>1. PICK x \in In(live, "interface") :
        /\ \/ \E y \in In(rows, "device") :
                /\ parent' = [parent EXCEPT ![x] = y]
                /\ unchecked' = unchecked \cup {x}
                /\ UNCHANGED live
           \/ live' = live \ {x} /\ UNCHANGED <<parent, unchecked>>
        /\ UNCHANGED <<rows, extended, req, overtaken, raced>>
  BY DEF PatchInterface
<1>2. /\ rows \subseteq Objects /\ live \subseteq rows /\ extended \subseteq rows
      /\ unchecked \subseteq rows /\ parent \in [Objects -> Objects \cup {None}]
      /\ x \in live /\ x \in rows /\ x \in Objects /\ KindOf[x] = "interface" /\ x # None
  BY NoneAssumption DEF IInv, TypeOK, In
<1>3. /\ live' \subseteq live /\ live \ {x} \subseteq live'
      /\ unchecked \subseteq unchecked' /\ unchecked' \subseteq unchecked \cup {x}
      /\ \A z \in Objects : z # x => parent'[z] = parent[z]
      /\ x \in live' \ unchecked' => parent'[x] = parent[x]
      /\ parent'[x] = parent[x] \/ parent'[x] \in In(rows, "device")
      /\ parent' \in [Objects -> Objects \cup {None}]
  BY <1>1, <1>2 DEF In
<1>4. \A z \in rows : parent[z] # x
  BY <1>2, ParentKinds DEF IInv, ParentsHaveKinds, InRightKind
<1>5. TypeOK'
  BY <1>1, <1>2, <1>3 DEF IInv, TypeOK
<1>6. ParentsHaveKinds'
  <2>1. \A y \in In(rows, "device") : InRightKind("interface", y)
    BY DEF In, InRightKind, ParentKind
  <2>2. QED
    BY <1>1, <1>2, <1>3, <2>1 DEF IInv, ParentsHaveKinds, InRightKind
<1>7. InterfacesHaveNoExtension'
  BY <1>1 DEF IInv, InterfacesHaveNoExtension
<1>8. OrphansNeedRace'
  <2> SUFFICES ASSUME NEW z \in live' \ unchecked'
               PROVE  (HasLiveParent(z) \/ {z, parent[z]} \cap raced # {})'
    BY DEF OrphansNeedRace, HasLiveParent
  <2>1. z \in live \ unchecked /\ z \in rows /\ parent'[z] = parent[z] /\ parent[z] # x
    BY <1>2, <1>3, <1>4
  <2>2. QED
    BY <1>1, <1>3, <2>1 DEF IInv, OrphansNeedRace, HasLiveParent
<1>9. DeletedLoseExtensions'
  BY <1>1, <1>2, <1>3 DEF IInv, DeletedLoseExtensions, InterfacesHaveNoExtension
<1>10. OneCreator' /\ IdleHoldNothing'
  BY <1>1 DEF IInv, OneCreator, IdleHoldNothing
<1>11. Reads'
  <2> SUFFICES ASSUME NEW q \in Requests, req[q].pc # "idle"
               PROVE  /\ InProgress(req[q])'
                      /\ q \notin overtaken => Fresh(req[q])'
    BY <1>1 DEF Reads, InProgress, Fresh, Unseen
  <2>1. InProgress(req[q]) /\ (q \notin overtaken => Fresh(req[q]))
    BY DEF IInv, Reads
  <2>2. InProgress(req[q])'
    BY <1>1, <2>1 DEF InProgress
  <2>3. ASSUME Fresh(req[q]) PROVE Fresh(req[q])'
    <3>1. req[q].parent # x
      BY <1>2, <2>1, ParentKinds DEF InProgress, InRightKind
    <3>2. req[q].op = "update" => req[q].target # x
      BY <1>2, <2>1 DEF InProgress
    <3>3. \A z \in live' \ unchecked' : z \in live \ unchecked /\ parent'[z] = parent[z]
      BY <1>2, <1>3
    <3>4. QED
      BY <1>1, <1>3, <2>3, <3>1, <3>2, <3>3 DEF Fresh, Unseen
  <2>4. QED
    BY <2>1, <2>2, <2>3
<1>12. QED
  BY <1>5, <1>6, <1>7, <1>8, <1>9, <1>10, <1>11 DEF IInv

-----------------------------------------------------------------------------
LEMMA NextIInv == IInv /\ [Next]_vars => IInv'
<1> SUFFICES ASSUME IInv, [Next]_vars PROVE IInv'
  OBVIOUS
<1>1. ASSUME NEW p \in Requests,
             CreateLocation(p) \/ CreateRack(p) \/ CreateDevice(p) \/ CreateInterface(p)
      PROVE  IInv'
  BY <1>1, CreateStep DEF CreateLocation, CreateRack, CreateDevice, CreateInterface, Kinds
<1>2. ASSUME NEW p \in Requests, UpdateLocation(p) \/ UpdateRack(p) \/ UpdateDevice(p)
      PROVE  IInv'
  BY <1>2, UpdateStep DEF UpdateLocation, UpdateRack, UpdateDevice
<1>3. ASSUME NEW p \in Requests, DeleteLocation(p) \/ DeleteRack(p) \/ DeleteDevice(p)
      PROVE  IInv'
  BY <1>3, DeleteStep DEF DeleteLocation, DeleteRack, DeleteDevice
<1>4. ASSUME NEW p \in Requests, CheckDependents(p) \/ Commit(p) \/ Abandon(p)
      PROVE  IInv'
  BY <1>4, CheckStep, CommitCreateStep, CommitUpdateStep, CommitDeleteStep, AbandonStep DEF Commit
<1>5. CASE UNCHANGED vars
  BY <1>5 DEF vars, table, IInv, TypeOK, ParentsHaveKinds, InterfacesHaveNoExtension, Reads,
              InProgress, Fresh, Unseen, OneCreator, IdleHoldNothing, OrphansNeedRace,
              HasLiveParent, DeletedLoseExtensions
<1>6. QED
  BY <1>1, <1>2, <1>3, <1>4, <1>5, ImportStep, PatchInterfaceStep DEF Next

(* The inductive invariant holds. *)
THEOREM Invariance == Spec => []IInv
BY InitIInv, NextIInv, PTL DEF Spec

(* Type correctness. *)
THEOREM TypeCorrectness == Spec => []TypeOK
<1>1. IInv => TypeOK
  BY DEF IInv
<1>2. QED
  BY <1>1, Invariance, PTL

(* A live object that stands in a deleted one has an unchecked parent or was
   raced. *)
THEOREM Orphans == Spec => []OrphansNeedRace
<1>1. IInv => OrphansNeedRace
  BY DEF IInv
<1>2. QED
  BY <1>1, Invariance, PTL

(* Extensions are removed with their objects, but for a race. *)
THEOREM Extensions == Spec => []DeletedLoseExtensions
<1>1. IInv => DeletedLoseExtensions
  BY DEF IInv
<1>2. QED
  BY <1>1, Invariance, PTL

(* Nothing that was deleted comes back. *)
THEOREM NoRevival == Spec => DeletedStayDeleted
<1>1. IInv /\ [Next]_vars => [rows \ live \subseteq rows' \ live']_vars
  <2> SUFFICES ASSUME IInv, Next, NEW x \in rows \ live
               PROVE  x \in rows' \ live'
    BY DEF vars
  <2>1. ASSUME NEW p \in Requests, CommitCreate(p) PROVE x \in rows' \ live'
    BY <2>1, FinishFacts DEF CommitCreate, InProgress
  <2>2. ASSUME NEW p \in Requests, CommitUpdate(p) \/ CommitDelete(p) PROVE x \in rows' \ live'
    BY <2>2 DEF CommitUpdate, CommitDelete
  <2>3. ASSUME UNCHANGED <<rows, live>> PROVE x \in rows' \ live'
    BY <2>3
  <2>4. CASE ImportObject
    BY <2>4 DEF ImportObject
  <2>5. CASE PatchInterface
    BY <2>5 DEF PatchInterface
  <2>6. QED
    BY <2>1, <2>2, <2>3, <2>4, <2>5
       DEF Next, Commit, CreateLocation, CreateRack, CreateDevice, CreateInterface, Create,
           UpdateLocation, UpdateRack, UpdateDevice, Update, DeleteLocation, DeleteRack,
           DeleteDevice, Delete, Begin, CheckDependents, Abandon, table
<1>2. QED
  BY <1>1, Invariance, PTL DEF Spec, DeletedStayDeleted
=============================================================================
