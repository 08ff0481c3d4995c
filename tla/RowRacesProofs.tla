----------------------------- MODULE RowRacesProofs -----------------------------
(***************************************************************************)
(* Proofs about the two components whose requests read rows without locks  *)
(* and write at the commit, TemplateDefaults and Administrators, for any   *)
(* rows and requests.                                                      *)
(***************************************************************************)
EXTENDS TemplateDefaults, Administrators, TLAPS

-----------------------------------------------------------------------------
LEMMA IdleTyped == Idle \in Request /\ Idle.pc = "idle" /\ Idle.target = None
BY DEF Idle, Request

LEMMA InitIInv == Init => IInv
<1> SUFFICES ASSUME Init PROVE IInv
  OBVIOUS
<1>1. TypeOK
  BY IdleTyped DEF Init, TypeOK
<1>2. FreshReads
  BY IdleTyped DEF Init, FreshReads
<1>3. TwoDefaultsNeedRace
  BY DEF Init, TwoDefaultsNeedRace, OneDefaultPerType, Defaults, OfType
<1>4. IdleHoldNothing
  BY IdleTyped DEF Init, IdleHoldNothing
<1>5. QED
  BY <1>1, <1>2, <1>3, <1>4 DEF IInv

(* What a request that commits holds. *)
LEMMA Holds ==
  ASSUME IInv, NEW p \in Requests, Commit(p)
  PROVE  /\ req[p] \in Request /\ Finish(p)
         /\ req[p].target \in used \ req[p].cleared
         /\ req[p].cleared \subseteq Siblings(p)
         /\ req[p].target \in Siblings(p)
         /\ req[p].loaded \subseteq {req[p].target}
         /\ Makes(p) \/ req[p].cleared = {}
         /\ Creates(p) => req[p].target \notin rows
         /\ p \notin overtaken /\ Makes(p) => req[p].cleared = OldDefaults(p)
         /\ p \notin overtaken => req[p].loaded = {req[p].target} \cap flagged
<1>1. Finish(p) /\ req[p] \in Request
  BY DEF Commit, CommitCreate, CommitMake, CommitUnmake, CommitDelete, IInv, TypeOK
<1>2. req[p].pc = "write"
  BY <1>1 DEF Finish
<1>3. req[p].target \in Siblings(p)
  BY <1>2 DEF IInv, TypeOK, FreshReads, Siblings, OfType
<1>4. QED
  BY <1>1, <1>2, <1>3 DEF IInv, FreshReads

(* What a commit does to the rows: nothing to those of another type; no new
   default unless it makes one; and a request that makes one and is not
   overtaken leaves its target as the only default. *)
LEMMA CommitEffect ==
  ASSUME IInv, NEW p \in Requests, Commit(p)
  PROVE  /\ rows' \subseteq used /\ flagged' \subseteq rows' /\ system' \subseteq rows'
         /\ rows \ {req[p].target} = rows' \ {req[p].target}
         /\ flagged' \ Siblings(p) = flagged \ Siblings(p)
         /\ ~Makes(p) => flagged' \subseteq flagged
         /\ Makes(p) /\ p \notin overtaken => flagged' \cap Siblings(p) = {req[p].target}
         /\ \A t \in flagged \ flagged' :
              /\ t \in Siblings(p)
              /\ IF req[p].target = t THEN req[p].op \in {"unmake", "delete"} ELSE Makes(p)
<1>1. /\ rows \subseteq used /\ flagged \subseteq rows /\ system \subseteq rows
      /\ used \subseteq Templates
  BY DEF IInv, TypeOK
<1>2. /\ req[p].target \in used \ req[p].cleared
      /\ req[p].cleared \subseteq Siblings(p)
      /\ req[p].target \in Siblings(p)
      /\ req[p].loaded \subseteq {req[p].target}
      /\ Makes(p) \/ req[p].cleared = {}
      /\ Creates(p) => req[p].target \notin rows
  BY Holds
<1>3. p \notin overtaken /\ Makes(p) => req[p].cleared = (flagged \cap Siblings(p)) \ {req[p].target}
  BY Holds DEF OldDefaults
<1>4. p \notin overtaken => req[p].loaded = {req[p].target} \cap flagged
  BY Holds
<1>5. CASE CommitCreate(p)
  BY <1>1, <1>2, <1>3, <1>5 DEF CommitCreate, Creates, Makes
<1>6. CASE CommitMake(p)
  BY <1>1, <1>2, <1>3, <1>4, <1>6 DEF CommitMake, Makes
<1>7. CASE CommitUnmake(p)
  BY <1>1, <1>2, <1>7 DEF CommitUnmake, Makes
<1>8. CASE CommitDelete(p)
  BY <1>1, <1>2, <1>8 DEF CommitDelete, Makes
<1>9. QED
  BY <1>5, <1>6, <1>7, <1>8 DEF Commit

LEMMA CommitStep ==
  ASSUME IInv, NEW p \in Requests, Commit(p)
  PROVE  IInv'
<1>1. /\ rows' \subseteq used /\ flagged' \subseteq rows' /\ system' \subseteq rows'
      /\ rows \ {req[p].target} = rows' \ {req[p].target}
      /\ flagged' \ Siblings(p) = flagged \ Siblings(p)
      /\ ~Makes(p) => flagged' \subseteq flagged
      /\ Makes(p) /\ p \notin overtaken => flagged' \cap Siblings(p) = {req[p].target}
  BY CommitEffect
<1>2. /\ req' = [req EXCEPT ![p] = Idle]
      /\ overtaken' = (overtaken \cup {q \in Requests : req[q].pc # "idle"
                                          /\ req[q].target \in Siblings(p)}) \ {p}
      /\ raced' = (raced \/ (p \in overtaken /\ Makes(p)))
      /\ used' = used
  BY Holds DEF Finish
<1>3. TypeOK'
  BY <1>1, <1>2, IdleTyped DEF IInv, TypeOK
<1>4. \A q \in Requests : q # p => req'[q] = req[q]
  BY <1>2 DEF IInv, TypeOK
<1>5. req'[p].pc = "idle" /\ req'[p].target = None
  BY <1>2, IdleTyped DEF IInv, TypeOK
<1>6. ASSUME NEW q \in Requests, req'[q].pc # "idle"
      PROVE  /\ req'[q].target \in used' \ req'[q].cleared
             /\ req'[q].cleared \subseteq Siblings(q)'
             /\ req'[q].loaded \subseteq {req'[q].target}
             /\ Makes(q)' \/ (req'[q].pc = "write" /\ req'[q].cleared = {})
             /\ Creates(q)' => /\ req'[q].target \notin rows'
                               /\ \A r \in Requests : req'[r].target = req'[q].target => r = q
             /\ q \notin overtaken' =>
                  /\ req'[q].loaded = {req'[q].target} \cap flagged'
                  /\ req'[q].pc = "write" /\ Makes(q)' => req'[q].cleared = OldDefaults(q)'
  <2>1. q # p /\ req'[q] = req[q] /\ req[q].pc # "idle"
    BY <1>4, <1>5, <1>6
  <2>2. /\ req[q].target \in used \ req[q].cleared
        /\ req[q].cleared \subseteq Siblings(q)
        /\ req[q].loaded \subseteq {req[q].target}
        /\ Makes(q) \/ (req[q].pc = "write" /\ req[q].cleared = {})
        /\ Creates(q) => /\ req[q].target \notin rows
                         /\ \A r \in Requests : req[r].target = req[q].target => r = q
    BY <2>1 DEF IInv, FreshReads
  <2>3. /\ Makes(q)' <=> Makes(q)
        /\ Creates(q)' <=> Creates(q)
        /\ Siblings(q)' = Siblings(q)
    BY <2>1 DEF Makes, Creates, Siblings
  <2>4. Creates(q) => /\ req[q].target \notin rows'
                      /\ \A r \in Requests : req'[r].target = req[q].target => r = q
    BY <1>1, <1>4, <1>5, <2>1, <2>2, NoneAssumption DEF IInv, TypeOK
  <2>5. ASSUME q \notin overtaken'
        PROVE  /\ req[q].loaded = {req[q].target} \cap flagged'
               /\ req[q].pc = "write" /\ Makes(q) => req[q].cleared = OldDefaults(q)'
    <3>1. q \notin overtaken /\ req[q].target \notin Siblings(p)
      BY <1>2, <2>1, <2>5
    <3>2. Siblings(q) \cap Siblings(p) = {} /\ req[q].target \in Templates
      BY <2>2, <3>1 DEF Siblings, OfType, IInv, TypeOK
    <3>3. flagged' \cap Siblings(q) = flagged \cap Siblings(q)
      BY <1>1, <3>2
    <3>4. req[q].target \in flagged' <=> req[q].target \in flagged
      BY <1>1, <3>1
    <3>5. OldDefaults(q)' = OldDefaults(q)
      BY <2>1, <2>3, <3>3 DEF OldDefaults
    <3>6. QED
      BY <2>1, <3>1, <3>4, <3>5 DEF IInv, FreshReads
  <2>6. QED
    BY <1>2, <2>1, <2>2, <2>3, <2>4, <2>5
<1>7. FreshReads'
  BY <1>6 DEF FreshReads
<1>8. TwoDefaultsNeedRace'
  <2> SUFFICES ASSUME ~raced', NEW ty \in Types,
                      NEW t \in Defaults(ty)', NEW u \in Defaults(ty)'
               PROVE  t = u
    BY DEF TwoDefaultsNeedRace, OneDefaultPerType
  <2>1. /\ t \in flagged' /\ u \in flagged' /\ t \in OfType(ty) /\ u \in OfType(ty)
        /\ t \in flagged /\ u \in flagged => t = u
    BY <1>2 DEF Defaults, OfType, IInv, TwoDefaultsNeedRace, OneDefaultPerType
  <2>2. t \in Siblings(p) <=> u \in Siblings(p)
    BY <2>1 DEF Siblings, OfType
  <2>3. QED
    BY <1>1, <1>2, <2>1, <2>2
<1>9. IdleHoldNothing'
  BY <1>4, <1>5 DEF IInv, IdleHoldNothing
<1>10. QED
  BY <1>3, <1>7, <1>8, <1>9 DEF IInv

(* The steps before the commit touch no row but the request's own id. *)
LEMMA BeginStep ==
  ASSUME IInv, NEW p \in Requests, BeginCreate(p) \/ BeginEdit(p) \/ BeginDelete(p)
  PROVE  IInv'
<1>1. PICK t \in Templates, op \in {"create", "create_default", "make", "unmake", "delete"},
           pc \in {"clear", "write"} :
        /\ Begin(p, op, t, pc)
        /\ op \in {"create_default", "make"} \/ pc = "write"
        /\ \/ op \in {"create", "create_default"} /\ t \notin used /\ used' = used \cup {t}
           \/ op \notin {"create", "create_default"} /\ t \in rows /\ used' = used
        /\ op \in {"create_default", "make"} => pc = "clear"
  BY DEF BeginCreate, BeginEdit, BeginDelete, IInv, TypeOK
<1> DEFINE new == [pc |-> pc, op |-> op, target |-> t, loaded |-> {t} \cap flagged, cleared |-> {}]
<1>2. new \in Request
  BY <1>1 DEF Request
<1>3. /\ req' = [req EXCEPT ![p] = new]
      /\ rows' = rows /\ flagged' = flagged /\ system' = system
      /\ overtaken' = overtaken /\ raced' = raced
      /\ req[p].pc = "idle"
  BY <1>1 DEF Begin, table
<1>4. TypeOK'
  BY <1>1, <1>2, <1>3 DEF IInv, TypeOK
<1>5. /\ \A q \in Requests : q # p => req'[q] = req[q]
      /\ req'[p] = new
  BY <1>3 DEF IInv, TypeOK
<1>6. IdleHoldNothing'
  BY <1>1, <1>5 DEF IInv, IdleHoldNothing
<1>7. ASSUME NEW q \in Requests, req'[q].pc # "idle"
      PROVE  /\ req'[q].target \in used' \ req'[q].cleared
             /\ req'[q].cleared \subseteq Siblings(q)'
             /\ req'[q].loaded \subseteq {req'[q].target}
             /\ Makes(q)' \/ (req'[q].pc = "write" /\ req'[q].cleared = {})
             /\ Creates(q)' => /\ req'[q].target \notin rows'
                               /\ \A r \in Requests : req'[r].target = req'[q].target => r = q
             /\ q \notin overtaken' =>
                  /\ req'[q].loaded = {req'[q].target} \cap flagged'
                  /\ req'[q].pc = "write" /\ Makes(q)' => req'[q].cleared = OldDefaults(q)'
  <2>1. /\ \A r \in Requests : r # p => req[r].target \in used \cup {None}
        /\ None \notin used' /\ rows \subseteq used /\ used \subseteq used'
    BY <1>1, NoneAssumption DEF IInv, TypeOK, FreshReads, IdleHoldNothing
  <2>2. CASE q = p
    <3>1. Makes(p)' \/ (pc = "write" /\ new.cleared = {})
      BY <1>1, <1>5, <2>1 DEF Makes
    <3>2. Creates(p)' => op \in {"create", "create_default"}
      BY <1>5 DEF Creates
    <3>3. Creates(p)' => t \notin rows /\ \A r \in Requests : r # p => req[r].target # t
      BY <1>1, <2>1, <3>2
    <3>4. pc = "write" => ~Makes(p)'
      BY <1>1, <1>5 DEF Makes
    <3>5. t \in used'
      BY <1>1, <2>1
    <3>6. /\ req'[p].pc = pc /\ req'[p].target = t /\ req'[p].cleared = {}
          /\ req'[p].loaded = {t} \cap flagged
      BY <1>5
    <3>7. \A r \in Requests : r # p => req'[r].target = req[r].target
      BY <1>5
    <3>8. Creates(p)' => \A r \in Requests : req'[r].target = t => r = p
      BY <3>3, <3>7
    <3>9. QED
      BY <1>3, <2>2, <3>1, <3>3, <3>4, <3>5, <3>6, <3>8
  <2>3. CASE q # p
    <3>1. req'[q] = req[q] /\ req[q].pc # "idle"
      BY <1>5, <1>7, <2>3
    <3>2. /\ Makes(q)' <=> Makes(q)
          /\ Creates(q)' <=> Creates(q)
          /\ Siblings(q)' = Siblings(q)
          /\ OldDefaults(q)' = OldDefaults(q)
      BY <1>3, <3>1 DEF Makes, Creates, Siblings, OldDefaults
    <3>3. Creates(q) => req[q].target \in used \ rows
      BY <3>1 DEF IInv, FreshReads
    <3>4. Creates(q) => \A r \in Requests : req'[r].target = req[q].target => r = q
      BY <1>1, <1>5, <3>1, <3>3 DEF IInv, FreshReads
    <3>5. QED
      BY <1>3, <2>1, <3>1, <3>2, <3>4 DEF IInv, FreshReads
  <2>4. QED
    BY <2>2, <2>3
<1>8. FreshReads'
  BY <1>7 DEF FreshReads
<1>9. TwoDefaultsNeedRace'
  BY <1>3 DEF IInv, TwoDefaultsNeedRace, OneDefaultPerType, Defaults
<1>10. QED
  BY <1>4, <1>6, <1>8, <1>9 DEF IInv

LEMMA ClearOrFailStep ==
  ASSUME IInv, NEW p \in Requests, ClearDefaults(p) \/ Fail(p)
  PROVE  IInv'
<1>1. /\ rows' = rows /\ flagged' = flagged /\ system' = system /\ used' = used
      /\ raced' = raced /\ overtaken' \subseteq overtaken
      /\ \A q \in Requests : q # p /\ q \in overtaken => q \in overtaken'
  BY DEF ClearDefaults, Fail, table, IInv, TypeOK
<1>2. req[p] \in Request /\ OldDefaults(p) \subseteq Templates
  BY DEF IInv, TypeOK, OldDefaults
<1>3. req' = [req EXCEPT ![p] = Idle]
        \/ /\ req[p].pc = "clear" /\ overtaken' = overtaken
           /\ req' = [req EXCEPT ![p] = [req[p] EXCEPT !.pc = "write", !.cleared = OldDefaults(p)]]
  BY DEF ClearDefaults, Fail, IInv, TypeOK
<1>3a. [req[p] EXCEPT !.pc = "write", !.cleared = OldDefaults(p)] \in Request
  BY <1>2 DEF Request
<1>3b. req' \in [Requests -> Request]
  BY <1>3, <1>3a, IdleTyped DEF IInv, TypeOK
<1>4. TypeOK'
  BY <1>1, <1>3b DEF IInv, TypeOK
<1>5. \A q \in Requests : q # p => req'[q] = req[q]
  BY DEF ClearDefaults, Fail, IInv, TypeOK
<1>6. \/ req'[p].pc = "idle" /\ req'[p].target = None
      \/ /\ req[p].pc = "clear" /\ req'[p].pc = "write" /\ overtaken' = overtaken
         /\ req'[p].op = req[p].op /\ req'[p].target = req[p].target
         /\ req'[p].loaded = req[p].loaded /\ req'[p].cleared = OldDefaults(p)
  <2>1. req \in [Requests -> Request]
    BY DEF IInv, TypeOK
  <2>2. CASE req' = [req EXCEPT ![p] = Idle]
    BY <2>1, <2>2, IdleTyped
  <2>3. CASE /\ req[p].pc = "clear" /\ overtaken' = overtaken
             /\ req' = [req EXCEPT ![p] = [req[p] EXCEPT !.pc = "write", !.cleared = OldDefaults(p)]]
    BY <1>2, <2>1, <2>3 DEF Request
  <2>4. QED
    BY <1>3, <2>2, <2>3
<1>7. IdleHoldNothing'
  BY <1>5, <1>6 DEF IInv, IdleHoldNothing
<1>8. \A r \in Requests : req'[r].target = req[r].target \/ req'[r].target = None
  BY <1>5, <1>6
<1>9. ASSUME NEW q \in Requests, req'[q].pc # "idle"
      PROVE  /\ req'[q].target \in used' \ req'[q].cleared
             /\ req'[q].cleared \subseteq Siblings(q)'
             /\ req'[q].loaded \subseteq {req'[q].target}
             /\ Makes(q)' \/ (req'[q].pc = "write" /\ req'[q].cleared = {})
             /\ Creates(q)' => /\ req'[q].target \notin rows'
                               /\ \A r \in Requests : req'[r].target = req'[q].target => r = q
             /\ q \notin overtaken' =>
                  /\ req'[q].loaded = {req'[q].target} \cap flagged'
                  /\ req'[q].pc = "write" /\ Makes(q)' => req'[q].cleared = OldDefaults(q)'
  <2>1. /\ req[q].pc # "idle" /\ req'[q].op = req[q].op
        /\ req'[q].target = req[q].target /\ req'[q].loaded = req[q].loaded
        /\ q \notin overtaken' => q \notin overtaken
    BY <1>1, <1>5, <1>6, <1>9
  <2>2. /\ Makes(q)' <=> Makes(q)
        /\ Creates(q)' <=> Creates(q)
        /\ Siblings(q)' = Siblings(q)
        /\ OldDefaults(q)' = OldDefaults(q)
    BY <1>1, <2>1 DEF Makes, Creates, Siblings, OldDefaults
  <2>3. \/ req'[q] = req[q]
        \/ req'[q].cleared = OldDefaults(q) /\ req[q].pc = "clear"
    BY <1>5, <1>6, <1>9
  <2>4. req[q].target \in used /\ None \notin used
    BY <2>1, NoneAssumption DEF IInv, TypeOK, FreshReads
  <2>5. Creates(q) => \A r \in Requests : req'[r].target = req[q].target => r = q
    BY <1>8, <2>1, <2>4 DEF IInv, FreshReads
  <2>6. /\ req'[q].target \in used' \ req'[q].cleared
        /\ req'[q].cleared \subseteq Siblings(q)'
        /\ req'[q].loaded \subseteq {req'[q].target}
        /\ Makes(q)' \/ (req'[q].pc = "write" /\ req'[q].cleared = {})
    BY <1>1, <2>1, <2>2, <2>3 DEF IInv, FreshReads, OldDefaults
  <2>7. q \notin overtaken' =>
                  /\ req'[q].loaded = {req'[q].target} \cap flagged'
                  /\ req'[q].pc = "write" /\ Makes(q)' => req'[q].cleared = OldDefaults(q)'
    BY <1>1, <2>1, <2>2, <2>3 DEF IInv, FreshReads
  <2>8. Creates(q) => req[q].target \notin rows
    BY <2>1 DEF IInv, FreshReads
  <2>9. QED
    BY <1>1, <2>1, <2>2, <2>5, <2>6, <2>7, <2>8
<1>10. FreshReads'
  BY <1>9 DEF FreshReads
<1>11. TwoDefaultsNeedRace'
  BY <1>1 DEF IInv, TwoDefaultsNeedRace, OneDefaultPerType, Defaults
<1>12. QED
  BY <1>4, <1>7, <1>10, <1>11 DEF IInv

LEMMA NextIInv == IInv /\ [Next]_vars => IInv'
<1> SUFFICES ASSUME IInv, [Next]_vars PROVE IInv'
  OBVIOUS
<1>1. CASE UNCHANGED vars
  BY <1>1 DEF vars, IInv, TypeOK, IdleHoldNothing, FreshReads, TwoDefaultsNeedRace,
     OneDefaultPerType, Defaults, Makes, Creates, Siblings, OldDefaults
<1>2. CASE Next
  BY <1>2, BeginStep, ClearOrFailStep, CommitStep DEF Next
<1>3. QED
  BY <1>1, <1>2

(* The inductive invariant holds in every reachable state. *)
THEOREM Invariance == Spec => []IInv
BY InitIInv, NextIInv, PTL DEF Spec

(* Every reachable state is well typed; in particular a row that is gone is
   neither the default nor a system template. *)
THEOREM TypeCorrectness == Spec => []TypeOK
<1>1. IInv => TypeOK
  BY DEF IInv
<1>2. QED
  BY <1>1, Invariance, PTL

(* Two defaults of one type need a request that was overtaken. *)
THEOREM DefaultsAreSingle == Spec => []TwoDefaultsNeedRace
<1>1. IInv => TwoDefaultsNeedRace
  BY DEF IInv
<1>2. QED
  BY <1>1, Invariance, PTL

LEMMA CommitsOnly ==
  ASSUME IInv, [Next]_vars, flagged' # flagged
  PROVE  \E p \in Requests : Commit(p)
BY DEF Next, vars, table, BeginCreate, BeginEdit, BeginDelete, Begin, ClearDefaults, Fail

(* A request that is not overtaken leaves its target as the only default. *)
THEOREM Healing == Spec => MakingHeals
<1>1. ASSUME IInv, [Next]_vars
      PROVE  [\A p \in Requests : Commit(p) /\ Makes(p) /\ p \notin overtaken
                => flagged' \cap Siblings(p) = {req[p].target}]_vars
  BY <1>1, CommitEffect
<1>2. QED
  BY <1>1, Invariance, PTL DEF Spec, MakingHeals

(* What takes the last default of a type away. *)
LEMMA LastDefault ==
  ASSUME IInv, NEW p \in Requests, Commit(p), NEW ty \in Types,
         Defaults(ty) # {}, Defaults(ty)' = {}
  PROVE  /\ TypeOf[req[p].target] = ty
         /\ \/ req[p].op \in {"unmake", "delete"}
            \/ req[p].op = "make" /\ p \in overtaken /\ req[p].loaded # {}
<1>1. PICK t \in Defaults(ty) : t \notin flagged'
  BY DEF Defaults
<1>2. /\ t \in Siblings(p)
      /\ IF req[p].target = t THEN req[p].op \in {"unmake", "delete"} ELSE Makes(p)
  BY <1>1, CommitEffect DEF Defaults
<1>3. TypeOf[req[p].target] = ty
  BY <1>1, <1>2 DEF Defaults, Siblings, OfType
<1>4. req[p].target \notin flagged'
  BY <1>3, Holds DEF Defaults, Siblings
<1>5. CASE Makes(p)
  <2>2. CommitMake(p) /\ req[p].op = "make"
    BY <1>4, <1>5 DEF Commit, CommitCreate, CommitMake, CommitUnmake, CommitDelete, Makes
  <2>3. req[p].loaded # {}
    BY <1>4, <2>2 DEF CommitMake
  <2>4. p \in overtaken
    BY <1>4, <1>5, CommitEffect
  <2> QED
    BY <1>3, <2>2, <2>3, <2>4
<1>6. CASE ~Makes(p)
  BY <1>2, <1>3, <1>6
<1> QED
  BY <1>5, <1>6

(* A default disappears only through a request about it or a new default, and
   the last one of a type only through an unmake, a deletion or a request that
   was overtaken. *)
THEOREM Replacement == Spec => DefaultsAreReplaced
<1> DEFINE Lost == \A t \in flagged \ flagged' :
                     \E p \in Requests :
                       /\ Commit(p)
                       /\ t \in Siblings(p)
                       /\ IF req[p].target = t THEN req[p].op \in {"unmake", "delete"} ELSE Makes(p)
           Last == \A ty \in Types : Defaults(ty) # {} /\ Defaults(ty)' = {} =>
                     \E p \in Requests :
                       /\ Commit(p)
                       /\ TypeOf[req[p].target] = ty
                       /\ \/ req[p].op \in {"unmake", "delete"}
                          \/ req[p].op = "make" /\ p \in overtaken /\ req[p].loaded # {}
<1>1. ASSUME IInv, [Next]_vars PROVE [Lost /\ Last]_vars
  <2>1. CASE flagged' = flagged
    BY <2>1 DEF Defaults
  <2>2. CASE flagged' # flagged
    <3>1. PICK p \in Requests : Commit(p)
      BY <1>1, <2>2, CommitsOnly
    <3>2. Lost
      BY <1>1, <3>1, CommitEffect
    <3>3. Last
      BY <1>1, <3>1, LastDefault
    <3> QED
      BY <3>2, <3>3
  <2> QED
    BY <2>1, <2>2
<1>2. QED
  BY <1>1, Invariance, PTL DEF Spec, DefaultsAreReplaced

-----------------------------------------------------------------------------
(* Administrators. *)
LEMMA IdleAccount == NoPatch \in AccountRequest /\ NoPatch.pc = "idle"
BY DEF NoPatch, Nobody, AccountRequest, Account, Patch, Roles, Statuses

LEMMA AdminsInit == AccountsInit => AccountsIInv
<1> SUFFICES ASSUME AccountsInit PROVE AccountsIInv
  OBVIOUS
<1>1. PICK u \in Users :
        /\ users = {u} /\ passwords = {u}
        /\ account = [v \in Users |-> IF v = u THEN [role |-> "ADMIN", status |-> "active"]
                                      ELSE Nobody]
        /\ req = [p \in Requests |-> NoPatch]
        /\ overtaken = {} /\ raced = FALSE
  BY DEF AccountsInit
<1>2. account \in [Users -> Account]
  BY <1>1 DEF Account, Nobody, Roles, Statuses
<1>3. AccountsTypeOK
  BY <1>1, <1>2, IdleAccount DEF AccountsTypeOK
<1>4. OnlyReadersOvertaken
  BY <1>1 DEF OnlyReadersOvertaken
<1>5. FreshAccounts
  BY <1>1, IdleAccount DEF FreshAccounts, Reading
<1>6. u \in Admins
  BY <1>1 DEF Admins, IsAdmin
<1>7. AdminLossNeedsRace
  BY <1>6 DEF AdminLossNeedsRace, SomeAdminRemains
<1>8. QED
  BY <1>3, <1>4, <1>5, <1>7 DEF AccountsIInv

(* What is written to a user is an account, and a request that was not
   overtaken takes an administrator away only if it has counted another. *)
LEMMA WrittenTyped ==
  ASSUME AccountsIInv, NEW p \in Requests, req[p].target \in Users
  PROVE  Written(p) \in Account
<1>1. req[p].copy \in Account /\ req[p].body \in Patch /\ account[req[p].target] \in Account
  BY DEF AccountsIInv, AccountsTypeOK, AccountRequest
<1>2. Column(account[req[p].target].role, req[p].copy.role, req[p].body.role) \in Roles
  BY <1>1 DEF Column, Account, Patch
<1>3. Column(account[req[p].target].status, req[p].copy.status, req[p].body.status) \in Statuses
  BY <1>1 DEF Column, Account, Patch
<1>4. QED
  BY <1>2, <1>3 DEF Written, Account

LEMMA NotOvertakenLeavesOne ==
  ASSUME AccountsIInv, NEW p \in Requests, CommitPatch(p), p \notin overtaken, Admins # {}
  PROVE  Admins' # {}
<1> DEFINE t == req[p].target
<1>1. /\ t \in users
      /\ IsAdmin(req[p].copy) <=> t \in Admins
      /\ IsAdmin(req[p].copy) /\ ~Stays(req[p].body) => Admins \ {t} # {}
  BY DEF CommitPatch, AccountsIInv, FreshAccounts, Reading
<1>2. users \subseteq Users /\ account \in [Users -> Account]
  BY DEF AccountsIInv, AccountsTypeOK
<1>3. /\ users' = users
      /\ account' = [account EXCEPT ![t] = Written(p)]
  BY DEF CommitPatch
<1>4. Admins \ {t} \subseteq Admins'
  BY <1>1, <1>2, <1>3 DEF Admins
<1>5. CASE Admins \ {t} # {}
  BY <1>4, <1>5
<1>6. CASE Admins \ {t} = {}
  <2>1. t \in Admins /\ IsAdmin(req[p].copy) /\ Stays(req[p].body)
    BY <1>1, <1>6
  <2>2. /\ account[t].role = "ADMIN" /\ account[t].status = "active"
        /\ req[p].body.role \in {None, "ADMIN"} /\ req[p].body.status \in {None, "active"}
    BY <2>1 DEF Admins, IsAdmin, Stays
  <2>3. Written(p) = [role |-> "ADMIN", status |-> "active"]
    BY <2>2 DEF Written, Column
  <2>4. account'[t] = [role |-> "ADMIN", status |-> "active"]
    BY <1>1, <1>2, <1>3, <2>3
  <2>5. t \in Admins'
    BY <1>1, <1>3, <2>4 DEF Admins, IsAdmin
  <2>6. QED
    BY <2>5
<1>7. QED
  BY <1>5, <1>6

(* A commit: the account of one user changes, the request ends. *)
LEMMA AccountStep ==
  ASSUME AccountsIInv, NEW p \in Requests, CommitPatch(p) \/ CreateUser(p)
  PROVE  AccountsIInv'
<1>1. /\ users \subseteq Users /\ account \in [Users -> Account] /\ passwords \subseteq users
      /\ req \in [Requests -> AccountRequest] /\ overtaken \subseteq Requests /\ raced \in BOOLEAN
      /\ req[p] \in AccountRequest
  BY DEF AccountsIInv, AccountsTypeOK
<1>2. /\ users \subseteq users' /\ users' \subseteq Users /\ passwords' \subseteq users'
      /\ account' \in [Users -> Account]
  <2>1. CASE CommitPatch(p)
    <3>1. CASE req[p].target \in Users
      BY <1>1, <2>1, <3>1, WrittenTyped DEF CommitPatch
    <3>2. CASE req[p].target \notin Users
      BY <1>1, <2>1, <3>2 DEF CommitPatch
    <3>3. QED
      BY <3>1, <3>2
  <2>2. CASE CreateUser(p)
    <3>1. PICK u \in Users \ users, role \in Roles, withPassword \in BOOLEAN :
            /\ users' = users \cup {u}
            /\ account' = [account EXCEPT ![u] = [role |-> role, status |-> "active"]]
            /\ passwords' = IF withPassword THEN passwords \cup {u} ELSE passwords
      BY <2>2 DEF CreateUser
    <3>2. [role |-> role, status |-> "active"] \in Account
      BY DEF Account, Statuses
    <3>3. QED
      BY <1>1, <3>1, <3>2
  <2>3. QED
    BY <2>1, <2>2
<1>3. /\ req' = [req EXCEPT ![p] = NoPatch]
      /\ overtaken' = (IF Admins' = Admins THEN overtaken
                       ELSE {q \in Requests : req[q].pc \in {"loaded", "write"}}) \ {p}
      /\ raced' = (raced \/ (p \in overtaken /\ Admins \ Admins' # {}))
  BY DEF CommitPatch, CreateUser, FinishAccount, End
<1>4. AccountsTypeOK'
  BY <1>1, <1>2, <1>3, IdleAccount DEF AccountsTypeOK
<1>5. \A q \in Requests : q # p => req'[q] = req[q]
  BY <1>1, <1>3
<1>6. req'[p].pc = "idle"
  BY <1>1, <1>3, IdleAccount
<1>7. OnlyReadersOvertaken'
  BY <1>3, <1>5, <1>1 DEF OnlyReadersOvertaken, AccountsIInv
<1>8. FreshAccounts'
  <2> SUFFICES ASSUME NEW q \in Requests, Reading(q)'
               PROVE  /\ req'[q].target \in users'
                      /\ IsAdmin(req'[q].copy) <=> req'[q].target \in Admins'
                      /\ req'[q].pc = "write" /\ IsAdmin(req'[q].copy) /\ ~Stays(req'[q].body)
                           => Admins' \ {req'[q].target} # {}
    BY DEF FreshAccounts, Reading, IsAdmin, Stays
  <2>1. q # p /\ req'[q] = req[q] /\ req[q].pc \in {"loaded", "write"} /\ q \notin overtaken'
    BY <1>5, <1>6 DEF Reading
  <2>2. Admins' = Admins /\ q \notin overtaken
    BY <1>3, <2>1
  <2>3. QED
    BY <1>2, <2>1, <2>2 DEF AccountsIInv, FreshAccounts, Reading
<1>9. AdminLossNeedsRace'
  <2> SUFFICES ASSUME ~raced' PROVE Admins' # {}
    BY DEF AdminLossNeedsRace, SomeAdminRemains
  <2>1. ~raced /\ (p \in overtaken => Admins \subseteq Admins')
    BY <1>3
  <2>2. Admins # {}
    BY <2>1 DEF AccountsIInv, AdminLossNeedsRace, SomeAdminRemains
  <2>3. CASE p \in overtaken
    BY <2>1, <2>2, <2>3
  <2>4. CASE p \notin overtaken /\ CommitPatch(p)
    BY <2>2, <2>4, NotOvertakenLeavesOne
  <2>5. CASE CreateUser(p)
    BY <1>1, <2>2, <2>5 DEF CreateUser, Admins
  <2>6. QED
    BY <2>3, <2>4, <2>5
<1>10. QED
  BY <1>4, <1>7, <1>8, <1>9 DEF AccountsIInv

(* A step that leaves the table alone. *)
LEMMA QuietAccounts ==
  ASSUME AccountsIInv, NEW p \in Requests, UNCHANGED <<accountTable, raced>>,
         NEW r \in AccountRequest, req' = [req EXCEPT ![p] = r],
         \/ overtaken' = overtaken \ {p}
         \/ UNCHANGED overtaken /\ (p \in overtaken => r.pc \in {"loaded", "write"}),
         r.pc \in {"loaded", "write"} /\ p \notin overtaken' =>
           /\ r.target \in users
           /\ IsAdmin(r.copy) <=> r.target \in Admins
           /\ r.pc = "write" /\ IsAdmin(r.copy) /\ ~Stays(r.body) => Admins \ {r.target} # {}
  PROVE  AccountsIInv'
<1>1. /\ users' = users /\ account' = account /\ passwords' = passwords /\ raced' = raced
      /\ Admins' = Admins
  BY DEF accountTable, Admins, IsAdmin
<1>2. AccountsTypeOK'
  BY <1>1 DEF AccountsIInv, AccountsTypeOK
<1>3. req'[p] = r /\ \A q \in Requests : q # p => req'[q] = req[q]
  BY DEF AccountsIInv, AccountsTypeOK
<1>4. OnlyReadersOvertaken'
  BY <1>3 DEF AccountsIInv, AccountsTypeOK, OnlyReadersOvertaken
<1>5. FreshAccounts'
  <2> SUFFICES ASSUME NEW q \in Requests, Reading(q)'
               PROVE  /\ req'[q].target \in users
                      /\ IsAdmin(req'[q].copy) <=> req'[q].target \in Admins
                      /\ req'[q].pc = "write" /\ IsAdmin(req'[q].copy) /\ ~Stays(req'[q].body)
                           => Admins \ {req'[q].target} # {}
    BY <1>1 DEF FreshAccounts, Reading, IsAdmin, Stays
  <2>1. CASE q = p
    BY <1>3, <2>1 DEF Reading
  <2>2. CASE q # p
    <3>1. Reading(q) /\ req'[q] = req[q]
      BY <1>3, <2>2 DEF Reading
    <3>2. QED
      BY <3>1 DEF AccountsIInv, FreshAccounts
  <2>3. QED
    BY <2>1, <2>2
<1>6. AdminLossNeedsRace'
  BY <1>1 DEF AccountsIInv, AdminLossNeedsRace, SomeAdminRemains
<1>7. QED
  BY <1>2, <1>4, <1>5, <1>6 DEF AccountsIInv

LEMMA AdminRequestStep ==
  ASSUME AccountsIInv, NEW p \in Requests,
         Authorize(p) \/ LoadUser(p) \/ EnsureNotLastAdmin(p) \/ FailAccount(p)
  PROVE  AccountsIInv'
<1>1. /\ req \in [Requests -> AccountRequest] /\ req[p] \in AccountRequest
      /\ users \subseteq Users /\ account \in [Users -> Account]
  BY DEF AccountsIInv, AccountsTypeOK
<1>2. p \in overtaken => req[p].pc \in {"loaded", "write"}
  BY DEF AccountsIInv, OnlyReadersOvertaken
<1>3. CASE Authorize(p)
  <2> DEFINE r == [NoPatch EXCEPT !.pc = "authorized"]
  <2>1. r \in AccountRequest /\ r.pc = "authorized"
    BY IdleAccount DEF AccountRequest, NoPatch
  <2>2. p \notin overtaken
    BY <1>2, <1>3 DEF Authorize
  <2>3. req' = [req EXCEPT ![p] = r] /\ UNCHANGED <<accountTable, overtaken, raced>>
    BY <1>3 DEF Authorize
  <2> HIDE DEF r
  <2>4. QED
    BY <2>1, <2>2, <2>3, QuietAccounts
<1>4. CASE LoadUser(p)
  <2>1. PICK u \in users :
          /\ req[p].pc = "authorized"
          /\ req' = [req EXCEPT ![p] = [NoPatch EXCEPT !.pc = "loaded", !.target = u,
                                                    !.copy = account[u]]]
          /\ UNCHANGED <<accountTable, overtaken, raced>>
    BY <1>4 DEF LoadUser
  <2> DEFINE r == [NoPatch EXCEPT !.pc = "loaded", !.target = u, !.copy = account[u]]
  <2>2. /\ r.pc = "loaded" /\ r.target = u /\ r.copy = account[u]
        /\ r \in AccountRequest
    BY <1>1, IdleAccount DEF AccountRequest, NoPatch
  <2>3. IsAdmin(account[u]) <=> u \in Admins
    BY DEF Admins
  <2>4. req' = [req EXCEPT ![p] = r]
    BY <2>1
  <2> HIDE DEF r
  <2>5. QED
    BY <1>2, <2>1, <2>2, <2>3, <2>4, QuietAccounts
<1>5. CASE EnsureNotLastAdmin(p)
  <2>1. PICK body \in Patch :
          /\ req[p].pc = "loaded"
          /\ IF LastAdmin(req[p].copy, body)
             THEN End(p) /\ overtaken' = overtaken \ {p}
             ELSE /\ req' = [req EXCEPT ![p] = [@ EXCEPT !.pc = "write", !.body = body]]
                  /\ UNCHANGED overtaken
          /\ UNCHANGED <<accountTable, raced>>
    BY <1>5 DEF EnsureNotLastAdmin
  <2>2. CASE LastAdmin(req[p].copy, body)
    BY <2>1, <2>2, IdleAccount, QuietAccounts DEF End
  <2>3. CASE ~LastAdmin(req[p].copy, body)
    <3> DEFINE r == [req[p] EXCEPT !.pc = "write", !.body = body]
    <3>1. /\ r.pc = "write" /\ r.body = body /\ r.target = req[p].target /\ r.copy = req[p].copy
          /\ r \in AccountRequest
      BY <1>1 DEF AccountRequest
    <3>2. req' = [req EXCEPT ![p] = r] /\ UNCHANGED overtaken
      BY <1>1, <2>1, <2>3
    <3>3. ASSUME p \notin overtaken
          PROVE  /\ r.target \in users
                 /\ IsAdmin(r.copy) <=> r.target \in Admins
                 /\ IsAdmin(r.copy) /\ ~Stays(body) => Admins \ {r.target} # {}
      <4>1. /\ req[p].target \in users
            /\ IsAdmin(req[p].copy) <=> req[p].target \in Admins
        BY <2>1, <3>3 DEF AccountsIInv, FreshAccounts, Reading
      <4>2. IsAdmin(req[p].copy) /\ ~Stays(body) => ~AtMostOne(Admins)
        BY <2>3 DEF LastAdmin
      <4>3. QED
        BY <3>1, <4>1, <4>2 DEF AtMostOne
    <3> HIDE DEF r
    <3>4. QED
      BY <2>1, <3>1, <3>2, <3>3, QuietAccounts
  <2>4. QED
    BY <2>2, <2>3
<1>6. CASE FailAccount(p)
  BY <1>6, IdleAccount, QuietAccounts DEF FailAccount, End
<1>7. QED
  BY <1>3, <1>4, <1>5, <1>6

LEMMA AdminsNext == AccountsIInv /\ [AccountsNext]_accountVars => AccountsIInv'
<1> SUFFICES ASSUME AccountsIInv, [AccountsNext]_accountVars PROVE AccountsIInv'
  OBVIOUS
<1>1. CASE AccountsNext
  BY <1>1, AccountStep, AdminRequestStep DEF AccountsNext
<1>2. CASE UNCHANGED accountVars
  BY <1>2 DEF accountVars, accountTable, AccountsIInv, AccountsTypeOK, OnlyReadersOvertaken,
              FreshAccounts, Reading, Admins, IsAdmin, Stays, AdminLossNeedsRace, SomeAdminRemains
<1>3. QED
  BY <1>1, <1>2

(* The inductive invariant holds. *)
THEOREM AdminsInvariance == AccountsSpec => []AccountsIInv
BY AdminsInit, AdminsNext, PTL DEF AccountsSpec

(* Type correctness. *)
THEOREM AccountTypes == AccountsSpec => []AccountsTypeOK
<1>1. AccountsIInv => AccountsTypeOK
  BY DEF AccountsIInv
<1>2. QED
  BY <1>1, AdminsInvariance, PTL

(* Without a race an active administrator remains. *)
THEOREM AdminsRemain == AccountsSpec => []AdminLossNeedsRace
<1>1. AccountsIInv => AdminLossNeedsRace
  BY DEF AccountsIInv
<1>2. QED
  BY <1>1, AdminsInvariance, PTL

(* Overlapping patches of one user merge. *)
THEOREM Merging == AccountsSpec => PatchesMerge
<1>1. AccountsIInv /\ [AccountsNext]_accountVars =>
        [\A u \in users : account'[u] # account[u] =>
           \E p \in Requests :
             /\ CommitPatch(p)
             /\ req[p].target = u
             /\ account'[u].role \in {account[u].role, req[p].body.role}
             /\ account'[u].status \in {account[u].status, req[p].body.status}]_accountVars
  <2> SUFFICES ASSUME AccountsIInv, AccountsNext, NEW u \in users, account'[u] # account[u]
               PROVE  \E p \in Requests :
                        /\ CommitPatch(p)
                        /\ req[p].target = u
                        /\ account'[u].role \in {account[u].role, req[p].body.role}
                        /\ account'[u].status \in {account[u].status, req[p].body.status}
    OBVIOUS
  <2>1. account \in [Users -> Account] /\ u \in Users
    BY DEF AccountsIInv, AccountsTypeOK
  <2>2. PICK p \in Requests : CommitPatch(p) \/ CreateUser(p)
    BY DEF AccountsNext, Authorize, LoadUser, EnsureNotLastAdmin, FailAccount, accountTable
  <2>3. ~CreateUser(p)
    BY <2>1 DEF CreateUser
  <2>4. CommitPatch(p) /\ req[p].target = u /\ account'[u] = Written(p)
    BY <2>1, <2>2, <2>3 DEF CommitPatch
  <2>5. /\ account'[u].role \in {account[u].role, req[p].body.role}
        /\ account'[u].status \in {account[u].status, req[p].body.status}
    BY <2>4 DEF Written, Column
  <2>6. QED
    BY <2>4, <2>5
<1>2. QED
  BY <1>1, AdminsInvariance, PTL DEF AccountsSpec, PatchesMerge
=============================================================================
