-------------------------- MODULE AssistantChatsProofs --------------------------
(***************************************************************************)
(* Proofs about the assistant panel, for any number of tabs, conversations *)
(* and questions and any limits: the types, that an answer stands behind   *)
(* its own question, and what may make a finished answer go.               *)
(***************************************************************************)
EXTENDS AssistantChats, TLAPS

-----------------------------------------------------------------------------
(* Sequences without repetition: taking one element out, putting one in front, and
   the first few. *)
LEMMA Joined ==
  ASSUME NEW S, NEW a \in Seq(S), NEW b \in Seq(S)
  PROVE  /\ a \o b \in Seq(S) /\ Len(a \o b) = Len(a) + Len(b)
         /\ \A i \in 1..Len(a \o b) : (a \o b)[i] = IF i <= Len(a) THEN a[i] ELSE b[i - Len(a)]
  OBVIOUS

LEMMA RemovedOne ==
  ASSUME NEW S, NEW s \in Seq(S), IsInjective(s), NEW e \in ToSet(s)
  PROVE  LET o == RemoveFirst(s, e) IN
         /\ o \in Seq(S) /\ IsInjective(o) /\ Len(o) = Len(s) - 1
         /\ ToSet(o) = ToSet(s) \ {e}
<1> DEFINE I == {i \in 1..Len(s) : s[i] = e}
           o == RemoveFirst(s, e)
<1>1. PICK k \in 1..Len(s) : s[k] = e
  BY DEF ToSet
<1>2. I = {k}
  BY <1>1 DEF IsInjective
<1>3. Min(I) = k
  BY <1>2 DEF Min
<1>4. RemoveFirst(s, e) = RemoveAt(s, k)
  <2>1. SelectInSeq(s, LAMBDA v : v = e) = k
    BY <1>2, <1>3 DEF SelectInSeq
  <2> QED
    BY <1>1, <2>1 DEF RemoveFirst
<1>5. o = SubSeq(s, 1, k - 1) \o SubSeq(s, k + 1, Len(s))
  BY <1>4 DEF RemoveAt
<1>6. /\ o \in Seq(S) /\ Len(o) = Len(s) - 1
      /\ \A i \in 1..Len(o) : o[i] = IF i < k THEN s[i] ELSE s[i + 1]
  <2> DEFINE a == SubSeq(s, 1, k - 1)
             b == SubSeq(s, k + 1, Len(s))
  <2>1. k \in Nat /\ Len(s) \in Nat /\ 1 <= k /\ k <= Len(s)
    BY <1>1
  <2>2. a \in Seq(S) /\ Len(a) = k - 1 /\ \A i \in 1..(k - 1) : a[i] = s[i]
    BY <2>1
  <2>3. b \in Seq(S) /\ Len(b) = Len(s) - k /\ \A i \in 1..(Len(s) - k) : b[i] = s[i + k]
    BY <2>1
  <2>4. o = a \o b
    BY <1>5
  <2> HIDE DEF a, b, o
  <2>s. a \in Seq(S) /\ b \in Seq(S) /\ Len(a) = k - 1 /\ Len(b) = Len(s) - k
    BY <2>2, <2>3
  <2>t. /\ o \in Seq(S) /\ Len(o) = Len(a) + Len(b)
        /\ \A i \in 1..Len(o) : o[i] = IF i <= Len(a) THEN a[i] ELSE b[i - Len(a)]
    BY <2>4, <2>s, Joined
  <2>5. o \in Seq(S) /\ Len(o) = Len(s) - 1
    <3>1. o \in Seq(S) /\ Len(o) = Len(a) + Len(b)
      BY <2>t
    <3>2. Len(a) = k - 1 /\ Len(b) = Len(s) - k
      BY <2>s
    <3> QED
      BY <2>1, <3>1, <3>2
  <2>6. ASSUME NEW i \in 1..Len(o) PROVE o[i] = IF i < k THEN s[i] ELSE s[i + 1]
    <3>1. CASE i < k
      BY <2>1, <2>2, <2>s, <2>t, <2>5, <3>1
    <3>2. CASE ~(i < k)
      <4>1. o[i] = b[i - (k - 1)]
        BY <2>1, <2>s, <2>t, <2>5, <3>2
      <4>2. i - (k - 1) \in 1..(Len(s) - k) /\ (i - (k - 1)) + k = i + 1
        BY <2>1, <2>5, <3>2
      <4> QED
        BY <2>3, <3>2, <4>1, <4>2
    <3> QED
      BY <3>1, <3>2
  <2> QED
    BY <2>5, <2>6
<1> HIDE DEF o
<1>7. DOMAIN o = 1..Len(o) /\ DOMAIN s = 1..Len(s) /\ Len(s) \in Nat /\ k \in Nat
  BY <1>6
<1>a. \A i \in 1..Len(o) : (IF i < k THEN i ELSE i + 1) \in (1..Len(s)) \ {k}
  BY <1>6, <1>7
<1>b. \A i, j \in 1..Len(s) : s[i] = s[j] => i = j
  BY <1>7 DEF IsInjective
<1>8. IsInjective(o)
  <2> SUFFICES ASSUME NEW i \in 1..Len(o), NEW j \in 1..Len(o), o[i] = o[j] PROVE i = j
    BY <1>7 DEF IsInjective
  <2>1. (IF i < k THEN i ELSE i + 1) = (IF j < k THEN j ELSE j + 1)
    BY <1>6, <1>a, <1>b
  <2> QED
    BY <1>7, <2>1
<1>9. ToSet(o) \subseteq ToSet(s) \ {e}
  <2> SUFFICES ASSUME NEW i \in 1..Len(o) PROVE o[i] \in ToSet(s) /\ o[i] # e
    BY <1>7 DEF ToSet
  <2>1. PICK j \in (1..Len(s)) \ {k} : o[i] = s[j]
    BY <1>6, <1>a
  <2> QED
    BY <1>1, <1>7, <1>b, <2>1 DEF ToSet
<1>10. ASSUME NEW x \in ToSet(s) \ {e} PROVE x \in ToSet(o)
  <2>1. PICK i \in 1..Len(s) : s[i] = x /\ i # k
    BY <1>1, <1>7 DEF ToSet
  <2>2. CASE i < k
    BY <1>6, <1>7, <2>1, <2>2 DEF ToSet
  <2>3. CASE i > k
    <3>1. i - 1 \in 1..Len(o) /\ ~(i - 1 < k) /\ (i - 1) + 1 = i
      BY <1>6, <1>7, <2>1, <2>3
    <3>2. o[i - 1] = x
      BY <1>6, <2>1, <3>1
    <3> QED
      BY <1>7, <3>1, <3>2 DEF ToSet
  <2> QED
    BY <1>7, <2>1, <2>2, <2>3
<1> QED
  BY <1>6, <1>8, <1>9, <1>10 DEF o

LEMMA PutInFront ==
  ASSUME NEW S, NEW s \in Seq(S), IsInjective(s), NEW e \in S \ ToSet(s)
  PROVE  LET o == <<e>> \o s IN
         /\ o \in Seq(S) /\ IsInjective(o) /\ Len(o) = Len(s) + 1
         /\ ToSet(o) = ToSet(s) \cup {e}
<1> DEFINE o == <<e>> \o s
<1>1. /\ o \in Seq(S) /\ Len(o) = Len(s) + 1 /\ Len(s) \in Nat
      /\ o[1] = e /\ \A i \in 2..Len(o) : o[i] = s[i - 1]
  OBVIOUS
<1> HIDE DEF o
<1>2. DOMAIN o = 1..Len(o) /\ DOMAIN s = 1..Len(s)
  BY <1>1
<1>3. \A i \in 2..Len(o) : i - 1 \in DOMAIN s /\ o[i] # e
  BY <1>1, <1>2 DEF ToSet
<1>4. IsInjective(o)
  <2> SUFFICES ASSUME NEW a \in 1..Len(o), NEW b \in 1..Len(o), o[a] = o[b] PROVE a = b
    BY <1>2 DEF IsInjective
  <2>1. CASE a = 1 \/ b = 1
    BY <1>1, <1>3, <2>1
  <2>2. CASE a # 1 /\ b # 1
    <3>1. a \in 2..Len(o) /\ b \in 2..Len(o)
      BY <1>1, <2>2
    <3>2. a - 1 = b - 1
      BY <1>1, <1>3, <3>1 DEF IsInjective
    <3> QED
      BY <3>1, <3>2
  <2> QED
    BY <2>1, <2>2
<1>5. ToSet(o) \subseteq ToSet(s) \cup {e}
  BY <1>1, <1>2, <1>3 DEF ToSet
<1>6. ASSUME NEW x \in ToSet(s) PROVE x \in ToSet(o)
  <2>1. PICK i \in 1..Len(s) : s[i] = x
    BY <1>2 DEF ToSet
  <2>2. i + 1 \in 2..Len(o) /\ (i + 1) - 1 = i
    BY <1>1
  <2>3. o[i + 1] = x
    BY <1>1, <2>1, <2>2
  <2> QED
    BY <1>1, <1>2, <2>2, <2>3 DEF ToSet
<1>7. e \in ToSet(o)
  BY <1>1, <1>2 DEF ToSet
<1> QED
  BY <1>1, <1>4, <1>5, <1>6, <1>7 DEF o

LEMMA FirstFew ==
  ASSUME NEW S, NEW s \in Seq(S), IsInjective(s), NEW n \in 1..Len(s)
  PROVE  LET o == SubSeq(s, 1, n) IN
         /\ o \in Seq(S) /\ IsInjective(o) /\ Len(o) = n
         /\ ToSet(o) \subseteq ToSet(s) /\ o[1] \in ToSet(o)
         /\ \A e \in ToSet(s) \ ToSet(o) : \E i \in (n + 1)..Len(s) : s[i] = e
<1> DEFINE o == SubSeq(s, 1, n)
<1>1. /\ o \in Seq(S) /\ Len(o) = n /\ Len(s) \in Nat
      /\ \A i \in 1..n : o[i] = s[i]
  OBVIOUS
<1> HIDE DEF o
<1>2. DOMAIN o = 1..n /\ DOMAIN s = 1..Len(s)
  BY <1>1
<1>3. IsInjective(o) /\ ToSet(o) \subseteq ToSet(s) /\ o[1] \in ToSet(o)
  BY <1>1, <1>2 DEF IsInjective, ToSet
<1>4. ASSUME NEW e \in ToSet(s) \ ToSet(o) PROVE \E i \in (n + 1)..Len(s) : s[i] = e
  <2>1. PICK i \in 1..Len(s) : s[i] = e
    BY <1>2 DEF ToSet
  <2>2. ~(i \in 1..n)
    BY <1>1, <1>2, <2>1 DEF ToSet
  <2> QED
    BY <2>1, <2>2
<1> QED
  BY <1>1, <1>3, <1>4 DEF o

(* What a conversation keeps is its end. *)
LEMMA TrimmedEnd ==
  ASSUME NEW m \in Seq(Message)
  PROVE  /\ TrimMsgs(m) \in Seq(Message)
         /\ \E d \in 0..Len(m) :
              /\ d = 0 \/ d = Len(m) - MaxMessages
              /\ Len(TrimMsgs(m)) = Len(m) - d
              /\ \A i \in 1..Len(TrimMsgs(m)) : TrimMsgs(m)[i] = m[i + d]
<1>1. CASE Len(m) <= MaxMessages
  BY <1>1 DEF TrimMsgs
<1>2. CASE ~(Len(m) <= MaxMessages)
  <2> DEFINE d == Len(m) - MaxMessages
  <2>1. TrimMsgs(m) = SubSeq(m, d + 1, Len(m))
    BY <1>2 DEF TrimMsgs
  <2>2. d \in 1..Len(m) /\ Len(m) \in Nat
    BY <1>2, LimitsAssumption
  <2> HIDE DEF d
  <2>3. /\ TrimMsgs(m) \in Seq(Message) /\ Len(TrimMsgs(m)) = Len(m) - d
        /\ \A i \in 1..Len(TrimMsgs(m)) : TrimMsgs(m)[i] = m[i + d]
    BY <2>1, <2>2
  <2>4. d = Len(m) - MaxMessages /\ d \in 0..Len(m)
    BY <2>2 DEF d
  <2> QED
    BY <2>3, <2>4
<1> QED
  BY <1>1, <1>2

-----------------------------------------------------------------------------
(* A store as the panels have it.  Its arrays have the same conversations. *)
Convs == UNION {[T -> Seq(Message)] : T \in SUBSET Chats}
StoreRec == [order : Seq(Chats), recent : Seq(Chats), msgs : Convs, named : SUBSET Chats,
             active : Chats \cup {NoChat}]
Good(s) == s \in StoreRec /\ IsStore(s) /\ Len(s.recent) = Len(s.order)

LEMMA GoodFacts ==
  ASSUME NEW s, Good(s)
  PROVE  /\ s.order \in Seq(Chats) /\ IsInjective(s.order)
         /\ s.recent \in Seq(Chats) /\ IsInjective(s.recent)
         /\ ToSet(s.recent) = ToSet(s.order) /\ Len(s.recent) = Len(s.order)
         /\ DOMAIN s.msgs = ToSet(s.order) /\ ToSet(s.order) \subseteq Chats
         /\ s.msgs \in [ToSet(s.order) -> Seq(Message)]
         /\ s.named \subseteq ToSet(s.order)
         /\ s.active \in ToSet(s.order) /\ s.active \in Chats /\ s # NoStore
         /\ Len(s.order) \in Nat \ {0}
<1>1. /\ s.order \in Seq(Chats) /\ IsInjective(s.order)
      /\ s.recent \in Seq(Chats) /\ IsInjective(s.recent)
      /\ ToSet(s.recent) = ToSet(s.order) /\ Len(s.recent) = Len(s.order)
      /\ DOMAIN s.msgs = ToSet(s.order) /\ s.named \subseteq ToSet(s.order)
      /\ s.active \in ToSet(s.order)
  BY DEF Good, IsStore
<1>2. ToSet(s.order) \subseteq Chats
  BY <1>1 DEF ToSet
<1>3. s.msgs \in [ToSet(s.order) -> Seq(Message)]
  <2>1. PICK T \in SUBSET Chats : s.msgs \in [T -> Seq(Message)]
    BY DEF Good, StoreRec, Convs
  <2> QED
    BY <1>1, <2>1
<1>4. s # NoStore
  BY <1>1, <1>2, NoChatAssumption DEF NoStore
<1>5. Len(s.order) \in Nat \ {0}
  BY <1>1 DEF ToSet
<1> QED
  BY <1>1, <1>2, <1>3, <1>4, <1>5

LEMMA GoodIs ==
  ASSUME NEW o \in Seq(Chats), NEW r \in Seq(Chats), IsInjective(o), IsInjective(r),
         ToSet(r) = ToSet(o), Len(r) = Len(o),
         NEW m \in [ToSet(o) -> Seq(Message)], NEW n \in SUBSET ToSet(o), NEW a \in ToSet(o)
  PROVE  Good([order |-> o, recent |-> r, msgs |-> m, named |-> n, active |-> a])
<1> DEFINE s == [order |-> o, recent |-> r, msgs |-> m, named |-> n, active |-> a]
<1>1. ToSet(o) \subseteq Chats
  BY DEF ToSet
<1>2. m \in Convs
  BY <1>1 DEF Convs
<1>3. s \in StoreRec
  BY <1>1, <1>2 DEF StoreRec
<1>4. IsStore(s)
  BY DEF IsStore
<1> QED
  BY <1>3, <1>4 DEF Good

(* What is written: every conversation, or the latest ones; of each the end. *)
LEMMA TrimmedIs ==
  ASSUME NEW s, Good(s)
  PROVE  LET w == Trimmed(s) IN
         /\ Good(w) /\ Len(w.order) <= MaxChats
         /\ DOMAIN w.msgs \subseteq DOMAIN s.msgs
         /\ \A t \in DOMAIN w.msgs : w.msgs[t] = TrimMsgs(s.msgs[t])
         /\ \A t \in DOMAIN s.msgs \ DOMAIN w.msgs :
              \E i \in (MaxChats + 1)..Len(s.recent) : s.recent[i] = t
<1> DEFINE fits == Len(s.order) <= MaxChats
           kept == IF fits THEN s.order ELSE SubSeq(s.recent, 1, MaxChats)
           rec == IF fits THEN s.recent ELSE kept
           mm == [t \in ToSet(kept) |-> TrimMsgs(s.msgs[t])]
           nn == s.named \cap ToSet(kept)
           aa == IF s.active \in ToSet(kept) THEN s.active ELSE kept[1]
<1>1. Trimmed(s) = [order |-> kept, recent |-> rec, msgs |-> mm, named |-> nn, active |-> aa]
  BY DEF Trimmed
<1>2. /\ kept \in Seq(Chats) /\ IsInjective(kept) /\ Len(kept) <= MaxChats
      /\ rec \in Seq(Chats) /\ IsInjective(rec) /\ ToSet(rec) = ToSet(kept) /\ Len(rec) = Len(kept)
      /\ ToSet(kept) \subseteq ToSet(s.order) /\ aa \in ToSet(kept)
      /\ \A e \in ToSet(s.order) \ ToSet(kept) :
           \E i \in (MaxChats + 1)..Len(s.recent) : s.recent[i] = e
  <2>1. CASE fits
    BY <2>1, GoodFacts
  <2>2. CASE ~fits
    <3> DEFINE few == SubSeq(s.recent, 1, MaxChats)
    <3>1. MaxChats \in 1..Len(s.recent)
      BY <2>2, GoodFacts, LimitsAssumption
    <3>2. /\ few \in Seq(Chats) /\ IsInjective(few) /\ Len(few) = MaxChats
          /\ ToSet(few) \subseteq ToSet(s.recent) /\ few[1] \in ToSet(few)
          /\ \A e \in ToSet(s.recent) \ ToSet(few) :
               \E i \in (MaxChats + 1)..Len(s.recent) : s.recent[i] = e
      BY <3>1, GoodFacts, FirstFew
    <3>3. kept = few /\ rec = few
      BY <2>2
    <3> QED
      BY <3>2, <3>3, GoodFacts, LimitsAssumption
  <2> QED
    BY <2>1, <2>2
<1> HIDE DEF kept, rec, aa, fits
<1>3. mm \in [ToSet(kept) -> Seq(Message)]
  <2>1. ASSUME NEW t \in ToSet(kept) PROVE TrimMsgs(s.msgs[t]) \in Seq(Message)
    <3>1. s.msgs[t] \in Seq(Message)
      BY <1>2, GoodFacts
    <3> QED
      BY <3>1, TrimmedEnd
  <2> QED
    BY <2>1
<1>4. DOMAIN s.msgs = ToSet(s.order) /\ DOMAIN mm = ToSet(kept)
  BY GoodFacts
<1>5. Good(Trimmed(s))
  <2>1. nn \in SUBSET ToSet(kept)
    OBVIOUS
  <2> HIDE DEF mm, nn
  <2> QED
    BY <1>1, <1>2, <1>3, <2>1, GoodIs
<1> QED
  BY <1>1, <1>2, <1>4, <1>5

(* A conversation gets messages: the others keep theirs. *)
LEMMA UpdatedIs ==
  ASSUME NEW s, Good(s), NEW t \in Chats, NEW m \in Seq(Message)
  PROVE  LET w == Updated(s, t, m) IN
         /\ Good(w) /\ DOMAIN w.msgs = DOMAIN s.msgs
         /\ \A u \in DOMAIN w.msgs : w.msgs[u] = IF u = t THEN m ELSE s.msgs[u]
         /\ w.active = s.active
<1>1. CASE t \notin DOMAIN s.msgs
  <2>1. Updated(s, t, m) = s
    BY <1>1 DEF Updated
  <2> QED
    BY <1>1, <2>1
<1>2. CASE t \in DOMAIN s.msgs
  <2> DEFINE mm == [s.msgs EXCEPT ![t] = m]
             o == RemoveFirst(s.recent, t)
             r == <<t>> \o o
  <2>1. Updated(s, t, m) = [order |-> s.order, recent |-> r, msgs |-> mm,
                            named |-> s.named, active |-> s.active]
    BY <1>2 DEF Updated, Good, StoreRec
  <2>2. /\ o \in Seq(Chats) /\ IsInjective(o) /\ Len(o) = Len(s.recent) - 1
        /\ ToSet(o) = ToSet(s.recent) \ {t} /\ t \in ToSet(s.recent)
    BY <1>2, GoodFacts, RemovedOne
  <2> HIDE DEF o
  <2>3. r \in Seq(Chats) /\ IsInjective(r) /\ Len(r) = Len(o) + 1 /\ ToSet(r) = ToSet(o) \cup {t}
    BY <2>2, PutInFront
  <2> HIDE DEF r
  <2>4. ToSet(r) = ToSet(s.order) /\ Len(r) = Len(s.order)
    BY <2>2, <2>3, GoodFacts
  <2>5. mm \in [ToSet(s.order) -> Seq(Message)] /\ DOMAIN mm = DOMAIN s.msgs
    BY <1>2, GoodFacts
  <2>6. \A u \in DOMAIN mm : mm[u] = IF u = t THEN m ELSE s.msgs[u]
    BY <1>2
  <2> HIDE DEF mm
  <2>7. Good([order |-> s.order, recent |-> r, msgs |-> mm, named |-> s.named, active |-> s.active])
    BY <2>3, <2>4, <2>5, GoodFacts, GoodIs
  <2> QED
    BY <2>1, <2>5, <2>6, <2>7
<1> QED
  BY <1>1, <1>2

LEMMA FreshIs ==
  ASSUME NEW t \in Chats
  PROVE  Good(Fresh(t)) /\ DOMAIN Fresh(t).msgs = {t} /\ Fresh(t).msgs[t] = <<>>
<1> DEFINE o == <<t>>
           m == [u \in {t} |-> <<>>]
<1>1. o \in Seq(Chats) /\ IsInjective(o) /\ ToSet(o) = {t}
  BY DEF IsInjective, ToSet
<1>2. <<>> \in Seq(Message)
  OBVIOUS
<1>3. m \in [{t} -> Seq(Message)] /\ DOMAIN m = {t} /\ m[t] = <<>>
  BY <1>2
<1>4. Fresh(t) = [order |-> o, recent |-> o, msgs |-> m, named |-> {}, active |-> t]
  BY DEF Fresh
<1> HIDE DEF o, m
<1>5. Good([order |-> o, recent |-> o, msgs |-> m, named |-> {}, active |-> t])
  BY <1>1, <1>3, GoodIs
<1> QED
  BY <1>3, <1>4, <1>5

(* The store that SelectChat sets. *)
Selected(s, t) == [s EXCEPT !.active = t]

LEMMA WithIs ==
  ASSUME NEW s, Good(s), NEW t \in Chats \ ToSet(s.order)
  PROVE  LET w == With(s, t) IN
         /\ Good(w) /\ DOMAIN w.msgs = DOMAIN s.msgs \cup {t}
         /\ \A u \in DOMAIN w.msgs : w.msgs[u] = IF u = t THEN <<>> ELSE s.msgs[u]
<1> DEFINE o == <<t>> \o s.order
           r == <<t>> \o s.recent
           m == [u \in (DOMAIN s.msgs) \cup {t} |-> IF u = t THEN <<>> ELSE s.msgs[u]]
<1>1. With(s, t) = [order |-> o, recent |-> r, msgs |-> m, named |-> s.named, active |-> t]
  BY DEF With
<1>2. o \in Seq(Chats) /\ IsInjective(o) /\ Len(o) = Len(s.order) + 1 /\ ToSet(o) = ToSet(s.order) \cup {t}
  BY GoodFacts, PutInFront
<1>3. r \in Seq(Chats) /\ IsInjective(r) /\ Len(r) = Len(s.recent) + 1 /\ ToSet(r) = ToSet(s.recent) \cup {t}
  BY GoodFacts, PutInFront
<1>4. <<>> \in Seq(Message)
  OBVIOUS
<1>5. m \in [ToSet(o) -> Seq(Message)]
  BY <1>2, <1>4, GoodFacts
<1>6. /\ DOMAIN m = DOMAIN s.msgs \cup {t}
      /\ \A u \in DOMAIN m : m[u] = IF u = t THEN <<>> ELSE s.msgs[u]
  OBVIOUS
<1> HIDE DEF o, r, m
<1>7. Good([order |-> o, recent |-> r, msgs |-> m, named |-> s.named, active |-> t])
  BY <1>2, <1>3, <1>5, GoodFacts, GoodIs
<1> QED
  BY <1>1, <1>6, <1>7

LEMMA SelectedIs ==
  ASSUME NEW s, Good(s), NEW t \in DOMAIN s.msgs
  PROVE  Good(Selected(s, t)) /\ Selected(s, t).msgs = s.msgs
<1>1. Selected(s, t) = [order |-> s.order, recent |-> s.recent, msgs |-> s.msgs,
                        named |-> s.named, active |-> t]
  <2>1. s \in StoreRec
    BY DEF Good
  <2> QED
    BY <2>1 DEF Selected, StoreRec
<1>2. /\ s.order \in Seq(Chats) /\ IsInjective(s.order) /\ s.recent \in Seq(Chats) /\ IsInjective(s.recent)
      /\ ToSet(s.recent) = ToSet(s.order) /\ Len(s.recent) = Len(s.order)
      /\ s.msgs \in [ToSet(s.order) -> Seq(Message)] /\ s.named \in SUBSET ToSet(s.order)
      /\ t \in ToSet(s.order)
  BY GoodFacts
<1> QED
  <2>1. Good([order |-> s.order, recent |-> s.recent, msgs |-> s.msgs, named |-> s.named, active |-> t])
    BY <1>2, GoodIs
  <2> QED
    BY <1>1, <2>1

LEMMA TitledIs ==
  ASSUME NEW s, Good(s), NEW t \in Chats
  PROVE  LET w == Titled(s, t) IN
         Good(w) /\ DOMAIN w.msgs = DOMAIN s.msgs /\ \A u \in DOMAIN w.msgs : w.msgs[u] = s.msgs[u]
<1>1. CASE t \notin DOMAIN s.msgs
  BY <1>1 DEF Titled
<1>2. CASE t \in DOMAIN s.msgs
  <2> DEFINE w == Updated(s, t, s.msgs[t])
             n == w.named \cup {t}
  <2>1. Titled(s, t) = [w EXCEPT !.named = @ \cup {t}]
    BY <1>2 DEF Titled
  <2>2. s.msgs[t] \in Seq(Message)
    BY <1>2, GoodFacts
  <2>3. /\ Good(w) /\ DOMAIN w.msgs = DOMAIN s.msgs
        /\ \A u \in DOMAIN w.msgs : w.msgs[u] = s.msgs[u]
    BY <2>2, UpdatedIs
  <2> HIDE DEF w
  <2>4. Titled(s, t) = [order |-> w.order, recent |-> w.recent, msgs |-> w.msgs,
                        named |-> n, active |-> w.active]
    BY <2>1, <2>3 DEF Good, StoreRec
  <2>5. n \in SUBSET ToSet(w.order)
    BY <1>2, <2>3, GoodFacts
  <2> HIDE DEF n
  <2>6. Good([order |-> w.order, recent |-> w.recent, msgs |-> w.msgs, named |-> n, active |-> w.active])
    BY <2>3, <2>5, GoodFacts, GoodIs
  <2> QED
    BY <2>3, <2>4, <2>6
<1> QED
  BY <1>1, <1>2

LEMMA WithoutIs ==
  ASSUME NEW s, Good(s), NEW t \in DOMAIN s.msgs, Len(s.order) > 1
  PROVE  LET w == Without(s, t) IN
         /\ Good(w) /\ DOMAIN w.msgs = DOMAIN s.msgs \ {t}
         /\ \A u \in DOMAIN w.msgs : w.msgs[u] = s.msgs[u]
<1> DEFINE o == RemoveFirst(s.order, t)
           r == RemoveFirst(s.recent, t)
           m == [u \in ToSet(o) |-> s.msgs[u]]
           n == s.named \ {t}
           a == IF s.active = t THEN o[1] ELSE s.active
<1>1. Without(s, t) = [order |-> o, recent |-> r, msgs |-> m, named |-> n, active |-> a]
  BY DEF Without
<1>2. o \in Seq(Chats) /\ IsInjective(o) /\ Len(o) = Len(s.order) - 1 /\ ToSet(o) = ToSet(s.order) \ {t}
  BY GoodFacts, RemovedOne
<1>3. r \in Seq(Chats) /\ IsInjective(r) /\ Len(r) = Len(s.recent) - 1 /\ ToSet(r) = ToSet(s.recent) \ {t}
  BY GoodFacts, RemovedOne
<1> HIDE DEF o, r
<1>4. /\ m \in [ToSet(o) -> Seq(Message)] /\ DOMAIN m = DOMAIN s.msgs \ {t}
      /\ \A u \in DOMAIN m : m[u] = s.msgs[u]
  BY <1>2, GoodFacts
<1>5. a \in ToSet(o)
  <2>1. o[1] \in ToSet(o)
    BY <1>2, GoodFacts DEF ToSet
  <2> QED
    BY <1>2, <2>1, GoodFacts
<1>6. n \in SUBSET ToSet(o)
  BY <1>2, GoodFacts
<1> HIDE DEF m, n, a
<1>7. Good([order |-> o, recent |-> r, msgs |-> m, named |-> n, active |-> a])
  BY <1>2, <1>3, <1>4, <1>5, <1>6, GoodFacts, GoodIs
<1> QED
  BY <1>1, <1>4, <1>7

-----------------------------------------------------------------------------
(* The states: a panel that is open has a store, and a run has an open panel. *)
OpenPanels == {x \in [store : StoreRec, pending : BOOLEAN, titling : SUBSET Chats] : Good(x.store)}
Running == {r \in Run : r.stage # "none" /\ r.chat \in Chats /\ r.of \in Questions}

TypeInv ==
  /\ storage = NoStore \/ (Good(storage) /\ Len(storage.order) <= MaxChats)
  /\ panel \in [Tabs -> {Closed} \cup OpenPanels]
  /\ run \in [Tabs -> {NoRun} \cup Running]
  /\ \A p \in Tabs : run[p] # NoRun => panel[p] # Closed
  /\ asked \in 0..MaxQuestions

LEMMA OpenFacts ==
  ASSUME TypeInv, NEW p \in Tabs, panel[p] # Closed
  PROVE  /\ panel[p] \in [store : StoreRec, pending : BOOLEAN, titling : SUBSET Chats]
         /\ Good(panel[p].store) /\ panel[p].pending \in BOOLEAN /\ panel[p].titling \in SUBSET Chats
  BY DEF TypeInv, OpenPanels

LEMMA RunFacts ==
  ASSUME TypeInv, NEW p \in Tabs, run[p].stage # "none"
  PROVE  /\ run[p] \in Running /\ run[p] # NoRun /\ panel[p] # Closed
         /\ run[p].chat \in Chats /\ run[p].of \in Questions /\ run[p].base \in Seq(Message)
         /\ run[p].said \in Texts /\ run[p].round \in 0..MaxRounds
<1>1. run[p] # NoRun
  BY DEF NoRun
<1>2. run[p] \in Running /\ panel[p] # Closed
  BY <1>1 DEF TypeInv
<1> QED
  BY <1>1, <1>2 DEF Running, Run

(* The panel of p is open and has the store s; the others are as they were. *)
Has(panels, p, s) ==
  /\ panels \in [Tabs -> {Closed} \cup OpenPanels]
  /\ panels[p] \in OpenPanels /\ panels[p] # Closed /\ panels[p].store = s
  /\ \A q \in Tabs : q # p => panels[q] = panel[q]

LEMMA PanelSet ==
  ASSUME TypeInv, NEW p \in Tabs, NEW x \in [store : StoreRec, pending : BOOLEAN, titling : SUBSET Chats],
         Good(x.store)
  PROVE  Has([panel EXCEPT ![p] = x], p, x.store)
<1>1. x # Closed
  BY GoodFacts DEF Closed
<1>2. x \in OpenPanels
  BY DEF OpenPanels
<1>3. panel \in [Tabs -> {Closed} \cup OpenPanels]
  BY DEF TypeInv
<1> QED
  BY <1>1, <1>2, <1>3 DEF Has

(* A panel's fields are set one by one. *)
LEMMA FieldsSet ==
  ASSUME TypeInv, NEW p \in Tabs, panel[p] # Closed,
         NEW s, Good(s), NEW b \in BOOLEAN, NEW ts \in SUBSET Chats
  PROVE  /\ Has([panel EXCEPT ![p].store = s], p, s)
         /\ Has([panel EXCEPT ![p].store = s, ![p].pending = b], p, s)
         /\ Has([panel EXCEPT ![p].store = s, ![p].pending = b, ![p].titling = ts], p, s)
         /\ Has([panel EXCEPT ![p].titling = ts, ![p].store = s], p, s)
<1> DEFINE x1 == [panel[p] EXCEPT !.store = s]
           x2 == [panel[p] EXCEPT !.store = s, !.pending = b]
           x3 == [panel[p] EXCEPT !.store = s, !.pending = b, !.titling = ts]
           x4 == [panel[p] EXCEPT !.titling = ts, !.store = s]
           P == [store : StoreRec, pending : BOOLEAN, titling : SUBSET Chats]
<1>1. panel \in [Tabs -> {Closed} \cup OpenPanels]
  BY DEF TypeInv
<1>2. /\ [panel EXCEPT ![p].store = s] = [panel EXCEPT ![p] = x1]
      /\ [panel EXCEPT ![p].store = s, ![p].pending = b] = [panel EXCEPT ![p] = x2]
      /\ [panel EXCEPT ![p].store = s, ![p].pending = b, ![p].titling = ts] = [panel EXCEPT ![p] = x3]
      /\ [panel EXCEPT ![p].titling = ts, ![p].store = s] = [panel EXCEPT ![p] = x4]
  BY <1>1
<1>3. panel[p] \in P /\ s \in StoreRec
  BY OpenFacts DEF Good
<1>4. x1 \in P /\ x2 \in P /\ x3 \in P /\ x4 \in P
  <2>1. x1 \in P
    BY <1>3
  <2>2. x2 \in P
    BY <1>3
  <2>3. x3 \in P
    BY <1>3
  <2>4. x4 \in P
    BY <1>3
  <2> QED
    BY <2>1, <2>2, <2>3, <2>4
<1>5. x1.store = s /\ x2.store = s /\ x3.store = s /\ x4.store = s
  BY <1>3
<1> HIDE DEF x1, x2, x3, x4
<1>6. ASSUME NEW x \in P, x.store = s PROVE Has([panel EXCEPT ![p] = x], p, s)
  BY <1>6, PanelSet
<1> HIDE DEF P
<1> QED
  BY <1>2, <1>4, <1>5, <1>6

-----------------------------------------------------------------------------
(* What the actions do, in six kinds.  A panel opens. *)
Opens(p) ==
  /\ panel[p] = Closed
  /\ \E s : /\ Good(s)
            /\ (storage # NoStore /\ s = Trimmed(storage)) \/ (\E t \in Unused : s = Fresh(t))
            /\ Has(panel', p, s)
            /\ storage' = Trimmed(s)
  /\ UNCHANGED <<run, asked>>

(* It closes. *)
Closes(p) ==
  /\ panel' = [panel EXCEPT ![p] = Closed] /\ run' = [run EXCEPT ![p] = NoRun]
  /\ UNCHANGED <<storage, asked>>

(* Conversations come and go in it, and keep their messages. *)
Moves(p) ==
  /\ panel[p] # Closed
  /\ \E s : /\ Good(s)
            /\ \A u \in DOMAIN s.msgs :
                 s.msgs[u] = IF u \in DOMAIN panel[p].store.msgs THEN panel[p].store.msgs[u] ELSE <<>>
            /\ Has(panel', p, s)
            /\ storage' = Trimmed(s)
  /\ UNCHANGED <<run, asked>>

(* A question is asked. *)
Asked(p) ==
  [stage |-> "streaming", chat |-> panel[p].store.active, of |-> asked + 1,
   base |-> Append(Messages(p), User(asked + 1)), said |-> "blank", round |-> 0]

Asks(p) ==
  /\ panel[p] # Closed /\ asked < MaxQuestions
  /\ LET s == Updated(panel[p].store, panel[p].store.active,
                      Append(Asked(p).base, Assistant(asked + 1, "blank")))
     IN /\ Has(panel', p, s)
        /\ storage' = Trimmed(s)
  /\ run' = [run EXCEPT ![p] = Asked(p)]
  /\ asked' = asked + 1

(* The run goes on, or is over; the conversation gets its answer, or loses it. *)
GoesOn(p) ==
  \E r : /\ run' = [run EXCEPT ![p] = r]
         /\ r = NoRun \/ (r \in Running /\ r.chat = run[p].chat /\ r.of = run[p].of /\ r.base = run[p].base)

Says(p) ==
  /\ run[p].stage # "none"
  /\ \E m : /\ m = run[p].base \/ \E text \in Texts : m = Append(run[p].base, Assistant(run[p].of, text))
            /\ LET s == Updated(panel[p].store, run[p].chat, m)
               IN Has(panel', p, s) /\ storage' = Trimmed(s)
  /\ GoesOn(p) /\ UNCHANGED asked

Waits(p) ==
  /\ run[p].stage # "none"
  /\ Has(panel', p, panel[p].store)
  /\ GoesOn(p) /\ UNCHANGED <<storage, asked>>

-----------------------------------------------------------------------------
(* Every action is of one of these kinds. *)
LEMMA OpenPanelKind == ASSUME TypeInv, NEW p \in Tabs, OpenPanel(p) PROVE Opens(p)
<1>1. PICK s \in IF storage = NoStore THEN {Fresh(t) : t \in Unused} ELSE {Trimmed(storage)} :
        panel' = [panel EXCEPT ![p] = [Closed EXCEPT !.store = s]] /\ storage' = Trimmed(s)
  BY DEF OpenPanel
<1>2. (storage # NoStore /\ s = Trimmed(storage)) \/ (\E t \in Unused : s = Fresh(t))
  BY <1>1
<1>3. Good(s)
  <2>1. CASE storage # NoStore /\ s = Trimmed(storage)
    <3>1. Good(storage)
      BY <2>1 DEF TypeInv
    <3> QED
      BY <2>1, <3>1, TrimmedIs
  <2>2. CASE \E t \in Unused : s = Fresh(t)
    BY <2>2, FreshIs DEF Unused
  <2> QED
    BY <1>2, <2>1, <2>2
<1> DEFINE x == [Closed EXCEPT !.store = s]
<1>4. x \in [store : StoreRec, pending : BOOLEAN, titling : SUBSET Chats] /\ x.store = s
  BY <1>3 DEF Closed, Good
<1>5. panel' = [panel EXCEPT ![p] = x]
  BY <1>1
<1> HIDE DEF x
<1>6. Has(panel', p, s)
  BY <1>3, <1>4, <1>5, PanelSet
<1> QED
  BY <1>1, <1>2, <1>3, <1>6 DEF OpenPanel, Open, Opens

(* The stores of Moves. *)
LEMMA MoveKind ==
  ASSUME TypeInv, NEW p \in Tabs, panel[p] # Closed, NEW s, Good(s), SetStore(p, s), UNCHANGED <<run, asked>>,
         \A u \in DOMAIN s.msgs :
           s.msgs[u] = IF u \in DOMAIN panel[p].store.msgs THEN panel[p].store.msgs[u] ELSE <<>>
  PROVE  Moves(p)
<1>1. Has(panel', p, s)
  <2>1. TRUE \in BOOLEAN /\ {} \in SUBSET Chats
    OBVIOUS
  <2>2. Has([panel EXCEPT ![p].store = s], p, s)
    BY <2>1, FieldsSet, Zenon
  <2> QED
    BY <2>2, Zenon DEF SetStore
<1> QED
  BY <1>1 DEF Moves, SetStore

LEMMA NewChatKind == ASSUME TypeInv, NEW p \in Tabs, NewChat(p) PROVE Moves(p)
<1>1. PICK t \in Unused : SetStore(p, With(panel[p].store, t))
  BY DEF NewChat
<1>2. panel[p] # Closed /\ UNCHANGED <<run, asked>>
  BY DEF NewChat, Open
<1>3. Good(panel[p].store)
  BY <1>2, OpenFacts
<1>4. t \in Chats \ ToSet(panel[p].store.order)
  BY <1>1 DEF Unused
<1>5. /\ Good(With(panel[p].store, t))
      /\ DOMAIN With(panel[p].store, t).msgs = DOMAIN panel[p].store.msgs \cup {t}
      /\ \A u \in DOMAIN With(panel[p].store, t).msgs :
           With(panel[p].store, t).msgs[u] = IF u = t THEN <<>> ELSE panel[p].store.msgs[u]
  BY <1>3, <1>4, WithIs
<1>6. t \notin DOMAIN panel[p].store.msgs
  BY <1>3, <1>4, GoodFacts
<1> QED
  BY <1>1, <1>2, <1>5, <1>6, MoveKind

LEMMA SelectChatKind == ASSUME TypeInv, NEW p \in Tabs, NEW t \in Chats, SelectChat(p, t) PROVE Moves(p)
<1>1. /\ SetStore(p, Selected(panel[p].store, t)) /\ t \in DOMAIN panel[p].store.msgs
      /\ panel[p] # Closed /\ UNCHANGED <<run, asked>>
  BY DEF SelectChat, Open, Selected
<1>2. Good(panel[p].store)
  BY <1>1, OpenFacts
<1>3. Good(Selected(panel[p].store, t)) /\ Selected(panel[p].store, t).msgs = panel[p].store.msgs
  BY <1>1, <1>2, SelectedIs
<1> QED
  BY <1>1, <1>3, MoveKind

LEMMA DeleteChatKind == ASSUME TypeInv, NEW p \in Tabs, NEW t \in Chats, DeleteChat(p, t) PROVE Moves(p)
<1>1. /\ t \in DOMAIN panel[p].store.msgs /\ panel[p] # Closed /\ UNCHANGED <<run, asked>>
      /\ IF Len(panel[p].store.order) > 1 THEN SetStore(p, Without(panel[p].store, t))
         ELSE \E u \in Unused : SetStore(p, Fresh(u))
  BY DEF DeleteChat, Open
<1>2. Good(panel[p].store)
  BY <1>1, OpenFacts
<1>3. CASE Len(panel[p].store.order) > 1
  <2> DEFINE w == Without(panel[p].store, t)
  <2>1. /\ Good(w) /\ DOMAIN w.msgs = DOMAIN panel[p].store.msgs \ {t}
        /\ \A u \in DOMAIN w.msgs : w.msgs[u] = panel[p].store.msgs[u]
    BY <1>1, <1>2, <1>3, WithoutIs
  <2>2. SetStore(p, w)
    BY <1>1, <1>3
  <2> HIDE DEF w
  <2> QED
    BY <1>1, <2>1, <2>2, MoveKind
<1>4. CASE ~(Len(panel[p].store.order) > 1)
  <2>1. PICK u \in Unused : SetStore(p, Fresh(u))
    BY <1>1, <1>4
  <2>2. u \in Chats /\ u \notin ToSet(panel[p].store.order)
    BY <2>1 DEF Unused
  <2>3. u \notin DOMAIN panel[p].store.msgs
    BY <1>2, <2>2, GoodFacts
  <2>4. Good(Fresh(u)) /\ DOMAIN Fresh(u).msgs = {u} /\ Fresh(u).msgs[u] = <<>>
    BY <2>2, FreshIs
  <2> QED
    BY <1>1, <2>1, <2>3, <2>4, MoveKind
<1> QED
  BY <1>3, <1>4

LEMMA TitleArrivesKind == ASSUME TypeInv, NEW p \in Tabs, NEW t \in Chats, TitleArrives(p, t) PROVE Moves(p)
<1>1. panel[p] # Closed
  BY DEF TitleArrives, Closed
<1>2. Good(panel[p].store) /\ panel[p].titling \ {t} \in SUBSET Chats /\ panel[p].pending \in BOOLEAN
  BY <1>1, OpenFacts
<1> DEFINE w == Titled(panel[p].store, t)
<1>3. /\ Good(w) /\ DOMAIN w.msgs = DOMAIN panel[p].store.msgs
      /\ \A u \in DOMAIN w.msgs : w.msgs[u] = panel[p].store.msgs[u]
  BY <1>2, TitledIs
<1>4. panel' = [panel EXCEPT ![p].titling = panel[p].titling \ {t}, ![p].store = w]
  BY DEF TitleArrives
<1>5. UNCHANGED <<run, asked>> /\ storage' = Trimmed(panel'[p].store)
  BY DEF TitleArrives
<1> HIDE DEF w
<1>6. Has(panel', p, w)
  <2>1. Has([panel EXCEPT ![p].titling = panel[p].titling \ {t}, ![p].store = w], p, w)
    BY <1>1, <1>2, <1>3, FieldsSet, Zenon
  <2> QED
    BY <1>4, <2>1, Zenon
<1>7. storage' = Trimmed(w)
  BY <1>5, <1>6 DEF Has
<1> QED
  BY <1>1, <1>3, <1>5, <1>6, <1>7 DEF Moves

LEMMA MessageIs ==
  ASSUME NEW q \in Questions, NEW text \in Texts
  PROVE  /\ User(q) \in Message /\ Assistant(q, text) \in Message
         /\ User(q).role = "user" /\ User(q).of = q
         /\ Assistant(q, text).role = "assistant" /\ Assistant(q, text).of = q
  BY DEF User, Assistant, Message, Texts

LEMMA MessagesOf ==
  ASSUME TypeInv, NEW p \in Tabs, panel[p] # Closed
  PROVE  /\ panel[p].store.active \in Chats /\ panel[p].store.active \in DOMAIN panel[p].store.msgs
         /\ Messages(p) \in Seq(Message)
<1>1. Good(panel[p].store)
  BY OpenFacts
<1> QED
  BY <1>1, GoodFacts DEF Messages

LEMMA AskedIs ==
  ASSUME TypeInv, NEW p \in Tabs, panel[p] # Closed, asked < MaxQuestions
  PROVE  /\ asked + 1 \in Questions /\ "blank" \in Texts
         /\ Asked(p).base \in Seq(Message) /\ Asked(p) \in Running
         /\ Append(Asked(p).base, Assistant(asked + 1, "blank")) \in Seq(Message)
<1>1. asked + 1 \in Questions /\ "blank" \in Texts
  BY LimitsAssumption DEF TypeInv, Questions, Texts
<1> DEFINE base == Append(Messages(p), User(asked + 1))
<1>2. User(asked + 1) \in Message /\ Assistant(asked + 1, "blank") \in Message
  BY <1>1, MessageIs
<1>3. Messages(p) \in Seq(Message) /\ panel[p].store.active \in Chats
  BY MessagesOf
<1>4. base \in Seq(Message)
  BY <1>2, <1>3
<1>5. Append(base, Assistant(asked + 1, "blank")) \in Seq(Message)
  BY <1>2, <1>4
<1>6. Asked(p).base = base
  BY DEF Asked
<1>7. Asked(p) \in Running
  <2>1. asked + 1 \in 0..MaxQuestions /\ 0 \in 0..MaxRounds
    BY <1>1, LimitsAssumption DEF Questions
  <2> HIDE DEF base
  <2>2. Asked(p) = [stage |-> "streaming", chat |-> panel[p].store.active, of |-> asked + 1,
                    base |-> base, said |-> "blank", round |-> 0]
    BY DEF Asked, base
  <2> QED
    BY <1>1, <1>3, <1>4, <2>1, <2>2 DEF Running, Run
<1> QED
  BY <1>1, <1>4, <1>5, <1>6, <1>7

LEMMA SendKind == ASSUME TypeInv, NEW p \in Tabs, Send(p) PROVE Asks(p)
<1>1. panel[p] # Closed /\ asked < MaxQuestions /\ asked' = asked + 1
  BY DEF Send, Open
<1> DEFINE base == Append(Messages(p), User(asked + 1))
           s == Updated(panel[p].store, panel[p].store.active, Append(base, Assistant(asked + 1, "blank")))
           r == [stage |-> "streaming", chat |-> panel[p].store.active, of |-> asked + 1,
                 base |-> base, said |-> "blank", round |-> 0]
<1>2. /\ run' = [run EXCEPT ![p] = r]
      /\ panel' = [panel EXCEPT ![p].store = s, ![p].pending = TRUE]
      /\ storage' = Trimmed(s)
  BY Zenon DEF Send
<1>3. Asked(p).base = base
  BY DEF Asked
<1>4. r = Asked(p)
  BY DEF Asked
<1> HIDE DEF base, r
<1>5. Good(s)
  BY <1>1, <1>3, AskedIs, MessagesOf, OpenFacts, UpdatedIs
<1>6. s = Updated(panel[p].store, panel[p].store.active, Append(Asked(p).base, Assistant(asked + 1, "blank")))
  BY <1>3
<1> HIDE DEF s
<1>7. Has(panel', p, s)
  <2>1. TRUE \in BOOLEAN /\ {} \in SUBSET Chats
    OBVIOUS
  <2>2. Has([panel EXCEPT ![p].store = s, ![p].pending = TRUE], p, s)
    BY <1>1, <1>5, <2>1, FieldsSet, Zenon
  <2> QED
    BY <1>2, <2>2, Zenon
<1>8. run' = [run EXCEPT ![p] = Asked(p)]
  BY <1>2, <1>4, Zenon
<1> QED
  BY <1>1, <1>2, <1>6, <1>7, <1>8, Zenon DEF Asks

(* What a run writes. *)
LEMMA AnswerIs ==
  ASSUME TypeInv, NEW p \in Tabs, run[p].stage # "none", NEW text \in Texts
  PROVE  /\ Append(run[p].base, Assistant(run[p].of, text)) \in Seq(Message)
         /\ Good(Updated(panel[p].store, run[p].chat, Append(run[p].base, Assistant(run[p].of, text))))
         /\ Good(Updated(panel[p].store, run[p].chat, run[p].base))
<1>1. Assistant(run[p].of, text) \in Message
  BY RunFacts, MessageIs
<1>2. run[p].base \in Seq(Message) /\ run[p].chat \in Chats /\ panel[p] # Closed
  BY RunFacts
<1>3. Append(run[p].base, Assistant(run[p].of, text)) \in Seq(Message)
  BY <1>1, <1>2
<1>4. Good(panel[p].store)
  BY <1>2, OpenFacts
<1> QED
  BY <1>2, <1>3, <1>4, UpdatedIs

LEMMA DeltaKind == ASSUME TypeInv, NEW p \in Tabs, Delta(p) PROVE Says(p)
<1>1. PICK text \in {"part", "whole"} : Answer(p, text) /\ run' = [run EXCEPT ![p].said = text]
  BY DEF Delta
<1>2. run[p].stage # "none" /\ UNCHANGED asked /\ text \in Texts
  BY <1>1 DEF Delta, Texts
<1> DEFINE m == Append(run[p].base, Assistant(run[p].of, text))
           s == Updated(panel[p].store, run[p].chat, m)
           r == [run[p] EXCEPT !.said = text]
<1>3. panel' = [panel EXCEPT ![p].store = s] /\ storage' = Trimmed(s)
  BY <1>1 DEF Answer, SetStore
<1>4. Has(panel', p, s)
  <2>1. Good(s) /\ panel[p] # Closed /\ TRUE \in BOOLEAN /\ {} \in SUBSET Chats
    BY <1>2, AnswerIs, RunFacts
  <2> HIDE DEF s
  <2>2. Has([panel EXCEPT ![p].store = s], p, s)
    BY <2>1, FieldsSet, Zenon
  <2> QED
    BY <1>3, <2>2, Zenon
<1>5. run[p] \in Running
  BY <1>2, RunFacts
<1>6. r \in Running /\ r.chat = run[p].chat /\ r.of = run[p].of /\ r.base = run[p].base
  BY <1>2, <1>5 DEF Running, Run
<1>7. run' = [run EXCEPT ![p] = r]
  BY <1>1 DEF TypeInv
<1> HIDE DEF r
<1>8. GoesOn(p)
  BY <1>6, <1>7, Zenon DEF GoesOn
<1> QED
  BY <1>2, <1>3, <1>4, <1>8, Zenon DEF Says

LEMMA ToolRoundKind == ASSUME TypeInv, NEW p \in Tabs, ToolRound(p) PROVE Waits(p)
<1> DEFINE r == [run[p] EXCEPT !.round = @ + 1]
<1>1. /\ run[p].stage # "none" /\ run[p].round < MaxRounds /\ UNCHANGED <<storage, panel, asked>>
      /\ run' = [run EXCEPT ![p].round = @ + 1]
  BY DEF ToolRound
<1>2. run[p] \in Running /\ panel[p] # Closed
  BY <1>1, RunFacts
<1>3. r \in Running /\ r.chat = run[p].chat /\ r.of = run[p].of /\ r.base = run[p].base
  <2>1. run[p].round + 1 \in 0..MaxRounds
    BY <1>1, <1>2, LimitsAssumption DEF Running, Run
  <2> QED
    BY <1>2, <2>1 DEF Running, Run
<1>4. run' = [run EXCEPT ![p] = r]
  BY <1>1 DEF TypeInv
<1> HIDE DEF r
<1>5. GoesOn(p)
  BY <1>3, <1>4, Zenon DEF GoesOn
<1>6. panel' = panel
  BY <1>1
<1>7. Has(panel, p, panel[p].store)
  BY <1>2 DEF Has, TypeInv
<1> QED
  BY <1>1, <1>5, <1>6, <1>7, Zenon DEF Waits

LEMMA FailsKind ==
  ASSUME TypeInv, NEW p \in Tabs, run[p].stage # "none", Fails(p), UNCHANGED asked PROVE Says(p)
<1> DEFINE s == Updated(panel[p].store, run[p].chat, run[p].base)
<1>1. panel' = [panel EXCEPT ![p].store = s, ![p].pending = FALSE]
  BY Zenon DEF Fails
<1>2. "part" \in Texts
  BY DEF Texts
<1>3. Good(s) /\ panel[p] # Closed /\ FALSE \in BOOLEAN /\ {} \in SUBSET Chats
  BY <1>2, AnswerIs, RunFacts
<1> HIDE DEF s
<1>4. Has([panel EXCEPT ![p].store = s, ![p].pending = FALSE], p, s)
  BY <1>3, FieldsSet, Zenon
<1>5. Has(panel', p, s)
  BY <1>1, <1>4, Zenon
<1>6. storage' = Trimmed(s) /\ run' = [run EXCEPT ![p] = NoRun]
  BY <1>5, Zenon DEF Fails, Has
<1>7. GoesOn(p)
  BY <1>6, Zenon DEF GoesOn
<1> QED
  BY <1>5, <1>6, <1>7, Zenon DEF Says, s

(* What the end of a run sets. *)
LEMMA FinishedIs ==
  ASSUME TypeInv, NEW p \in Tabs, run[p].stage # "none", NEW s, Good(s), Finished(p, s)
  PROVE  Has(panel', p, s) /\ GoesOn(p)
<1> DEFINE ts == IF Len(run[p].base) = 1 THEN panel[p].titling \cup {run[p].chat} ELSE panel[p].titling
<1>1. panel[p] # Closed /\ FALSE \in BOOLEAN
  BY RunFacts
<1>2. ts \in SUBSET Chats
  BY <1>1, RunFacts, OpenFacts
<1>3. panel' = [panel EXCEPT ![p].store = s, ![p].pending = FALSE, ![p].titling = ts]
  BY Zenon DEF Finished
<1> HIDE DEF ts
<1>4. Has([panel EXCEPT ![p].store = s, ![p].pending = FALSE, ![p].titling = ts], p, s)
  BY <1>1, <1>2, FieldsSet, Zenon
<1>5. Has(panel', p, s)
  BY <1>3, <1>4, Zenon
<1>6. GoesOn(p)
  BY Zenon DEF GoesOn, Finished
<1> QED
  BY <1>5, <1>6

LEMMA StreamEndsKind == ASSUME TypeInv, NEW p \in Tabs, StreamEnds(p) PROVE Waits(p)
<1>1. run[p].stage # "none" /\ UNCHANGED <<storage, asked>>
  BY DEF StreamEnds
<1>2. run[p] \in Running /\ panel[p] # Closed
  BY <1>1, RunFacts
<1>3. CASE run[p].said = "blank"
  <2> DEFINE r == [run[p] EXCEPT !.stage = "fallback"]
  <2>1. panel' = panel /\ run' = [run EXCEPT ![p].stage = "fallback"]
    BY <1>3 DEF StreamEnds
  <2>2. r \in Running /\ r.chat = run[p].chat /\ r.of = run[p].of /\ r.base = run[p].base
    BY <1>2 DEF Running, Run
  <2>3. run' = [run EXCEPT ![p] = r]
    BY <2>1 DEF TypeInv
  <2> HIDE DEF r
  <2>4. GoesOn(p)
    BY <2>2, <2>3, Zenon DEF GoesOn
  <2>5. Has(panel, p, panel[p].store)
    BY <1>2 DEF Has, TypeInv
  <2> QED
    BY <1>1, <2>1, <2>4, <2>5, Zenon DEF Waits
<1>4. CASE run[p].said # "blank"
  <2>1. Finished(p, panel[p].store)
    BY <1>4 DEF StreamEnds
  <2>2. Good(panel[p].store)
    BY <1>2, OpenFacts
  <2> QED
    BY <1>1, <2>1, <2>2, FinishedIs DEF Waits
<1> QED
  BY <1>3, <1>4

LEMMA FallbackKind == ASSUME TypeInv, NEW p \in Tabs, Fallback(p) PROVE Says(p)
<1> DEFINE m == Append(run[p].base, Assistant(run[p].of, "whole"))
           s == Updated(panel[p].store, run[p].chat, m)
<1>1. run[p].stage # "none" /\ UNCHANGED asked /\ "whole" \in Texts
  BY DEF Fallback, Texts
<1>2. CASE Finished(p, s) /\ storage' = Trimmed(panel'[p].store)
  <2>1. Good(s)
    BY <1>1, AnswerIs
  <2>2. Has(panel', p, s) /\ GoesOn(p)
    BY <1>1, <1>2, <2>1, FinishedIs
  <2>3. storage' = Trimmed(s)
    BY <1>2, <2>2 DEF Has
  <2> QED
    BY <1>1, <2>2, <2>3, Zenon DEF Says
<1>3. CASE Fails(p)
  BY <1>1, <1>3, FailsKind
<1> QED
  BY <1>2, <1>3 DEF Fallback

LEMMA Kinds ==
  ASSUME TypeInv, Next
  PROVE  \E p \in Tabs : Opens(p) \/ Closes(p) \/ Moves(p) \/ Asks(p) \/ Says(p) \/ Waits(p)
<1> PICK p \in Tabs :
      \/ OpenPanel(p) \/ Minimize(p) \/ NewChat(p) \/ Send(p) \/ Streams(p)
      \/ \E t \in Chats : SelectChat(p, t) \/ DeleteChat(p, t) \/ TitleArrives(p, t)
  BY DEF Next
<1>1. CASE OpenPanel(p)
  BY <1>1, OpenPanelKind
<1>2. CASE Minimize(p)
  BY <1>2 DEF Minimize, Closes
<1>3. CASE NewChat(p)
  BY <1>3, NewChatKind
<1>4. CASE Send(p)
  BY <1>4, SendKind
<1>5. CASE Delta(p)
  BY <1>5, DeltaKind
<1>6. CASE ToolRound(p)
  BY <1>6, ToolRoundKind
<1>7. CASE StreamFails(p)
  BY <1>7, FailsKind DEF StreamFails
<1>8. CASE StreamEnds(p)
  BY <1>8, StreamEndsKind
<1>9. CASE Fallback(p)
  BY <1>9, FallbackKind
<1>10. CASE \E t \in Chats : SelectChat(p, t) \/ DeleteChat(p, t) \/ TitleArrives(p, t)
  BY <1>10, SelectChatKind, DeleteChatKind, TitleArrivesKind
<1> QED
  BY <1>1, <1>2, <1>3, <1>4, <1>5, <1>6, <1>7, <1>8, <1>9, <1>10 DEF Streams

-----------------------------------------------------------------------------
(* The types. *)
LEMMA HasTypes ==
  ASSUME TypeInv, NEW p \in Tabs, NEW s, Good(s), Has(panel', p, s)
  PROVE  /\ panel' \in [Tabs -> {Closed} \cup OpenPanels] /\ panel'[p] # Closed
         /\ \A q \in Tabs : q # p => panel'[q] = panel[q]
         /\ Good(Trimmed(s)) /\ Len(Trimmed(s).order) <= MaxChats
  BY TrimmedIs DEF Has

LEMMA GoesOnTypes ==
  ASSUME TypeInv, NEW p \in Tabs, GoesOn(p)
  PROVE  run' \in [Tabs -> {NoRun} \cup Running] /\ \A q \in Tabs : q # p => run'[q] = run[q]
<1>1. PICK r \in {NoRun} \cup Running : run' = [run EXCEPT ![p] = r]
  BY DEF GoesOn
<1> QED
  BY <1>1 DEF TypeInv

LEMMA InitTypes == Init => TypeInv
<1> SUFFICES ASSUME Init PROVE TypeInv
  OBVIOUS
<1>1. 0 \in 0..MaxQuestions
  BY LimitsAssumption
<1> QED
  BY <1>1 DEF Init, TypeInv

LEMMA TypeStep == TypeInv /\ [Next]_vars => TypeInv'
<1> SUFFICES ASSUME TypeInv, [Next]_vars PROVE TypeInv'
  OBVIOUS
<1>1. CASE UNCHANGED vars
  BY <1>1 DEF TypeInv, vars
<1>2. ASSUME NEW p \in Tabs, Opens(p) PROVE TypeInv'
  <2>1. PICK s : Good(s) /\ Has(panel', p, s) /\ storage' = Trimmed(s)
    BY <1>2 DEF Opens
  <2>2. UNCHANGED <<run, asked>> /\ panel[p] = Closed
    BY <1>2 DEF Opens
  <2>3. \A q \in Tabs : run'[q] # NoRun => panel'[q] # Closed
    BY <2>1, <2>2, HasTypes DEF TypeInv
  <2> QED
    BY <2>1, <2>2, <2>3, HasTypes DEF TypeInv
<1>3. ASSUME NEW p \in Tabs, Closes(p) PROVE TypeInv'
  BY <1>3 DEF Closes, TypeInv
<1>4. ASSUME NEW p \in Tabs, Moves(p) PROVE TypeInv'
  <2>1. PICK s : Good(s) /\ Has(panel', p, s) /\ storage' = Trimmed(s)
    BY <1>4 DEF Moves
  <2>2. UNCHANGED <<run, asked>>
    BY <1>4 DEF Moves
  <2>3. \A q \in Tabs : run'[q] # NoRun => panel'[q] # Closed
    BY <2>1, <2>2, HasTypes DEF TypeInv
  <2> QED
    BY <2>1, <2>2, <2>3, HasTypes DEF TypeInv
<1>5. ASSUME NEW p \in Tabs, Asks(p) PROVE TypeInv'
  <2> DEFINE s == Updated(panel[p].store, panel[p].store.active,
                          Append(Asked(p).base, Assistant(asked + 1, "blank")))
  <2>1. /\ panel[p] # Closed /\ asked < MaxQuestions /\ asked' = asked + 1
        /\ Has(panel', p, s) /\ storage' = Trimmed(s)
        /\ run' = [run EXCEPT ![p] = Asked(p)]
    BY <1>5 DEF Asks
  <2>2. Good(s) /\ Asked(p) \in Running
    BY <2>1, AskedIs, MessagesOf, OpenFacts, UpdatedIs
  <2> HIDE DEF s
  <2>3. asked' \in 0..MaxQuestions
    BY <2>1, LimitsAssumption DEF TypeInv
  <2>4. run' \in [Tabs -> {NoRun} \cup Running] /\ \A q \in Tabs : q # p => run'[q] = run[q]
    BY <2>1, <2>2 DEF TypeInv
  <2>5. \A q \in Tabs : run'[q] # NoRun => panel'[q] # Closed
    BY <2>1, <2>2, <2>4, HasTypes DEF TypeInv
  <2> QED
    BY <2>1, <2>2, <2>3, <2>4, <2>5, HasTypes DEF TypeInv
<1>6. ASSUME NEW p \in Tabs, Says(p) PROVE TypeInv'
  <2>1. PICK m : /\ m = run[p].base \/ \E text \in Texts : m = Append(run[p].base, Assistant(run[p].of, text))
                 /\ Has(panel', p, Updated(panel[p].store, run[p].chat, m))
                 /\ storage' = Trimmed(Updated(panel[p].store, run[p].chat, m))
    BY <1>6 DEF Says
  <2> DEFINE s == Updated(panel[p].store, run[p].chat, m)
  <2>2. run[p].stage # "none" /\ GoesOn(p) /\ UNCHANGED asked
    BY <1>6 DEF Says
  <2>3. Good(s)
    <3>1. "part" \in Texts
      BY DEF Texts
    <3> QED
      BY <2>1, <2>2, <3>1, AnswerIs
  <2>4. Has(panel', p, s) /\ storage' = Trimmed(s)
    BY <2>1
  <2> HIDE DEF s
  <2>5. \A q \in Tabs : run'[q] # NoRun => panel'[q] # Closed
    BY <2>2, <2>3, <2>4, HasTypes, GoesOnTypes DEF TypeInv
  <2> QED
    BY <2>2, <2>3, <2>4, <2>5, HasTypes, GoesOnTypes DEF TypeInv
<1>7. ASSUME NEW p \in Tabs, Waits(p) PROVE TypeInv'
  <2>1. /\ run[p].stage # "none" /\ GoesOn(p) /\ UNCHANGED <<storage, asked>>
        /\ Has(panel', p, panel[p].store)
    BY <1>7 DEF Waits
  <2>2. \A q \in Tabs : run'[q] # NoRun => panel'[q] # Closed
    BY <2>1, GoesOnTypes DEF TypeInv, Has
  <2> QED
    BY <2>1, <2>2, GoesOnTypes DEF TypeInv, Has
<1> QED
  BY <1>1, <1>2, <1>3, <1>4, <1>5, <1>6, <1>7, Kinds

LEMMA TypesHold == Spec => []TypeInv
<1> QED
  BY InitTypes, TypeStep, PTL DEF Spec

(* Every tab's conversations are well-formed, in memory and in storage: the list
   and its order by time have the same conversations, the shown one among them. *)
THEOREM TypeCorrectness == Spec => []TypeOK
<1>1. TypeInv => TypeOK
  <2> SUFFICES ASSUME TypeInv PROVE TypeOK
    OBVIOUS
  <2>1. storage = NoStore \/ (IsStore(storage) /\ Len(storage.order) <= MaxChats)
    BY DEF TypeInv, Good
  <2>2. DOMAIN panel = Tabs /\ DOMAIN run = Tabs /\ asked \in 0..MaxQuestions
    BY DEF TypeInv
  <2>3. ASSUME NEW p \in Tabs
        PROVE  /\ Open(p) => IsStore(panel[p].store)
               /\ panel[p].pending \in BOOLEAN /\ panel[p].titling \subseteq Chats /\ run[p] \in Run
    <3>1. Open(p) => IsStore(panel[p].store)
      BY OpenFacts DEF Good, Open
    <3>2. panel[p].pending \in BOOLEAN /\ panel[p].titling \subseteq Chats
      <4>1. CASE panel[p] = Closed
        BY <4>1 DEF Closed
      <4>2. CASE panel[p] # Closed
        BY <4>2, OpenFacts
      <4> QED
        BY <4>1, <4>2
    <3>3. NoRun \in Run
      BY LimitsAssumption DEF NoRun, Run, Texts
    <3>4. run[p] \in Run
      BY <3>3 DEF TypeInv, Running
    <3> QED
      BY <3>1, <3>2, <3>4
  <2> QED
    BY <2>1, <2>2, <2>3 DEF TypeOK
<1> QED
  BY <1>1, TypesHold, PTL

-----------------------------------------------------------------------------
(* A question belongs to one conversation, its owner.  A conversation is fine if it
   owns what it is about, an answer stands behind its question, and no message is
   there twice. *)
Fine(m, t, owner) ==
  /\ \A i \in 1..Len(m) : m[i].of \in DOMAIN owner /\ owner[m[i].of] = t
  /\ \A i \in 2..Len(m) : m[i].role = "assistant" => m[i - 1] = User(m[i].of)
  /\ \A i, j \in 1..Len(m) : m[i].role = m[j].role /\ m[i].of = m[j].of => i = j

FineStore(s, owner) == \A t \in DOMAIN s.msgs : Fine(s.msgs[t], t, owner)

(* What a run writes behind: it ends with the question, which is new there. *)
FineBase(base, t, q, owner) ==
  /\ Fine(base, t, owner) /\ q \in DOMAIN owner /\ owner[q] = t
  /\ Len(base) > 0 /\ base[Len(base)] = User(q)
  /\ \A i \in 1..(Len(base) - 1) : base[i].of # q

FineRun(r, owner) == r.stage # "none" => FineBase(r.base, r.chat, r.of, owner)

Owns(owner) == /\ owner \in [1..asked -> Chats] /\ FineStore(storage, owner)
               /\ \A p \in Tabs : FineStore(panel[p].store, owner) /\ FineRun(run[p], owner)

OwnerInv == TypeInv /\ \E owner : Owns(owner)

LEMMA FineEmpty == ASSUME NEW t, NEW owner PROVE Fine(<<>>, t, owner)
  BY DEF Fine

LEMMA FineTrim ==
  ASSUME NEW m \in Seq(Message), NEW t, NEW owner, Fine(m, t, owner)
  PROVE  Fine(TrimMsgs(m), t, owner)
<1> DEFINE w == TrimMsgs(m)
<1>1. PICK d \in 0..Len(m) : Len(w) = Len(m) - d /\ \A i \in 1..Len(w) : w[i] = m[i + d]
  BY TrimmedEnd
<1>2. Len(m) \in Nat /\ d \in Nat /\ Len(w) \in Nat
  BY <1>1
<1> HIDE DEF w
<1>3. ASSUME NEW i \in 1..Len(w) PROVE i + d \in 1..Len(m) /\ w[i] = m[i + d]
  BY <1>1, <1>2
<1>4. \A i \in 1..Len(w) : w[i].of \in DOMAIN owner /\ owner[w[i].of] = t
  BY <1>3 DEF Fine
<1>5. ASSUME NEW i \in 2..Len(w), w[i].role = "assistant" PROVE w[i - 1] = User(w[i].of)
  <2>1. i \in 1..Len(w) /\ i - 1 \in 1..Len(w) /\ i + d \in 2..Len(m) /\ (i - 1) + d = (i + d) - 1
    BY <1>1, <1>2
  <2>2. w[i] = m[i + d] /\ w[i - 1] = m[(i + d) - 1]
    BY <1>3, <2>1
  <2> QED
    BY <1>5, <2>1, <2>2 DEF Fine
<1>6. ASSUME NEW i \in 1..Len(w), NEW j \in 1..Len(w), w[i].role = w[j].role, w[i].of = w[j].of PROVE i = j
  <2>1. /\ i + d \in 1..Len(m) /\ j + d \in 1..Len(m)
        /\ m[i + d].role = m[j + d].role /\ m[i + d].of = m[j + d].of
    BY <1>3, <1>6
  <2>2. \A k, l \in 1..Len(m) : m[k].role = m[l].role /\ m[k].of = m[l].of => k = l
    BY DEF Fine
  <2>3. i + d = j + d
    BY <2>1, <2>2
  <2> QED
    BY <1>2, <2>3
<1> QED
  BY <1>4, <1>5, <1>6 DEF Fine, w

LEMMA FineTrimmed ==
  ASSUME NEW s, Good(s), NEW owner, FineStore(s, owner)
  PROVE  FineStore(Trimmed(s), owner)
<1> SUFFICES ASSUME NEW t \in DOMAIN Trimmed(s).msgs PROVE Fine(Trimmed(s).msgs[t], t, owner)
  BY DEF FineStore
<1>1. t \in DOMAIN s.msgs /\ Trimmed(s).msgs[t] = TrimMsgs(s.msgs[t])
  BY TrimmedIs
<1>2. s.msgs[t] \in Seq(Message) /\ Fine(s.msgs[t], t, owner)
  BY <1>1, GoodFacts DEF FineStore
<1> QED
  BY <1>1, <1>2, FineTrim

(* An answer behind its question. *)
LEMMA FineAnswer ==
  ASSUME NEW base \in Seq(Message), NEW t, NEW q \in Questions, NEW owner, FineBase(base, t, q, owner),
         NEW text \in Texts
  PROVE  Fine(Append(base, Assistant(q, text)), t, owner)
<1> DEFINE a == Assistant(q, text)
           w == Append(base, a)
           n == Len(base)
<1>1. a \in Message /\ a.role = "assistant" /\ a.of = q /\ User(q).role = "user" /\ User(q).of = q
  BY MessageIs
<1> HIDE DEF a
<1>2. /\ n \in Nat /\ Len(w) = n + 1 /\ w[n + 1] = a /\ \A i \in 1..n : w[i] = base[i]
  BY <1>1
<1> HIDE DEF w, n
<1>3. /\ n > 0 /\ base[n] = User(q) /\ Fine(base, t, owner) /\ q \in DOMAIN owner /\ owner[q] = t
      /\ \A i \in 1..(n - 1) : base[i].of # q
  BY DEF FineBase, n
<1>4. \A i \in 1..n : ~(base[i].role = "assistant" /\ base[i].of = q)
  <2> SUFFICES ASSUME NEW i \in 1..n, base[i].role = "assistant", base[i].of = q PROVE FALSE
    OBVIOUS
  <2>1. i = n \/ i \in 1..(n - 1)
    BY <1>2
  <2> QED
    BY <1>1, <1>3, <2>1
<1>5. \A i \in 1..Len(w) : w[i].of \in DOMAIN owner /\ owner[w[i].of] = t
  <2> SUFFICES ASSUME NEW i \in 1..Len(w) PROVE w[i].of \in DOMAIN owner /\ owner[w[i].of] = t
    OBVIOUS
  <2>1. i = n + 1 \/ i \in 1..n
    BY <1>2
  <2> QED
    BY <1>1, <1>2, <1>3, <2>1 DEF Fine, n
<1>6. ASSUME NEW i \in 2..Len(w), w[i].role = "assistant" PROVE w[i - 1] = User(w[i].of)
  <2>1. i = n + 1 \/ (i \in 2..n /\ i - 1 \in 1..n /\ i \in 1..n)
    BY <1>2
  <2>2. n \in 1..n /\ (n + 1) - 1 = n
    BY <1>2, <1>3
  <2> QED
    BY <1>1, <1>2, <1>3, <1>6, <2>1, <2>2 DEF Fine, n
<1>7. ASSUME NEW i \in 1..Len(w), NEW j \in 1..Len(w), w[i].role = w[j].role, w[i].of = w[j].of PROVE i = j
  <2>1. (i = n + 1 \/ i \in 1..n) /\ (j = n + 1 \/ j \in 1..n)
    BY <1>2
  <2>2. CASE i \in 1..n /\ j \in 1..n
    BY <1>2, <1>3, <1>7, <2>2 DEF Fine, n
  <2>3. CASE ~(i \in 1..n /\ j \in 1..n)
    BY <1>1, <1>2, <1>4, <1>7, <2>1, <2>3
  <2> QED
    BY <2>2, <2>3
<1>8. Fine(w, t, owner)
  BY <1>5, <1>6, <1>7 DEF Fine
<1> QED
  BY <1>8 DEF w, a

(* A new question extends what is owned. *)
Extended(owner, q, t) == [k \in DOMAIN owner \cup {q} |-> IF k = q THEN t ELSE owner[k]]

LEMMA FineExtended ==
  ASSUME NEW m, NEW u, NEW owner, NEW q, q \notin DOMAIN owner, NEW t, Fine(m, u, owner)
  PROVE  Fine(m, u, Extended(owner, q, t))
  BY DEF Fine, Extended

LEMMA FineQuestion ==
  ASSUME NEW m \in Seq(Message), NEW t, NEW owner, Fine(m, t, owner),
         NEW q \in Questions, q \notin DOMAIN owner
  PROVE  FineBase(Append(m, User(q)), t, q, Extended(owner, q, t))
<1> DEFINE w == Append(m, User(q))
           o == Extended(owner, q, t)
           n == Len(m)
<1>1. "whole" \in Texts
  BY DEF Texts
<1>2. User(q) \in Message /\ User(q).role = "user" /\ User(q).of = q
  BY <1>1, MessageIs
<1>3. /\ n \in Nat /\ Len(w) = n + 1 /\ w[n + 1] = User(q) /\ \A i \in 1..n : w[i] = m[i]
  BY <1>2
<1>4. Fine(m, t, o) /\ q \in DOMAIN o /\ o[q] = t
  <2>1. Fine(m, t, o)
    BY FineExtended
  <2>2. q \in DOMAIN o /\ o[q] = t
    BY DEF Extended
  <2> QED
    BY <2>1, <2>2
<1>5. \A i \in 1..n : m[i].of # q
  BY DEF Fine
<1> HIDE DEF w, o, n
<1>6. \A i \in 1..Len(w) : i = n + 1 \/ i \in 1..n
  BY <1>3
<1>7. \A i \in 1..Len(w) : w[i].of \in DOMAIN o /\ o[w[i].of] = t
  BY <1>2, <1>3, <1>4, <1>6 DEF Fine, n
<1>8. ASSUME NEW i \in 2..Len(w), w[i].role = "assistant" PROVE w[i - 1] = User(w[i].of)
  <2>1. i = n + 1 \/ (i \in 2..n /\ i - 1 \in 1..n /\ i \in 1..n)
    BY <1>3
  <2> QED
    BY <1>2, <1>3, <1>4, <1>8, <2>1 DEF Fine, n
<1>9. ASSUME NEW i \in 1..Len(w), NEW j \in 1..Len(w), w[i].role = w[j].role, w[i].of = w[j].of PROVE i = j
  <2>1. CASE i \in 1..n /\ j \in 1..n
    BY <1>3, <1>4, <1>9, <2>1 DEF Fine, n
  <2>2. CASE ~(i \in 1..n /\ j \in 1..n)
    BY <1>2, <1>3, <1>5, <1>6, <1>9, <2>2
  <2> QED
    BY <2>1, <2>2
<1>10. Fine(w, t, o)
  BY <1>7, <1>8, <1>9 DEF Fine
<1>11. \A i \in 1..(Len(w) - 1) : w[i].of # q
  BY <1>3, <1>5
<1>12. Len(w) > 0 /\ w[Len(w)] = User(q)
  BY <1>3
<1> QED
  BY <1>4, <1>10, <1>11, <1>12 DEF FineBase, w, o

LEMMA HasFine ==
  ASSUME TypeInv, NEW p \in Tabs, NEW s, Good(s), Has(panel', p, s), NEW owner, FineStore(s, owner),
         \A q \in Tabs : FineStore(panel[q].store, owner)
  PROVE  FineStore(Trimmed(s), owner) /\ \A q \in Tabs : FineStore(panel'[q].store, owner)
<1>1. FineStore(Trimmed(s), owner)
  BY FineTrimmed
<1>2. panel'[p].store = s /\ \A q \in Tabs : q # p => panel'[q] = panel[q]
  BY DEF Has
<1> QED
  BY <1>1, <1>2

LEMMA GoesOnFine ==
  ASSUME TypeInv, NEW p \in Tabs, run[p].stage # "none", GoesOn(p), NEW owner,
         \A q \in Tabs : FineRun(run[q], owner)
  PROVE  \A q \in Tabs : FineRun(run'[q], owner)
<1>1. PICK r : /\ run' = [run EXCEPT ![p] = r]
               /\ r = NoRun \/ (r.chat = run[p].chat /\ r.of = run[p].of /\ r.base = run[p].base)
  BY DEF GoesOn
<1>2. FineRun(r, owner)
  <2>1. FineBase(run[p].base, run[p].chat, run[p].of, owner)
    BY DEF FineRun
  <2>2. CASE r = NoRun
    BY <2>2 DEF FineRun, NoRun
  <2>3. CASE r.chat = run[p].chat /\ r.of = run[p].of /\ r.base = run[p].base
    BY <2>1, <2>3 DEF FineRun
  <2> QED
    BY <1>1, <2>2, <2>3
<1>3. \A q \in Tabs : run'[q] = IF q = p THEN r ELSE run[q]
  BY <1>1 DEF TypeInv
<1> QED
  BY <1>2, <1>3

LEMMA EmptyOwned ==
  ASSUME NEW owner
  PROVE  FineStore(NoStore, owner) /\ FineStore(Closed.store, owner) /\ FineRun(NoRun, owner)
  BY DEF FineStore, NoStore, Closed, FineRun, NoRun

LEMMA InitOwner == Init => OwnerInv
<1> SUFFICES ASSUME Init PROVE OwnerInv
  OBVIOUS
<1> DEFINE owner == [q \in 1..asked |-> NoChat]
<1>1. owner \in [1..asked -> Chats]
  BY DEF Init
<1> HIDE DEF owner
<1>2. Owns(owner)
  BY <1>1, EmptyOwned DEF Owns, Init
<1> QED
  BY <1>2, InitTypes DEF OwnerInv

LEMMA OwnerStep == OwnerInv /\ [Next]_vars => OwnerInv'
<1> SUFFICES ASSUME OwnerInv, [Next]_vars PROVE OwnerInv'
  OBVIOUS
<1>1. TypeInv /\ TypeInv'
  BY TypeStep DEF OwnerInv
<1> PICK owner : Owns(owner)
  BY DEF OwnerInv
<1>2. /\ owner \in [1..asked -> Chats] /\ FineStore(storage, owner)
      /\ \A q \in Tabs : FineStore(panel[q].store, owner)
      /\ \A q \in Tabs : FineRun(run[q], owner)
  BY DEF Owns
<1> SUFFICES \E o : Owns(o)'
  BY <1>1 DEF OwnerInv
<1>3. CASE UNCHANGED vars
  <2>1. Owns(owner)'
    BY <1>3 DEF Owns, vars
  <2> QED
    BY <2>1
<1>4. ASSUME NEW p \in Tabs, Opens(p) PROVE Owns(owner)'
  <2>1. PICK s : /\ Good(s) /\ Has(panel', p, s) /\ storage' = Trimmed(s)
                 /\ (storage # NoStore /\ s = Trimmed(storage)) \/ (\E t \in Unused : s = Fresh(t))
    BY <1>4 DEF Opens
  <2>2. UNCHANGED <<run, asked>>
    BY <1>4 DEF Opens
  <2>3. FineStore(s, owner)
    <3>1. CASE storage # NoStore /\ s = Trimmed(storage)
      BY <1>1, <1>2, <3>1, FineTrimmed DEF TypeInv
    <3>2. CASE \E t \in Unused : s = Fresh(t)
      <4>1. PICK t \in Chats : s = Fresh(t)
        BY <3>2 DEF Unused
      <4> QED
        BY <4>1, FreshIs, FineEmpty DEF FineStore
    <3> QED
      BY <2>1, <3>1, <3>2
  <2> QED
    BY <1>1, <1>2, <2>1, <2>2, <2>3, HasFine DEF Owns
<1>5. ASSUME NEW p \in Tabs, Closes(p) PROVE Owns(owner)'
  <2>1. UNCHANGED <<storage, asked>>
    BY <1>5 DEF Closes
  <2>2. \A q \in Tabs : /\ panel'[q] = IF q = p THEN Closed ELSE panel[q]
                        /\ run'[q] = IF q = p THEN NoRun ELSE run[q]
    BY <1>1, <1>5 DEF Closes, TypeInv
  <2> QED
    BY <1>2, <2>1, <2>2, EmptyOwned DEF Owns
<1>6. ASSUME NEW p \in Tabs, Moves(p) PROVE Owns(owner)'
  <2>1. PICK s : /\ Good(s) /\ Has(panel', p, s) /\ storage' = Trimmed(s)
                 /\ \A u \in DOMAIN s.msgs :
                      s.msgs[u] = IF u \in DOMAIN panel[p].store.msgs THEN panel[p].store.msgs[u] ELSE <<>>
    BY <1>6 DEF Moves
  <2>2. UNCHANGED <<run, asked>>
    BY <1>6 DEF Moves
  <2>3. FineStore(s, owner)
    BY <1>2, <2>1, FineEmpty DEF FineStore
  <2> QED
    BY <1>1, <1>2, <2>1, <2>2, <2>3, HasFine DEF Owns
<1>7. ASSUME NEW p \in Tabs, Asks(p) PROVE \E o : Owns(o)'
  <2> DEFINE t == panel[p].store.active
             base == Asked(p).base
             m == Append(base, Assistant(asked + 1, "blank"))
             s == Updated(panel[p].store, t, m)
  <2>o. PICK o : o = Extended(owner, asked + 1, t)
    OBVIOUS
  <2>1. /\ panel[p] # Closed /\ asked < MaxQuestions /\ asked' = asked + 1
        /\ Has(panel', p, s) /\ storage' = Trimmed(s)
        /\ run' = [run EXCEPT ![p] = Asked(p)]
    BY <1>7 DEF Asks
  <2>2. /\ t \in Chats /\ t \in DOMAIN panel[p].store.msgs /\ Messages(p) \in Seq(Message)
        /\ asked + 1 \in Questions /\ "blank" \in Texts
        /\ base \in Seq(Message) /\ m \in Seq(Message) /\ Good(panel[p].store)
    BY <1>1, <2>1, AskedIs, MessagesOf, OpenFacts
  <2>3. base = Append(Messages(p), User(asked + 1)) /\ Asked(p).chat = t /\ Asked(p).of = asked + 1
    BY DEF Asked
  <2>4. asked \in Nat /\ asked + 1 \notin DOMAIN owner
    BY <1>1, <1>2 DEF TypeInv
  <2>5. Fine(Messages(p), t, owner)
    BY <1>2, <2>2 DEF FineStore, Messages
  <2>6. FineBase(base, t, asked + 1, o)
    BY <2>2, <2>3, <2>4, <2>5, <2>o, FineQuestion
  <2>7. Fine(m, t, o)
    BY <2>2, <2>6, FineAnswer
  <2>8. o \in [1..(asked + 1) -> Chats]
    <3>1. DOMAIN owner \cup {asked + 1} = 1..(asked + 1)
      BY <1>2, <2>4
    <3> QED
      BY <1>2, <2>2, <2>o, <3>1 DEF Extended
  <2>9. \A w : FineStore(w, owner) => FineStore(w, o)
    BY <2>4, <2>o, FineExtended DEF FineStore
  <2>10. /\ Good(s) /\ DOMAIN s.msgs = DOMAIN panel[p].store.msgs
         /\ \A u \in DOMAIN s.msgs : s.msgs[u] = IF u = t THEN m ELSE panel[p].store.msgs[u]
    <3> HIDE DEF m, t
    <3> QED
      BY <2>2, UpdatedIs
  <2> HIDE DEF s, m, base
  <2>11. FineStore(panel[p].store, o)
    BY <1>2, <2>9
  <2>12. FineStore(s, o)
    BY <2>7, <2>10, <2>11 DEF FineStore
  <2>13. \A q \in Tabs : FineStore(panel[q].store, o)
    BY <1>2, <2>9
  <2>14. FineStore(storage', o) /\ \A q \in Tabs : FineStore(panel'[q].store, o)
    BY <1>1, <2>1, <2>10, <2>12, <2>13, HasFine
  <2>15. ASSUME NEW q \in Tabs PROVE FineRun(run'[q], o)
    <3>1. CASE q = p
      <4>1. run'[q] = Asked(p)
        BY <1>1, <2>1, <3>1 DEF TypeInv
      <4> QED
        BY <2>3, <2>6, <4>1 DEF FineRun, base
    <3>2. CASE q # p
      <4>1. run'[q] = run[q]
        BY <1>1, <2>1, <3>2 DEF TypeInv
      <4>2. FineRun(run[q], owner)
        BY <1>2
      <4>3. FineRun(run[q], o)
        <5> SUFFICES ASSUME run[q].stage # "none" PROVE FineBase(run[q].base, run[q].chat, run[q].of, o)
          BY DEF FineRun
        <5>1. FineBase(run[q].base, run[q].chat, run[q].of, owner)
          BY <4>2 DEF FineRun
        <5>2. Fine(run[q].base, run[q].chat, o)
          BY <2>4, <2>o, <5>1, FineExtended DEF FineBase
        <5>3. run[q].of \in DOMAIN o /\ o[run[q].of] = run[q].chat
          BY <2>4, <2>o, <5>1 DEF FineBase, Extended
        <5> QED
          BY <5>1, <5>2, <5>3 DEF FineBase
      <4> QED
        BY <4>1, <4>3
    <3> QED
      BY <3>1, <3>2
  <2>16. o \in [1..asked' -> Chats]
    BY <2>1, <2>8
  <2>17. Owns(o)'
    BY <2>14, <2>15, <2>16 DEF Owns
  <2> QED
    BY <2>17
<1>8. ASSUME NEW p \in Tabs, Says(p) PROVE Owns(owner)'
  <2>1. PICK m : /\ m = run[p].base \/ \E text \in Texts : m = Append(run[p].base, Assistant(run[p].of, text))
                 /\ Has(panel', p, Updated(panel[p].store, run[p].chat, m))
                 /\ storage' = Trimmed(Updated(panel[p].store, run[p].chat, m))
    BY <1>8 DEF Says
  <2> DEFINE s == Updated(panel[p].store, run[p].chat, m)
             t == run[p].chat
  <2>2. run[p].stage # "none" /\ GoesOn(p) /\ UNCHANGED asked
    BY <1>8 DEF Says
  <2>3. /\ FineBase(run[p].base, t, run[p].of, owner)
        /\ t \in Chats /\ run[p].of \in Questions /\ run[p].base \in Seq(Message) /\ Good(panel[p].store)
    BY <1>1, <1>2, <2>2, RunFacts, OpenFacts DEF FineRun
  <2>4. Fine(m, t, owner) /\ m \in Seq(Message)
    <3>1. CASE m = run[p].base
      BY <2>3, <3>1 DEF FineBase
    <3>2. CASE m # run[p].base
      <4>1. PICK text \in Texts : m = Append(run[p].base, Assistant(run[p].of, text))
        BY <2>1, <3>2
      <4> QED
        BY <1>1, <2>2, <2>3, <4>1, FineAnswer, AnswerIs
    <3> QED
      BY <3>1, <3>2
  <2>5. /\ Good(s) /\ DOMAIN s.msgs = DOMAIN panel[p].store.msgs
        /\ \A u \in DOMAIN s.msgs : s.msgs[u] = IF u = t THEN m ELSE panel[p].store.msgs[u]
    BY <2>3, <2>4, UpdatedIs
  <2>6. Has(panel', p, s) /\ storage' = Trimmed(s)
    BY <2>1
  <2> HIDE DEF s, t
  <2>7. FineStore(s, owner)
    BY <1>2, <2>4, <2>5 DEF FineStore
  <2>8. FineStore(storage', owner) /\ \A q \in Tabs : FineStore(panel'[q].store, owner)
    BY <1>1, <1>2, <2>5, <2>6, <2>7, HasFine
  <2>9. \A q \in Tabs : FineRun(run'[q], owner)
    BY <1>1, <1>2, <2>2, GoesOnFine
  <2> QED
    BY <1>2, <2>2, <2>8, <2>9 DEF Owns
<1>9. ASSUME NEW p \in Tabs, Waits(p) PROVE Owns(owner)'
  <2>1. /\ run[p].stage # "none" /\ GoesOn(p) /\ UNCHANGED <<storage, asked>>
        /\ Has(panel', p, panel[p].store)
    BY <1>9 DEF Waits
  <2>2. \A q \in Tabs : FineStore(panel'[q].store, owner)
    BY <1>2, <2>1 DEF Has
  <2>3. \A q \in Tabs : FineRun(run'[q], owner)
    BY <1>1, <1>2, <2>1, GoesOnFine
  <2> QED
    BY <1>2, <2>1, <2>2, <2>3 DEF Owns
<1> QED
  BY <1>1, <1>3, <1>4, <1>5, <1>6, <1>7, <1>8, <1>9, Kinds

LEMMA OwnersHold == Spec => []OwnerInv
<1> QED
  BY InitOwner, OwnerStep, PTL DEF Spec

(* In whatever order the pieces of answers arrive while conversations are opened,
   changed and deleted in every tab, an answer stands behind its own question, and
   nothing is said twice. *)
THEOREM AnswersKeepTheirPlace == Spec => []AnswersFollowQuestions
<1>1. OwnerInv => AnswersFollowQuestions
  <2> SUFFICES ASSUME OwnerInv,
                      NEW s \in {storage} \cup {panel[p].store : p \in Tabs},
                      NEW t \in DOMAIN s.msgs
               PROVE  LET m == s.msgs[t] IN
                      /\ \A i \in 2..Len(m) : m[i].role = "assistant" => m[i - 1] = User(m[i].of)
                      /\ \A u \in DOMAIN s.msgs, i \in 1..Len(m) : \A j \in 1..Len(s.msgs[u]) :
                           m[i].role = s.msgs[u][j].role /\ m[i].of = s.msgs[u][j].of => t = u /\ i = j
    BY DEF AnswersFollowQuestions
  <2>1. PICK owner : Owns(owner)
    BY DEF OwnerInv
  <2>2. FineStore(s, owner)
    BY <2>1 DEF Owns
  <2>3. Fine(s.msgs[t], t, owner)
    BY <2>2 DEF FineStore
  <2>4. ASSUME NEW u \in DOMAIN s.msgs, NEW i \in 1..Len(s.msgs[t]), NEW j \in 1..Len(s.msgs[u]),
               s.msgs[t][i].role = s.msgs[u][j].role, s.msgs[t][i].of = s.msgs[u][j].of
        PROVE  t = u /\ i = j
    <3>1. Fine(s.msgs[u], u, owner)
      BY <2>2 DEF FineStore
    <3>2. t = u
      BY <2>3, <2>4, <3>1 DEF Fine
    <3> QED
      BY <2>3, <2>4, <3>2 DEF Fine
  <2> QED
    BY <2>3, <2>4 DEF Fine
<1> QED
  BY <1>1, OwnersHold, PTL

-----------------------------------------------------------------------------
(* While a run lasts, its conversation has what the run writes behind and the
   messages of its own question, and nothing else. *)
KeepsBase(r, s) ==
  r.stage # "none" /\ r.chat \in DOMAIN s.msgs =>
    \A i \in 1..Len(s.msgs[r.chat]) :
      s.msgs[r.chat][i].of = r.of \/ \E j \in 1..Len(r.base) : r.base[j] = s.msgs[r.chat][i]

KeepsInv == TypeInv /\ \A p \in Tabs : KeepsBase(run[p], panel[p].store)

(* What is written. *)
LEMMA Written ==
  ASSUME NEW base \in Seq(Message), NEW x \in Message
  PROVE  /\ Len(Append(base, x)) = Len(base) + 1 /\ Len(base) \in Nat
         /\ \A i \in 1..Len(base) : Append(base, x)[i] = base[i]
         /\ Append(base, x)[Len(base) + 1] = x
         /\ \A i \in 1..Len(Append(base, x)) : i \in 1..Len(base) \/ i = Len(base) + 1
<1> DEFINE w == Append(base, x)
<1>1. Len(w) = Len(base) + 1 /\ Len(base) \in Nat /\ w[Len(base) + 1] = x
  OBVIOUS
<1>2. \A i \in 1..Len(base) : w[i] = base[i]
  OBVIOUS
<1>3. \A i \in 1..Len(w) : i \in 1..Len(base) \/ i = Len(base) + 1
  BY <1>1
<1> QED
  BY <1>1, <1>2, <1>3

LEMMA KeepsStep == KeepsInv /\ [Next]_vars => KeepsInv'
<1> SUFFICES ASSUME KeepsInv, [Next]_vars PROVE KeepsInv'
  OBVIOUS
<1>1. TypeInv /\ TypeInv' /\ \A q \in Tabs : KeepsBase(run[q], panel[q].store)
  BY TypeStep DEF KeepsInv
<1> SUFFICES \A q \in Tabs : KeepsBase(run'[q], panel'[q].store)
  BY <1>1 DEF KeepsInv
<1>2. CASE UNCHANGED vars
  BY <1>1, <1>2 DEF vars
<1>3. ASSUME NEW p \in Tabs, Opens(p), NEW q \in Tabs PROVE KeepsBase(run'[q], panel'[q].store)
  <2>1. panel[p] = Closed /\ run' = run /\ \A k \in Tabs : k # p => panel'[k] = panel[k]
    BY <1>3 DEF Opens, Has
  <2>2. run[p] = NoRun
    BY <1>1, <2>1 DEF TypeInv
  <2>3. CASE q = p
    BY <2>1, <2>2, <2>3 DEF KeepsBase, NoRun
  <2>4. CASE q # p
    BY <1>1, <2>1, <2>4
  <2> QED
    BY <2>3, <2>4
<1>4. ASSUME NEW p \in Tabs, Closes(p), NEW q \in Tabs PROVE KeepsBase(run'[q], panel'[q].store)
  <2>1. CASE q = p
    <3>1. run'[q] = NoRun
      BY <1>1, <1>4, <2>1 DEF Closes, TypeInv
    <3> QED
      BY <3>1 DEF KeepsBase, NoRun
  <2>2. CASE q # p
    <3>1. run'[q] = run[q] /\ panel'[q] = panel[q]
      BY <1>1, <1>4, <2>2 DEF Closes, TypeInv
    <3> QED
      BY <1>1, <3>1
  <2> QED
    BY <2>1, <2>2
<1>5. ASSUME NEW p \in Tabs, Moves(p), NEW q \in Tabs PROVE KeepsBase(run'[q], panel'[q].store)
  <2>1. PICK s : /\ Has(panel', p, s)
                 /\ \A u \in DOMAIN s.msgs :
                      s.msgs[u] = IF u \in DOMAIN panel[p].store.msgs THEN panel[p].store.msgs[u] ELSE <<>>
    BY <1>5 DEF Moves
  <2>2. run' = run
    BY <1>5 DEF Moves
  <2>3. CASE q = p
    <3>1. panel'[q].store = s /\ KeepsBase(run[p], panel[p].store)
      BY <1>1, <2>1, <2>3 DEF Has
    <3>2. KeepsBase(run[p], s)
      <4> SUFFICES ASSUME run[p].stage # "none", run[p].chat \in DOMAIN s.msgs,
                          NEW i \in 1..Len(s.msgs[run[p].chat])
                   PROVE  \/ s.msgs[run[p].chat][i].of = run[p].of
                          \/ \E j \in 1..Len(run[p].base) : run[p].base[j] = s.msgs[run[p].chat][i]
        BY DEF KeepsBase
      <4>1. CASE run[p].chat \in DOMAIN panel[p].store.msgs
        BY <2>1, <3>1, <4>1 DEF KeepsBase
      <4>2. CASE run[p].chat \notin DOMAIN panel[p].store.msgs
        BY <2>1, <4>2
      <4> QED
        BY <4>1, <4>2
    <3> QED
      BY <2>2, <2>3, <3>1, <3>2
  <2>4. CASE q # p
    BY <1>1, <2>1, <2>2, <2>4 DEF Has
  <2> QED
    BY <2>3, <2>4
<1>6. ASSUME NEW p \in Tabs, Asks(p), NEW q \in Tabs PROVE KeepsBase(run'[q], panel'[q].store)
  <2> DEFINE t == panel[p].store.active
             base == Asked(p).base
             x == Assistant(asked + 1, "blank")
             s == Updated(panel[p].store, t, Append(base, x))
  <2>1. /\ panel[p] # Closed /\ asked < MaxQuestions
        /\ Has(panel', p, s) /\ run' = [run EXCEPT ![p] = Asked(p)]
    BY <1>6 DEF Asks
  <2>2. /\ base \in Seq(Message) /\ Append(base, x) \in Seq(Message) /\ t \in Chats /\ Good(panel[p].store)
        /\ x \in Message /\ x.of = asked + 1 /\ Asked(p).of = asked + 1 /\ Asked(p).chat = t
    BY <1>1, <2>1, AskedIs, MessagesOf, OpenFacts, MessageIs DEF Asked
  <2>3. CASE q = p
    <3>1. panel'[q].store = s /\ run'[q] = Asked(p)
      BY <1>1, <2>1, <2>3 DEF Has, TypeInv
    <3> HIDE DEF x, base, t
    <3>2. t \in DOMAIN s.msgs => s.msgs[t] = Append(base, x)
      <4> DEFINE m == Append(base, x)
      <4>1. m \in Seq(Message) /\ t \in Chats /\ Good(panel[p].store)
        BY <2>2
      <4> HIDE DEF m
      <4>2. LET w == Updated(panel[p].store, t, m) IN t \in DOMAIN w.msgs => w.msgs[t] = m
        BY <4>1, UpdatedIs
      <4> QED
        BY <4>2 DEF m
    <3> HIDE DEF s
    <3>3. ASSUME NEW i \in 1..Len(Append(base, x))
          PROVE  Append(base, x)[i].of = asked + 1 \/ \E j \in 1..Len(base) : base[j] = Append(base, x)[i]
      BY <2>2, Written
    <3>4. Asked(p).base = base
      BY DEF base
    <3>5. Asked(p).chat = t /\ Asked(p).of = asked + 1
      BY <2>2
    <3>6. KeepsBase(Asked(p), s)
      BY <3>2, <3>3, <3>4, <3>5 DEF KeepsBase
    <3> QED
      BY <3>1, <3>6
  <2>4. CASE q # p
    <3>1. run'[q] = run[q] /\ panel'[q] = panel[q]
      BY <1>1, <2>1, <2>4 DEF Has, TypeInv
    <3> QED
      BY <1>1, <3>1
  <2> QED
    BY <2>3, <2>4
<1>7. ASSUME NEW p \in Tabs, Says(p), NEW q \in Tabs PROVE KeepsBase(run'[q], panel'[q].store)
  <2>1. PICK m : /\ m = run[p].base \/ \E text \in Texts : m = Append(run[p].base, Assistant(run[p].of, text))
                 /\ Has(panel', p, Updated(panel[p].store, run[p].chat, m))
    BY <1>7 DEF Says
  <2>2. run[p].stage # "none" /\ GoesOn(p)
    BY <1>7 DEF Says
  <2>3. CASE q = p
    <3> DEFINE s == Updated(panel[p].store, run[p].chat, m)
    <3>1. PICK r : /\ run' = [run EXCEPT ![p] = r]
                   /\ r = NoRun \/ (r.chat = run[p].chat /\ r.of = run[p].of /\ r.base = run[p].base)
      BY <2>2 DEF GoesOn
    <3>2. run'[q] = r /\ panel'[q].store = s
      BY <1>1, <2>1, <2>3, <3>1 DEF Has, TypeInv
    <3>3. /\ run[p].chat \in Chats /\ run[p].of \in Questions /\ run[p].base \in Seq(Message)
          /\ Good(panel[p].store)
      BY <1>1, <2>2, RunFacts, OpenFacts
    <3>4. /\ m \in Seq(Message)
          /\ \A i \in 1..Len(m) : m[i].of = run[p].of \/ \E j \in 1..Len(run[p].base) : run[p].base[j] = m[i]
      <4>1. CASE m = run[p].base
        BY <3>3, <4>1
      <4>2. CASE m # run[p].base
        <5>1. PICK text \in Texts : m = Append(run[p].base, Assistant(run[p].of, text))
          BY <2>1, <4>2
        <5>2. Assistant(run[p].of, text) \in Message /\ Assistant(run[p].of, text).of = run[p].of
          BY <3>3, MessageIs
        <5>3. m \in Seq(Message)
          BY <3>3, <5>1, <5>2
        <5>4. ASSUME NEW i \in 1..Len(m)
              PROVE  m[i].of = run[p].of \/ \E j \in 1..Len(run[p].base) : run[p].base[j] = m[i]
          BY <3>3, <5>1, <5>2, Written
        <5> QED
          BY <5>3, <5>4
      <4> QED
        BY <4>1, <4>2
    <3>5. run[p].chat \in DOMAIN s.msgs => s.msgs[run[p].chat] = m
      BY <3>3, <3>4, UpdatedIs
    <3> HIDE DEF s
    <3>6. KeepsBase(r, s)
      BY <3>1, <3>4, <3>5 DEF KeepsBase, NoRun
    <3> QED
      BY <3>2, <3>6
  <2>4. CASE q # p
    <3>1. run'[q] = run[q] /\ panel'[q] = panel[q]
      BY <1>1, <2>1, <2>2, <2>4, GoesOnTypes DEF Has
    <3> QED
      BY <1>1, <3>1
  <2> QED
    BY <2>3, <2>4
<1>8. ASSUME NEW p \in Tabs, Waits(p), NEW q \in Tabs PROVE KeepsBase(run'[q], panel'[q].store)
  <2>1. run[p].stage # "none" /\ GoesOn(p) /\ Has(panel', p, panel[p].store)
    BY <1>8 DEF Waits
  <2>2. panel'[q].store = panel[q].store
    BY <2>1 DEF Has
  <2>3. PICK r : /\ run' = [run EXCEPT ![p] = r]
                 /\ r = NoRun \/ (r.chat = run[p].chat /\ r.of = run[p].of /\ r.base = run[p].base)
    BY <2>1 DEF GoesOn
  <2>4. run'[q] = IF q = p THEN r ELSE run[q]
    BY <1>1, <2>3 DEF TypeInv
  <2>5. KeepsBase(run[q], panel[q].store)
    BY <1>1
  <2>6. CASE q = p /\ r # NoRun
    <3>1. r.chat = run[q].chat /\ r.of = run[q].of /\ r.base = run[q].base /\ run[q].stage # "none"
      BY <2>1, <2>3, <2>6
    <3>2. KeepsBase(r, panel[q].store)
      BY <2>5, <3>1 DEF KeepsBase
    <3> QED
      BY <2>2, <2>4, <2>6, <3>2
  <2>7. CASE r = NoRun /\ q = p
    BY <2>4, <2>7 DEF KeepsBase, NoRun
  <2>8. CASE q # p
    BY <2>2, <2>4, <2>5, <2>8
  <2> QED
    BY <2>6, <2>7, <2>8
<1> QED
  BY <1>1, <1>2, <1>3, <1>4, <1>5, <1>6, <1>7, <1>8, Kinds

LEMMA KeepsHold == Spec => []KeepsInv
<1>1. Init => KeepsInv
  <2> SUFFICES ASSUME Init PROVE KeepsInv
    OBVIOUS
  <2>1. \A p \in Tabs : KeepsBase(run[p], panel[p].store)
    BY DEF Init, KeepsBase, NoRun
  <2> QED
    BY <2>1, InitTypes DEF KeepsInv
<1> QED
  BY <1>1, KeepsStep, PTL DEF Spec

LEMMA CompleteIs ==
  ASSUME NEW s, NEW a
  PROVE  a \in Complete(s) <=> /\ a \in (DOMAIN s.msgs) \X Questions
                               /\ \E i \in 1..Len(s.msgs[a[1]]) : s.msgs[a[1]][i] = Assistant(a[2], "whole")
  BY DEF Complete

(* A write loses a finished answer that the panel still has only by a limit. *)
LEMMA WriteLoses ==
  ASSUME TypeInv, NEW p \in Tabs, NEW s, Good(s), Has(panel', p, s), storage' = Trimmed(s),
         NEW a \in Complete(storage) \ Complete(storage'),
         a \in Complete(panel[p].store) /\ a[1] \in DOMAIN s.msgs
           => \E i \in 1..Len(s.msgs[a[1]]) : s.msgs[a[1]][i] = Assistant(a[2], "whole")
  PROVE  \E q \in Tabs : LET s0 == panel[q].store  s1 == panel'[q].store IN
           /\ panel'[q] # Closed /\ storage' = Trimmed(s1)
           /\ \A o \in Tabs \ {q} : panel'[o] = panel[o]
           /\ \/ a \notin Complete(s0) \/ a[1] \notin DOMAIN s1.msgs
              \/ \E i \in (MaxChats + 1)..Len(s1.recent) : s1.recent[i] = a[1]
              \/ \E i \in 1..(Len(s1.msgs[a[1]]) - MaxMessages) : s1.msgs[a[1]][i].of = a[2]
<1>1. /\ panel'[p] # Closed /\ panel'[p].store = s /\ storage' = Trimmed(panel'[p].store)
      /\ \A o \in Tabs \ {p} : panel'[o] = panel[o]
  BY DEF Has
<1>2. SUFFICES ASSUME a \in Complete(panel[p].store), a[1] \in DOMAIN s.msgs, a[1] \in DOMAIN storage'.msgs
               PROVE  \E i \in 1..(Len(s.msgs[a[1]]) - MaxMessages) : s.msgs[a[1]][i].of = a[2]
  <2>1. a[1] \in DOMAIN s.msgs /\ a[1] \notin DOMAIN storage'.msgs =>
          \E i \in (MaxChats + 1)..Len(s.recent) : s.recent[i] = a[1]
    BY TrimmedIs
  <2> QED
    BY <1>1, <2>1
<1> DEFINE m == s.msgs[a[1]]
           w == TrimMsgs(m)
<1>3. m \in Seq(Message) /\ storage'.msgs[a[1]] = w
  BY <1>2, GoodFacts, TrimmedIs
<1>4. PICK i \in 1..Len(m) : m[i] = Assistant(a[2], "whole")
  BY <1>2
<1>5. a \in (DOMAIN storage.msgs) \X Questions
  BY CompleteIs
<1>6. a[2] \in Questions /\ a \in (DOMAIN storage'.msgs) \X Questions
  BY <1>2, <1>5
<1> HIDE DEF m
<1>7. PICK d \in 0..Len(m) : /\ d = 0 \/ d = Len(m) - MaxMessages
                             /\ Len(w) = Len(m) - d /\ \A k \in 1..Len(w) : w[k] = m[k + d]
  BY <1>3, TrimmedEnd
<1>8. Len(m) \in Nat /\ Len(w) \in Nat /\ d \in Nat
  BY <1>3, <1>7
<1> HIDE DEF w
<1>9. i <= d
  <2> SUFFICES ASSUME i > d PROVE FALSE
    BY <1>8
  <2>1. i - d \in 1..Len(w) /\ (i - d) + d = i
    BY <1>7, <1>8
  <2>2. w[i - d] = Assistant(a[2], "whole")
    BY <1>4, <1>7, <2>1
  <2>3. a \in Complete(storage')
    BY <1>3, <1>6, <2>1, <2>2, CompleteIs
  <2> QED
    BY <2>3
<1>10. i \in 1..(Len(m) - MaxMessages)
  BY <1>7, <1>8, <1>9
<1>11. m[i].of = a[2]
  BY <1>4 DEF Assistant
<1> QED
  BY <1>10, <1>11 DEF m

LEMMA OldStep == KeepsInv /\ [Next]_vars => [OldAnswersGo]_vars
<1> SUFFICES ASSUME KeepsInv, Next, NEW a \in Complete(storage) \ Complete(storage'),
                    \A p \in Tabs : run[p].of # a[2]
             PROVE  \E p \in Tabs : LET s == panel[p].store  s1 == panel'[p].store IN
                      /\ panel'[p] # Closed /\ storage' = Trimmed(s1)
                      /\ \A q \in Tabs \ {p} : panel'[q] = panel[q]
                      /\ \/ a \notin Complete(s) \/ a[1] \notin DOMAIN s1.msgs
                         \/ \E i \in (MaxChats + 1)..Len(s1.recent) : s1.recent[i] = a[1]
                         \/ \E i \in 1..(Len(s1.msgs[a[1]]) - MaxMessages) : s1.msgs[a[1]][i].of = a[2]
  BY DEF OldAnswersGo
<1> DEFINE Goal == \E p \in Tabs : LET s == panel[p].store  s1 == panel'[p].store IN
                      /\ panel'[p] # Closed /\ storage' = Trimmed(s1)
                      /\ \A q \in Tabs \ {p} : panel'[q] = panel[q]
                      /\ \/ a \notin Complete(s) \/ a[1] \notin DOMAIN s1.msgs
                         \/ \E i \in (MaxChats + 1)..Len(s1.recent) : s1.recent[i] = a[1]
                         \/ \E i \in 1..(Len(s1.msgs[a[1]]) - MaxMessages) : s1.msgs[a[1]][i].of = a[2]
<1>1. TypeInv /\ \A p \in Tabs : KeepsBase(run[p], panel[p].store)
  BY DEF KeepsInv
<1>2. storage' # storage
  OBVIOUS
<1>3. ASSUME NEW s, a \in Complete(s)
      PROVE  /\ a[1] \in DOMAIN s.msgs /\ a[2] \in Questions
             /\ \E i \in 1..Len(s.msgs[a[1]]) : s.msgs[a[1]][i] = Assistant(a[2], "whole")
  BY <1>3, CompleteIs
<1>w. ASSUME NEW p \in Tabs, NEW s, Good(s), Has(panel', p, s), storage' = Trimmed(s),
             a \in Complete(panel[p].store) /\ a[1] \in DOMAIN s.msgs
               => \E i \in 1..Len(s.msgs[a[1]]) : s.msgs[a[1]][i] = Assistant(a[2], "whole")
      PROVE  Goal
  BY <1>1, <1>w, WriteLoses
<1> HIDE DEF Goal
<1>4. ASSUME NEW p \in Tabs, Opens(p) PROVE Goal
  <2>1. PICK s : Good(s) /\ Has(panel', p, s) /\ storage' = Trimmed(s)
    BY <1>4 DEF Opens
  <2>2. a \notin Complete(panel[p].store)
    BY <1>3, <1>4 DEF Opens, Closed, NoStore
  <2> QED
    BY <1>w, <2>1, <2>2
<1>5. ASSUME NEW p \in Tabs, Moves(p) PROVE Goal
  <2>1. PICK s : /\ Good(s) /\ Has(panel', p, s) /\ storage' = Trimmed(s)
                 /\ \A u \in DOMAIN s.msgs :
                      s.msgs[u] = IF u \in DOMAIN panel[p].store.msgs THEN panel[p].store.msgs[u] ELSE <<>>
    BY <1>5 DEF Moves
  <2>2. ASSUME a \in Complete(panel[p].store), a[1] \in DOMAIN s.msgs
        PROVE  \E i \in 1..Len(s.msgs[a[1]]) : s.msgs[a[1]][i] = Assistant(a[2], "whole")
    <3>1. s.msgs[a[1]] = panel[p].store.msgs[a[1]]
      BY <1>3, <2>1, <2>2
    <3> QED
      BY <1>3, <2>2, <3>1
  <2> QED
    BY <1>w, <2>1, <2>2
<1>6. ASSUME NEW p \in Tabs, Asks(p) PROVE Goal
  <2> DEFINE t == panel[p].store.active
             base == Asked(p).base
             x == Assistant(asked + 1, "blank")
             m == Append(base, x)
             s == Updated(panel[p].store, t, m)
  <2>1. /\ panel[p] # Closed /\ asked < MaxQuestions
        /\ Has(panel', p, s) /\ storage' = Trimmed(s)
    BY <1>6 DEF Asks
  <2>2. /\ base \in Seq(Message) /\ m \in Seq(Message) /\ t \in Chats /\ Good(panel[p].store)
        /\ x \in Message /\ Messages(p) \in Seq(Message) /\ asked + 1 \in Questions
    BY <1>1, <2>1, AskedIs, MessagesOf, OpenFacts, MessageIs
  <2>3. base = Append(Messages(p), User(asked + 1)) /\ Messages(p) = panel[p].store.msgs[t]
    BY DEF Asked, Messages
  <2>4. ASSUME NEW i \in 1..Len(Messages(p)) PROVE i \in 1..Len(m) /\ m[i] = Messages(p)[i]
    <3>1. "whole" \in Texts
      BY DEF Texts
    <3>2. User(asked + 1) \in Message
      BY <2>2, <3>1, MessageIs
    <3>3. i \in 1..Len(base) /\ base[i] = Messages(p)[i]
      BY <2>2, <2>3, <3>2, Written
    <3> HIDE DEF base, x
    <3> QED
      BY <2>2, <3>3, Written
  <2> HIDE DEF m, base, x, t
  <2>5. /\ Good(s) /\ DOMAIN s.msgs = DOMAIN panel[p].store.msgs
        /\ \A u \in DOMAIN s.msgs : s.msgs[u] = IF u = t THEN m ELSE panel[p].store.msgs[u]
    BY <2>2, UpdatedIs
  <2> HIDE DEF s
  <2>6. ASSUME a \in Complete(panel[p].store), a[1] \in DOMAIN s.msgs
        PROVE  \E i \in 1..Len(s.msgs[a[1]]) : s.msgs[a[1]][i] = Assistant(a[2], "whole")
    <3>1. PICK i \in 1..Len(panel[p].store.msgs[a[1]]) : panel[p].store.msgs[a[1]][i] = Assistant(a[2], "whole")
      BY <1>3, <2>6
    <3>2. CASE a[1] = t
      BY <2>3, <2>4, <2>5, <2>6, <3>1, <3>2
    <3>3. CASE a[1] # t
      BY <2>5, <2>6, <3>1, <3>3
    <3> QED
      BY <3>2, <3>3
  <2> QED
    BY <1>w, <2>1, <2>5, <2>6
<1>7. ASSUME NEW p \in Tabs, Says(p) PROVE Goal
  <2>1. PICK m : /\ m = run[p].base \/ \E text \in Texts : m = Append(run[p].base, Assistant(run[p].of, text))
                 /\ Has(panel', p, Updated(panel[p].store, run[p].chat, m))
                 /\ storage' = Trimmed(Updated(panel[p].store, run[p].chat, m))
    BY <1>7 DEF Says
  <2> DEFINE s == Updated(panel[p].store, run[p].chat, m)
  <2>2. run[p].stage # "none"
    BY <1>7 DEF Says
  <2>3. /\ run[p].chat \in Chats /\ run[p].of \in Questions /\ run[p].base \in Seq(Message)
        /\ Good(panel[p].store)
    BY <1>1, <2>2, RunFacts, OpenFacts
  <2>4. /\ m \in Seq(Message)
        /\ \A j \in 1..Len(run[p].base) : j \in 1..Len(m) /\ m[j] = run[p].base[j]
    <3>1. CASE m = run[p].base
      BY <2>3, <3>1
    <3>2. CASE m # run[p].base
      <4>1. PICK text \in Texts : m = Append(run[p].base, Assistant(run[p].of, text))
        BY <2>1, <3>2
      <4>2. Assistant(run[p].of, text) \in Message
        BY <2>3, MessageIs
      <4>3. m \in Seq(Message)
        BY <2>3, <4>1, <4>2
      <4> QED
        BY <2>3, <4>1, <4>2, <4>3, Written
    <3> QED
      BY <3>1, <3>2
  <2>5. /\ Good(s) /\ DOMAIN s.msgs = DOMAIN panel[p].store.msgs
        /\ \A u \in DOMAIN s.msgs : s.msgs[u] = IF u = run[p].chat THEN m ELSE panel[p].store.msgs[u]
    BY <2>3, <2>4, UpdatedIs
  <2>6. Has(panel', p, s) /\ storage' = Trimmed(s)
    BY <2>1
  <2> HIDE DEF s
  <2>7. ASSUME a \in Complete(panel[p].store), a[1] \in DOMAIN s.msgs
        PROVE  \E i \in 1..Len(s.msgs[a[1]]) : s.msgs[a[1]][i] = Assistant(a[2], "whole")
    <3>1. PICK i \in 1..Len(panel[p].store.msgs[a[1]]) : panel[p].store.msgs[a[1]][i] = Assistant(a[2], "whole")
      BY <1>3, <2>7
    <3>2. CASE a[1] = run[p].chat
      <4>1. Assistant(a[2], "whole").of # run[p].of
        BY DEF Assistant
      <4>2. PICK j \in 1..Len(run[p].base) : run[p].base[j] = Assistant(a[2], "whole")
        BY <1>1, <2>2, <2>5, <2>7, <3>1, <3>2, <4>1 DEF KeepsBase
      <4> QED
        BY <2>4, <2>5, <2>7, <3>2, <4>2
    <3>3. CASE a[1] # run[p].chat
      BY <2>5, <2>7, <3>1, <3>3
    <3> QED
      BY <3>2, <3>3
  <2> QED
    BY <1>w, <2>5, <2>6, <2>7
<1>8. ASSUME NEW p \in Tabs, Closes(p) \/ Waits(p) PROVE Goal
  BY <1>2, <1>8 DEF Closes, Waits
<1> QED
  BY <1>1, <1>4, <1>5, <1>6, <1>7, <1>8, Kinds DEF Goal

(* A finished answer whose run is over leaves storage only with a write that does
   not know it, a conversation that was deleted, or a limit: a piece that comes
   late never overwrites another answer. *)
THEOREM AnswersStay == Spec => OnlyOldAnswersGo
<1> QED
  BY KeepsHold, OldStep, PTL DEF Spec, OnlyOldAnswersGo
=============================================================================
