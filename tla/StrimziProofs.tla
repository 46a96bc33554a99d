---------------------------- MODULE StrimziProofs ----------------------------
(***************************************************************************)
(* The listener a resolution chooses and what is made of it, for any       *)
(* number of listeners and every order of changes in the cluster; and that *)
(* what is derived apart for the pod and for the operator fits.            *)
(***************************************************************************)
EXTENDS StrimziResolution, SetLemmas, SequenceTheorems

\* The listeners that take the credentials.
Matching(ls, d) == {i \in DOMAIN ls : ls[i].auth = d}

\* What Best chooses: preferable to every other candidate, or equal and first.
IsBest(ls, d, i) ==
  /\ i \in Matching(ls, d)
  /\ \A k \in Matching(ls, d) :
       \/ KeyLess(PreferenceKey(ls[i]), PreferenceKey(ls[k]))
       \/ PreferenceKey(ls[i]) = PreferenceKey(ls[k]) /\ i <= k

\* The keys are pairs of numbers, in lexical order.
LEMMA Keys ==
  ASSUME NEW l \in Listeners, NEW m \in Listeners
  PROVE  /\ KeyLess(PreferenceKey(l), PreferenceKey(m)) <=>
              \/ is_in_cluster(l) /\ ~ is_in_cluster(m)
              \/ (is_in_cluster(l) <=> is_in_cluster(m)) /\ l.tls /\ ~ m.tls
         /\ PreferenceKey(l) = PreferenceKey(m) <=>
              (is_in_cluster(l) <=> is_in_cluster(m)) /\ (l.tls <=> m.tls)
<1> DEFINE a == IF is_in_cluster(l) THEN 0 ELSE 1
           b == IF l.tls THEN 0 ELSE 1
           c == IF is_in_cluster(m) THEN 0 ELSE 1
           e == IF m.tls THEN 0 ELSE 1
<1>1. PreferenceKey(l) = <<a, b>> /\ PreferenceKey(m) = <<c, e>>
  BY DEF PreferenceKey
<1>2. KeyLess(<<a, b>>, <<c, e>>) <=> a < c \/ (a = c /\ b < e)
  BY DEF KeyLess
<1>3. <<a, b>> = <<c, e>> <=> a = c /\ b = e
  OBVIOUS
<1> QED
  BY <1>1, <1>2, <1>3

\* Of several listeners that take the credentials one is best: the first one of the
\* best of the four classes that are not empty.
LEMMA BestExists ==
  ASSUME NEW ls \in Seq(Listeners), NEW d, Matching(ls, d) # {}
  PROVE  \E i \in Matching(ls, d) : IsBest(ls, d, i)
<1> DEFINE M == Matching(ls, d)
           Of(in, enc) == {i \in M : (is_in_cluster(ls[i]) <=> in) /\ (ls[i].tls <=> enc)}
<1>1. M \subseteq Nat /\ \A i \in M : ls[i] \in Listeners
  <2>1. DOMAIN ls = 1..Len(ls) /\ Len(ls) \in Nat
    BY LenProperties
  <2> QED
    BY <2>1, ElementOfSeq DEF Matching
<1>2. \A in, enc \in BOOLEAN : Of(in, enc) # {} =>
        \E m \in Of(in, enc) : \A k \in Of(in, enc) : m <= k
  BY <1>1, LeastOfSet
<1>3. \A i, k \in M : KeyLess(PreferenceKey(ls[i]), PreferenceKey(ls[k])) <=>
        \/ is_in_cluster(ls[i]) /\ ~ is_in_cluster(ls[k])
        \/ (is_in_cluster(ls[i]) <=> is_in_cluster(ls[k])) /\ ls[i].tls /\ ~ ls[k].tls
  BY <1>1, Keys
<1>4. \A i, k \in M : PreferenceKey(ls[i]) = PreferenceKey(ls[k]) <=>
        (is_in_cluster(ls[i]) <=> is_in_cluster(ls[k])) /\ (ls[i].tls <=> ls[k].tls)
  BY <1>1, Keys
<1>5. CASE Of(TRUE, TRUE) # {}
  <2>1. PICK m \in Of(TRUE, TRUE) : \A k \in Of(TRUE, TRUE) : m <= k
    BY <1>2, <1>5
  <2> QED
    BY <1>3, <1>4, <2>1 DEF IsBest
<1>6. CASE Of(TRUE, TRUE) = {} /\ Of(TRUE, FALSE) # {}
  BY <1>2, <1>3, <1>4, <1>6 DEF IsBest
<1>7. CASE Of(TRUE, TRUE) = {} /\ Of(TRUE, FALSE) = {} /\ Of(FALSE, TRUE) # {}
  BY <1>2, <1>3, <1>4, <1>7 DEF IsBest
<1>8. CASE Of(TRUE, TRUE) = {} /\ Of(TRUE, FALSE) = {} /\ Of(FALSE, TRUE) = {}
  <2>1. Of(FALSE, FALSE) = M
    BY <1>8
  <2> QED
    BY <1>2, <1>3, <1>4, <1>8, <2>1 DEF IsBest
<1> QED
  BY <1>5, <1>6, <1>7, <1>8

\* There is only one best listener.
LEMMA BestIsUnique ==
  ASSUME NEW ls \in Seq(Listeners), NEW d, NEW i, NEW j, IsBest(ls, d, i), IsBest(ls, d, j)
  PROVE  i = j
<1>1. i \in Matching(ls, d) /\ j \in Matching(ls, d)
  BY DEF IsBest
<1>2. ls[i] \in Listeners /\ ls[j] \in Listeners /\ i \in Nat /\ j \in Nat
  BY <1>1, LenProperties, ElementOfSeq DEF Matching
<1>3. KeyLess(PreferenceKey(ls[i]), PreferenceKey(ls[j])) =>
        ~ KeyLess(PreferenceKey(ls[j]), PreferenceKey(ls[i]))
        /\ PreferenceKey(ls[j]) # PreferenceKey(ls[i])
  BY <1>2, Keys
<1>4. KeyLess(PreferenceKey(ls[j]), PreferenceKey(ls[i])) =>
        PreferenceKey(ls[j]) # PreferenceKey(ls[i])
  BY <1>2, Keys
<1> QED
  BY <1>1, <1>2, <1>3, <1>4 DEF IsBest

\* select_listener returns the best listener, or the error when none matches.
LEMMA Selected ==
  ASSUME NEW ls \in Seq(Listeners), NEW d
  PROVE  /\ Matching(ls, d) = {} =>
              select_listener(ls, d, NoOverride) = [error |-> NoCompatibleListener]
         /\ Matching(ls, d) # {} =>
              \E i \in Matching(ls, d) :
                /\ IsBest(ls, d, i)
                /\ select_listener(ls, d, NoOverride) = [ok |-> ls[i]]
<1>1. Matching(ls, d) = {i \in DOMAIN ls : auth_matches(ls[i], d)}
  BY DEF Matching, auth_matches
<1>2. select_listener(ls, d, NoOverride) =
        IF Matching(ls, d) = {} THEN [error |-> NoCompatibleListener]
        ELSE [ok |-> ls[Best(ls, Matching(ls, d))]]
  BY <1>1 DEF select_listener
<1>3. Matching(ls, d) # {} => IsBest(ls, d, Best(ls, Matching(ls, d)))
  BY BestExists DEF IsBest, Best
<1> QED
  BY <1>2, <1>3 DEF IsBest

\* resolve_connection connects to the best listener, or fails when none matches.
LEMMA Connects ==
  ASSUME NEW ls \in Seq(Listeners), NEW d
  PROVE  /\ Matching(ls, d) = {} =>
              /\ ~ Connected(resolve_connection(ls, d, NoOverride))
              /\ resolve_connection(ls, d, NoOverride).error
                   \in {InvalidConfig, NoCompatibleListener}
         /\ Matching(ls, d) # {} =>
              \E i \in Matching(ls, d) :
                /\ IsBest(ls, d, i)
                /\ select_listener(ls, d, NoOverride) = [ok |-> ls[i]]
                /\ resolve_connection(ls, d, NoOverride) =
                     [listener_name |-> ls[i].name, tls_enabled |-> ls[i].tls,
                      bootstrap_servers |-> bootstrap_for_listener(ls[i])]
                /\ Connected(resolve_connection(ls, d, NoOverride))
<1>1. CASE Matching(ls, d) = {}
  <2>1. select_listener(ls, d, NoOverride) = [error |-> NoCompatibleListener]
    BY <1>1, Selected
  <2>2. resolve_connection(ls, d, NoOverride)
          \in {[error |-> InvalidConfig], [error |-> NoCompatibleListener]}
    BY <2>1 DEF resolve_connection, IsError
  <2> QED
    BY <1>1, <2>2 DEF Connected
<1>2. CASE Matching(ls, d) # {}
  <2>1. PICK i \in Matching(ls, d) :
          IsBest(ls, d, i) /\ select_listener(ls, d, NoOverride) = [ok |-> ls[i]]
    BY <1>2, Selected
  <2>2. ls # <<>>
    BY <1>2 DEF Matching
  <2>3. ~ IsError([ok |-> ls[i]]) /\ [ok |-> ls[i]].ok = ls[i]
    BY DEF IsError
  <2>4. resolve_connection(ls, d, NoOverride) =
          [listener_name |-> ls[i].name, tls_enabled |-> ls[i].tls,
           bootstrap_servers |-> bootstrap_for_listener(ls[i])]
    BY <2>1, <2>2, <2>3 DEF resolve_connection
  <2>5. Connected(resolve_connection(ls, d, NoOverride))
    BY <2>4 DEF Connected
  <2> QED
    BY <1>2, <2>1, <2>4, <2>5
<1> QED
  BY <1>1, <1>2

-----------------------------------------------------------------------------
(***************************************************************************)
(* The listeners of the cluster.                                           *)
(***************************************************************************)
\* What is left of a sequence before a position and from a position on.
LEMMA Parts ==
  ASSUME NEW S, NEW s \in Seq(S), NEW r \in 1..(Len(s) + 1)
  PROVE  /\ SubSeq(s, 1, r - 1) \in Seq(S) /\ Len(SubSeq(s, 1, r - 1)) = r - 1
         /\ \A i \in 1..(r - 1) : SubSeq(s, 1, r - 1)[i] = s[i]
         /\ SubSeq(s, r, Len(s)) \in Seq(S) /\ Len(SubSeq(s, r, Len(s))) = Len(s) - r + 1
         /\ \A i \in 1..(Len(s) - r + 1) : SubSeq(s, r, Len(s))[i] = s[r + i - 1]
<1> DEFINE a == SubSeq(s, 1, r - 1)
           b == SubSeq(s, r, Len(s))
<1>1. Len(s) \in Nat /\ \A i \in 1..Len(s) : s[i] \in S
  BY LenProperties, ElementOfSeq
<1>2. a \in Seq(S) /\ Len(a) = r - 1 /\ \A i \in 1..(r - 1) : a[i] = s[i]
  <2>1. 1 \in Int /\ r - 1 \in Int /\ \A i \in 1..(r - 1) : s[i] \in S
    BY <1>1
  <2>2. /\ a \in Seq(S)
        /\ Len(a) = IF 1 <= r - 1 THEN (r - 1) - 1 + 1 ELSE 0
        /\ \A i \in 1..((r - 1) - 1 + 1) : a[i] = s[1 + i - 1]
    BY <2>1, SubSeqProperties
  <2> QED
    BY <1>1, <2>2
<1>3. /\ b \in Seq(S) /\ Len(b) = Len(s) - r + 1
      /\ \A i \in 1..(Len(s) - r + 1) : b[i] = s[r + i - 1]
  <2>1. r \in Int /\ Len(s) \in Int /\ \A i \in r..Len(s) : s[i] \in S
    BY <1>1
  <2>2. /\ b \in Seq(S)
        /\ Len(b) = IF r <= Len(s) THEN Len(s) - r + 1 ELSE 0
        /\ \A i \in 1..(Len(s) - r + 1) : b[i] = s[r + i - 1]
    BY <2>1, SubSeqProperties
  <2> HIDE DEF b
  <2> QED
    BY <1>1, <2>2
<1> QED
  BY <1>2, <1>3

\* Taking one listener away moves those behind it up by one.
LEMMA Removed ==
  ASSUME NEW S, NEW s \in Seq(S), NEW r \in DOMAIN s
  PROVE  /\ RemoveAt(s, r) \in Seq(S)
         /\ Len(RemoveAt(s, r)) = Len(s) - 1
         /\ \A k \in 1..(Len(s) - 1) :
              RemoveAt(s, r)[k] = IF k < r THEN s[k] ELSE s[k + 1]
<1> DEFINE a == SubSeq(s, 1, r - 1)
           b == SubSeq(s, r + 1, Len(s))
<1>1. /\ Len(s) \in Nat /\ r \in 1..Len(s)
      /\ r \in 1..(Len(s) + 1) /\ r + 1 \in 1..(Len(s) + 1)
  BY LenProperties
<1>2. a \in Seq(S) /\ Len(a) = r - 1 /\ \A i \in 1..(r - 1) : a[i] = s[i]
  BY <1>1, Parts
<1>3. b \in Seq(S) /\ Len(b) = Len(s) - r /\ \A i \in 1..(Len(s) - r) : b[i] = s[r + i]
  <2>1. /\ b \in Seq(S) /\ Len(b) = Len(s) - (r + 1) + 1
        /\ \A i \in 1..(Len(s) - (r + 1) + 1) : b[i] = s[(r + 1) + i - 1]
    BY <1>1, Parts
  <2> HIDE DEF b
  <2>2. Len(b) = Len(s) - r
    BY <1>1, <2>1
  <2>3. ASSUME NEW i \in 1..(Len(s) - r) PROVE b[i] = s[r + i]
    <3>1. r \in Int /\ i \in Int /\ Len(s) \in Int /\ 1 <= i /\ i <= Len(s) - r
      BY <1>1
    <3>2. i \in 1..(Len(s) - (r + 1) + 1) /\ (r + 1) + i - 1 = r + i
      BY <3>1
    <3> QED
      BY <2>1, <3>2
  <2> QED
    BY <2>1, <2>2, <2>3
<1>4. RemoveAt(s, r) = a \o b
  BY DEF RemoveAt
<1> HIDE DEF a, b
<1>5. /\ a \o b \in Seq(S) /\ Len(a \o b) = Len(a) + Len(b)
      /\ \A i \in 1..(Len(a) + Len(b)) :
           (a \o b)[i] = IF i <= Len(a) THEN a[i] ELSE b[i - Len(a)]
  BY <1>2, <1>3, ConcatProperties
<1>6. Len(a) + Len(b) = Len(s) - 1
  BY <1>1, <1>2, <1>3
<1>7. ASSUME NEW k \in 1..(Len(s) - 1)
      PROVE  (a \o b)[k] = IF k < r THEN s[k] ELSE s[k + 1]
  <2>1. (a \o b)[k] = IF k <= r - 1 THEN a[k] ELSE b[k - (r - 1)]
    BY <1>2, <1>5, <1>6
  <2>2. CASE k < r
    <3>1. k <= r - 1 /\ k \in 1..(r - 1)
      BY <1>1, <2>2
    <3> QED
      BY <1>2, <2>1, <2>2, <3>1
  <2>3. CASE ~ (k < r)
    <3>1. ~ (k <= r - 1) /\ k - (r - 1) \in 1..(Len(s) - r) /\ r + (k - (r - 1)) = k + 1
      BY <1>1, <2>3
    <3> QED
      BY <1>3, <2>1, <2>3, <3>1
  <2> QED
    BY <2>2, <2>3
<1> QED
  BY <1>4, <1>5, <1>6, <1>7

\* A new listener moves those from its position on back by one.
LEMMA Inserted ==
  ASSUME NEW S, NEW s \in Seq(S), NEW r \in 1..(Len(s) + 1), NEW e \in S
  PROVE  /\ InsertAt(s, r, e) \in Seq(S)
         /\ Len(InsertAt(s, r, e)) = Len(s) + 1
         /\ \A k \in 1..(Len(s) + 1) :
              InsertAt(s, r, e)[k] = IF k < r THEN s[k] ELSE IF k = r THEN e ELSE s[k - 1]
<1> DEFINE a == SubSeq(s, 1, r - 1)
           b == SubSeq(s, r, Len(s))
           c == a \o <<e>>
<1>1. Len(s) \in Nat
  BY LenProperties
<1>2. /\ a \in Seq(S) /\ Len(a) = r - 1 /\ \A i \in 1..(r - 1) : a[i] = s[i]
      /\ b \in Seq(S) /\ Len(b) = Len(s) - r + 1
      /\ \A i \in 1..(Len(s) - r + 1) : b[i] = s[r + i - 1]
  BY Parts
<1>3. InsertAt(s, r, e) = c \o b
  BY DEF InsertAt
<1> HIDE DEF a, b
<1>4. <<e>> \in Seq(S) /\ Len(<<e>>) = 1 /\ <<e>>[1] = e
  OBVIOUS
<1>5. /\ c \in Seq(S) /\ Len(c) = r
      /\ \A i \in 1..r : c[i] = IF i < r THEN s[i] ELSE e
  <2>1. /\ c \in Seq(S) /\ Len(c) = Len(a) + Len(<<e>>)
        /\ \A i \in 1..(Len(a) + Len(<<e>>)) :
             c[i] = IF i <= Len(a) THEN a[i] ELSE <<e>>[i - Len(a)]
    BY <1>2, <1>4, ConcatProperties
  <2>2. Len(a) + Len(<<e>>) = r
    BY <1>2, <1>4
  <2> HIDE DEF c
  <2>3. ASSUME NEW i \in 1..r PROVE c[i] = IF i < r THEN s[i] ELSE e
    <3>1. c[i] = IF i <= r - 1 THEN a[i] ELSE <<e>>[i - (r - 1)]
      BY <1>2, <2>1, <2>2
    <3>2. CASE i < r
      <4>1. i <= r - 1 /\ i \in 1..(r - 1)
        BY <3>2
      <4> QED
        BY <1>2, <3>1, <3>2, <4>1
    <3>3. CASE ~ (i < r)
      <4>1. ~ (i <= r - 1) /\ i - (r - 1) = 1
        BY <3>3
      <4> QED
        BY <1>4, <3>1, <3>3, <4>1
    <3> QED
      BY <3>2, <3>3
  <2> QED
    BY <2>1, <2>2, <2>3
<1> HIDE DEF c
<1>6. /\ c \o b \in Seq(S) /\ Len(c \o b) = Len(c) + Len(b)
      /\ \A i \in 1..(Len(c) + Len(b)) :
           (c \o b)[i] = IF i <= Len(c) THEN c[i] ELSE b[i - Len(c)]
  BY <1>2, <1>5, ConcatProperties
<1>7. Len(c) + Len(b) = Len(s) + 1
  BY <1>1, <1>2, <1>5
<1>8. ASSUME NEW k \in 1..(Len(s) + 1)
      PROVE  (c \o b)[k] = IF k < r THEN s[k] ELSE IF k = r THEN e ELSE s[k - 1]
  <2>1. (c \o b)[k] = IF k <= r THEN c[k] ELSE b[k - r]
    BY <1>5, <1>6, <1>7
  <2>2. CASE k <= r
    <3>1. k \in 1..r
      BY <2>2
    <3> QED
      BY <1>5, <2>1, <2>2, <3>1
  <2>3. CASE ~ (k <= r)
    <3>1. k - r \in 1..(Len(s) - r + 1) /\ r + (k - r) - 1 = k - 1 /\ ~ (k < r) /\ k # r
      BY <1>1, <2>3
    <3> QED
      BY <1>2, <2>1, <2>3, <3>1
  <2> QED
    BY <2>2, <2>3
<1> QED
  BY <1>3, <1>6, <1>7, <1>8

\* The names of a list are distinct.
Distinct(ls) == \A i, j \in DOMAIN ls : ls[i].name = ls[j].name => i = j

\* Strimzi's listeners have distinct names, whatever is edited.
LEMMA ListenerStep ==
  ASSUME ListenerInv, [Next]_vars
  PROVE  ListenerInv'
<1>0. /\ listeners \in Seq(Listeners) /\ DOMAIN listeners = 1..Len(listeners)
      /\ Len(listeners) \in Nat /\ \A i \in 1..Len(listeners) : listeners[i] \in Listeners
  BY LenProperties, ElementOfSeq DEF ListenerInv
<1>1. CASE ListenerAdded
  <2>1. PICK l \in Listeners, r \in 1..(Len(listeners) + 1) :
          Free(l.name) /\ listeners' = InsertAt(listeners, r, l)
    BY <1>1 DEF ListenerAdded
  <2>2. /\ listeners' \in Seq(Listeners) /\ Len(listeners') = Len(listeners) + 1
        /\ \A k \in 1..(Len(listeners) + 1) :
             listeners'[k] = IF k < r THEN listeners[k]
                             ELSE IF k = r THEN l ELSE listeners[k - 1]
    <3> DEFINE lt == InsertAt(listeners, r, l)
    <3>1. /\ lt \in Seq(Listeners) /\ Len(lt) = Len(listeners) + 1
          /\ \A k \in 1..(Len(listeners) + 1) :
               lt[k] = IF k < r THEN listeners[k] ELSE IF k = r THEN l ELSE listeners[k - 1]
      BY <1>0, Inserted
    <3>2. listeners' = lt
      BY <2>1
    <3> HIDE DEF lt
    <3> QED
      BY <3>1, <3>2
  <2>3. DOMAIN listeners' = 1..(Len(listeners) + 1)
    BY <2>2, LenProperties
  <2> DEFINE From(k) == IF k < r THEN k ELSE k - 1
  <2>4. \A k \in DOMAIN listeners' : k # r =>
          From(k) \in DOMAIN listeners /\ listeners'[k] = listeners[From(k)]
    BY <1>0, <2>2, <2>3
  <2>5. \A i, k \in DOMAIN listeners' : i # r /\ k # r /\ From(i) = From(k) => i = k
    BY <1>0, <2>3
  <2>6. \A k \in DOMAIN listeners' : k = r => listeners'[k] = l
    BY <1>0, <2>2, <2>3
  <2> HIDE DEF From
  <2>7. \A k \in DOMAIN listeners' : k # r => listeners'[k].name # l.name
    BY <2>1, <2>4 DEF Free
  <2>8. ASSUME NEW i \in DOMAIN listeners', NEW k \in DOMAIN listeners',
               listeners'[i].name = listeners'[k].name
        PROVE  i = k
    <3>1. i = r <=> k = r
      BY <2>6, <2>7, <2>8
    <3>2. CASE i # r /\ k # r
      BY <2>4, <2>5, <2>8, <3>2 DEF ListenerInv
    <3> QED
      BY <3>1, <3>2
  <2> QED
    BY <2>2, <2>8 DEF ListenerInv
<1>2. CASE ListenerRemoved
  <2>1. PICK r \in DOMAIN listeners : listeners' = RemoveAt(listeners, r)
    BY <1>2 DEF ListenerRemoved
  <2>2. /\ listeners' \in Seq(Listeners) /\ Len(listeners') = Len(listeners) - 1
        /\ \A k \in 1..(Len(listeners) - 1) :
             listeners'[k] = IF k < r THEN listeners[k] ELSE listeners[k + 1]
    BY <1>0, <2>1, Removed
  <2>3. DOMAIN listeners' = 1..(Len(listeners) - 1)
    BY <2>2, LenProperties
  <2> DEFINE From(k) == IF k < r THEN k ELSE k + 1
  <2>4. \A k \in DOMAIN listeners' :
          From(k) \in DOMAIN listeners /\ listeners'[k] = listeners[From(k)]
    BY <1>0, <2>2, <2>3
  <2>5. \A i, k \in DOMAIN listeners' : From(i) = From(k) => i = k
    BY <1>0, <2>3
  <2> HIDE DEF From
  <2> QED
    BY <2>2, <2>4, <2>5 DEF ListenerInv
<1>3. CASE ListenerChanged
  <2>1. PICK r \in DOMAIN listeners, l \in Listeners :
          l.name = listeners[r].name /\ listeners' = [listeners EXCEPT ![r] = l]
    BY <1>3 DEF ListenerChanged
  <2>2. /\ DOMAIN listeners' = 1..Len(listeners) /\ listeners' \in Seq(Listeners)
    BY <1>0, <2>1, ExceptSeq
  <2>3. \A k \in DOMAIN listeners : listeners'[k].name = listeners[k].name
    BY <1>0, <2>1
  <2> QED
    BY <1>0, <2>2, <2>3 DEF ListenerInv
<1>4. CASE ListenersReordered
  <2>1. PICK p, q \in DOMAIN listeners :
          listeners' = [listeners EXCEPT ![p] = listeners[q], ![q] = listeners[p]]
    BY <1>4 DEF ListenersReordered
  <2> DEFINE once == [listeners EXCEPT ![p] = listeners[q]]
             From(k) == IF k = q THEN p ELSE IF k = p THEN q ELSE k
  <2>2. once \in Seq(Listeners) /\ Len(once) = Len(listeners)
    BY <1>0, ExceptSeq
  <2>3. listeners' = [once EXCEPT ![q] = listeners[p]]
    BY <2>1
  <2>4. q \in 1..Len(once) /\ listeners[p] \in Listeners
    BY <1>0, <2>2
  <2>5. listeners' \in Seq(Listeners)
    <3> HIDE DEF once
    <3> QED
      BY <2>2, <2>3, <2>4, ExceptSeq
  <2>6. DOMAIN listeners' = DOMAIN listeners
        /\ \A k \in DOMAIN listeners : listeners'[k] = listeners[From(k)]
    BY <2>1
  <2>7. /\ \A k \in DOMAIN listeners : From(k) \in DOMAIN listeners
        /\ \A i, k \in DOMAIN listeners : From(i) = From(k) => i = k
    OBVIOUS
  <2> HIDE DEF From
  <2> QED
    BY <2>5, <2>6, <2>7 DEF ListenerInv
<1>5. CASE listeners' = listeners
  BY <1>5 DEF ListenerInv
<1> QED
  BY <1>1, <1>2, <1>3, <1>4, <1>5 DEF Next, StatusUpdated, vars

\* What is preferable has the smaller key.
LEMMA PreferableIsLess ==
  ASSUME NEW l \in Listeners, NEW m \in Listeners
  PROVE  /\ Preferable(l, m) <=> KeyLess(PreferenceKey(l), PreferenceKey(m))
         /\ PreferenceKey(l) = PreferenceKey(m) => ~ Preferable(l, m)
         /\ Preferable(l, m) => ~ Preferable(m, l)
<1>1. l.tls \in BOOLEAN /\ m.tls \in BOOLEAN
      /\ is_in_cluster(l) \in BOOLEAN /\ is_in_cluster(m) \in BOOLEAN
  BY DEF Listeners, is_in_cluster
<1> QED
  BY <1>1, Keys DEF Preferable

\* A name leads to its position.
LEMMA PositionIs ==
  ASSUME NEW ls, Distinct(ls), NEW i \in DOMAIN ls
  PROVE  Position(ls, ls[i].name) = i
  BY DEF Position, Distinct

\* What the choice promises follows from the distinct names.
LEMMA BestIsCompatible == ListenerInv => BestCompatibleListener
<1> SUFFICES ASSUME ListenerInv, NEW d \in DesiredAuths
             PROVE  LET c == Resolved(d)
                        compatible == {i \in DOMAIN listeners : listeners[i].auth = d}
                    IN /\ Connected(c) <=> compatible # {}
                       /\ Connected(c) =>
                            LET best == listeners[Position(listeners, c.listener_name)]
                                published == \E e \in addresses : e.name = best.name
                            IN /\ best.auth = d /\ best.tls = c.tls_enabled
                               /\ \A i \in compatible : ~ Preferable(listeners[i], best)
                               /\ c.bootstrap_servers.name =
                                    IF published THEN best.name ELSE Conventional
                               /\ addresses = CurrentStatus \/ ~ published =>
                                    c.bootstrap_servers.port = best.port
  BY DEF BestCompatibleListener
<1> DEFINE c == Resolved(d)
           compatible == {i \in DOMAIN listeners : listeners[i].auth = d}
<1>1. /\ listeners \in Seq(Listeners) /\ compatible = Matching(listeners, d)
      /\ Distinct(listeners)
  BY DEF ListenerInv, Matching, Distinct
<1>2. CASE compatible = {}
  BY <1>1, <1>2, Connects DEF Resolved
<1>3. CASE compatible # {}
  <2>1. PICK i \in compatible :
          /\ IsBest(listeners, d, i) /\ Connected(c)
          /\ c = [listener_name |-> listeners[i].name, tls_enabled |-> listeners[i].tls,
                  bootstrap_servers |-> bootstrap_for_listener(listeners[i])]
    BY <1>1, <1>3, Connects DEF Resolved
  <2>2. Position(listeners, listeners[i].name) = i
    BY <1>1, <2>1, PositionIs
  <2> DEFINE best == listeners[i]
             published == \E e \in addresses : e.name = best.name
             address == bootstrap_for_listener(best)
  <2>3. \A k \in compatible : ~ Preferable(listeners[k], best)
    <3> SUFFICES ASSUME NEW k \in compatible PROVE ~ Preferable(listeners[k], best)
      OBVIOUS
    <3>1. listeners[i] \in Listeners /\ listeners[k] \in Listeners
      BY <1>1, ElementOfSeq, LenProperties
    <3>2. \/ KeyLess(PreferenceKey(listeners[i]), PreferenceKey(listeners[k]))
          \/ PreferenceKey(listeners[i]) = PreferenceKey(listeners[k])
      BY <1>1, <2>1 DEF IsBest
    <3> QED
      BY <3>1, <3>2, PreferableIsLess
  <2>4. CASE published
    <3>1. address \in addresses /\ address.name = best.name
      BY <2>4 DEF bootstrap_for_listener
    <3>2. ASSUME addresses = CurrentStatus PROVE address.port = best.port
      <4>1. PICK k \in DOMAIN listeners :
              address = Entry(listeners[k].name, listeners[k].port)
        BY <3>1, <3>2 DEF CurrentStatus
      <4>2. k = i
        BY <1>1, <2>1, <3>1, <4>1 DEF Entry, Distinct
      <4> QED
        BY <4>1, <4>2 DEF Entry
    <3> QED
      BY <2>1, <2>2, <2>3, <2>4, <3>1, <3>2
  <2>5. CASE ~ published
    <3>1. address = Entry(Conventional, best.port)
      BY <2>5 DEF bootstrap_for_listener
    <3>2. address.name = Conventional /\ address.port = best.port
      BY <3>1 DEF Entry
    <3> QED
      BY <2>1, <2>2, <2>3, <2>5, <3>2
  <2> QED
    BY <2>4, <2>5
<1> QED
  BY <1>2, <1>3

\* What of two lists with different best listeners x and y follows for these two alone:
\* y has precedence over x in the second list, and unlike in the first.
LEMMA BestMoves ==
  ASSUME NEW ls \in Seq(Listeners), NEW lt \in Seq(Listeners), NEW d, NEW i, NEW j,
         Distinct(ls), Distinct(lt), IsBest(ls, d, i), IsBest(lt, d, j),
         ls[i].name # lt[j].name
  PROVE  \/ ~ Keeps(lt, ls[i])
         \/ ~ Keeps(ls, lt[j]) /\ Preferable(lt[j], ls[i])
         \/ /\ ~ Keeps(ls, lt[j]) \/ Ahead(ls, ls[i], lt[j])
            /\ ~ Preferable(ls[i], lt[j]) /\ Ahead(lt, lt[j], ls[i])
<1> DEFINE x == ls[i]
           y == lt[j]
<1>1. i \in Matching(ls, d) /\ j \in Matching(lt, d)
  BY DEF IsBest
<1>2. /\ DOMAIN ls \subseteq Nat /\ DOMAIN lt \subseteq Nat
      /\ \A k \in DOMAIN ls : ls[k] \in Listeners
      /\ \A k \in DOMAIN lt : lt[k] \in Listeners
  BY LenProperties, ElementOfSeq
<1>3. i \in DOMAIN ls /\ j \in DOMAIN lt /\ x \in Listeners /\ y \in Listeners
      /\ x.auth = d /\ y.auth = d
  BY <1>1, <1>2 DEF Matching
<1> SUFFICES ASSUME Keeps(lt, x)
             PROVE  \/ ~ Keeps(ls, y) /\ Preferable(y, x)
                    \/ /\ ~ Keeps(ls, y) \/ Ahead(ls, x, y)
                       /\ ~ Preferable(x, y) /\ Ahead(lt, y, x)
  OBVIOUS
<1>4. ASSUME NEW l \in Listeners, NEW m \in Listeners, l.tls = m.tls,
             is_in_cluster(l) = is_in_cluster(m)
      PROVE  PreferenceKey(l) = PreferenceKey(m)
  BY <1>4 DEF PreferenceKey
<1>5. PICK p \in DOMAIN lt : lt[p].name = x.name /\ lt[p].auth = x.auth
        /\ lt[p].tls = x.tls /\ is_in_cluster(lt[p]) = is_in_cluster(x)
  BY DEF Keeps
<1>6. /\ p \in Matching(lt, d) /\ PreferenceKey(lt[p]) = PreferenceKey(x) /\ p # j
  BY <1>2, <1>3, <1>4, <1>5 DEF Matching
<1>7. Position(lt, x.name) = p /\ Position(lt, y.name) = j
  BY <1>3, <1>5, PositionIs
<1>8. \/ KeyLess(PreferenceKey(y), PreferenceKey(x))
      \/ PreferenceKey(y) = PreferenceKey(x) /\ j <= p
  BY <1>6 DEF IsBest
<1>9. \/ Preferable(y, x)
      \/ PreferenceKey(y) = PreferenceKey(x) /\ ~ Preferable(x, y) /\ Ahead(lt, y, x)
  <2>1. CASE KeyLess(PreferenceKey(y), PreferenceKey(x))
    BY <1>3, <2>1, PreferableIsLess
  <2>2. CASE PreferenceKey(y) = PreferenceKey(x) /\ j <= p
    <3>1. j < p
      BY <1>2, <1>3, <1>6, <2>2
    <3> QED
      BY <1>3, <1>7, <2>2, <3>1, PreferableIsLess DEF Ahead
  <2> QED
    BY <1>8, <2>1, <2>2
<1>10. CASE ~ Keeps(ls, y)
  BY <1>9, <1>10
<1>11. CASE Keeps(ls, y)
  <2>1. PICK q \in DOMAIN ls : ls[q].name = y.name /\ ls[q].auth = y.auth
          /\ ls[q].tls = y.tls /\ is_in_cluster(ls[q]) = is_in_cluster(y)
    BY <1>11 DEF Keeps
  <2>2. q \in Matching(ls, d) /\ PreferenceKey(ls[q]) = PreferenceKey(y) /\ q # i
    BY <1>2, <1>3, <1>4, <2>1 DEF Matching
  <2>3. Position(ls, y.name) = q /\ Position(ls, x.name) = i
    BY <1>3, <2>1, PositionIs
  <2>4. \/ KeyLess(PreferenceKey(x), PreferenceKey(y))
        \/ PreferenceKey(x) = PreferenceKey(y) /\ i <= q
    BY <2>2 DEF IsBest
  <2>5. ~ Preferable(y, x)
    BY <1>3, <2>4, PreferableIsLess
  <2>6. ~ Preferable(x, y)
    BY <1>3, <1>9, <2>5
  <2>7. i < q
    BY <1>2, <1>3, <2>2, <2>4, <2>6, PreferableIsLess
  <2> QED
    BY <1>9, <2>3, <2>5, <2>7 DEF Ahead
<1> QED
  BY <1>10, <1>11

\* What a change of the listeners does to a selection.
LEMMA StableStep ==
  ASSUME ListenerInv, ListenerInv', NEW d \in DesiredAuths
  PROVE  LET before == Resolved(d)
             after == resolve_connection(listeners', d, NoOverride)
             x == listeners[Position(listeners, before.listener_name)]
             y == listeners'[Position(listeners', after.listener_name)]
         IN (Connected(before) /\ Connected(after) /\ x.name # y.name) =>
              \/ ~ Keeps(listeners', x)
              \/ ~ Keeps(listeners, y) /\ Preferable(y, x)
              \/ /\ ~ Keeps(listeners, y) \/ Ahead(listeners, x, y)
                 /\ ~ Preferable(x, y) /\ Ahead(listeners', y, x)
<1> DEFINE before == Resolved(d)
           after == resolve_connection(listeners', d, NoOverride)
           x == listeners[Position(listeners, before.listener_name)]
           y == listeners'[Position(listeners', after.listener_name)]
<1> SUFFICES ASSUME Connected(before), Connected(after), x.name # y.name
             PROVE  \/ ~ Keeps(listeners', x)
                    \/ ~ Keeps(listeners, y) /\ Preferable(y, x)
                    \/ /\ ~ Keeps(listeners, y) \/ Ahead(listeners, x, y)
                       /\ ~ Preferable(x, y) /\ Ahead(listeners', y, x)
  OBVIOUS
<1>1. /\ listeners \in Seq(Listeners) /\ listeners' \in Seq(Listeners)
      /\ Distinct(listeners) /\ Distinct(listeners')
  BY DEF ListenerInv, Distinct
<1>2. PICK i \in Matching(listeners, d) :
        IsBest(listeners, d, i) /\ before.listener_name = listeners[i].name
  BY <1>1, Connects DEF Resolved
<1>3. PICK j \in Matching(listeners', d) :
        IsBest(listeners', d, j) /\ after.listener_name = listeners'[j].name
  BY <1>1, Connects
<1>4. i \in DOMAIN listeners /\ j \in DOMAIN listeners'
  BY DEF Matching
<1>5. x = listeners[i] /\ y = listeners'[j]
  BY <1>1, <1>2, <1>3, <1>4, PositionIs
<1> HIDE DEF x, y, before, after
<1> QED
  BY <1>1, <1>2, <1>3, <1>5, BestMoves

-----------------------------------------------------------------------------
(***************************************************************************)
(* The resolution.                                                         *)
(***************************************************************************)
\* A step of the resolution or of the cluster changes the listeners as Next allows.
LEMMA ListenersMove ==
  ASSUME [ResolutionNext]_allVars
  PROVE  [Next]_vars
  BY DEF ResolutionNext, StartResolve, GetKafka, ResolveAuth, ResolveKafkaUserSecret,
         BuildPod, ListenersChange, StrimziUpgraded, KafkaChanges, KafkaUserChanges,
         strimzi, allVars, vars

\* The first state has no listeners.
LEMMA ListenerInit == ResolutionInit => ListenerInv
  BY EmptySeq DEF ResolutionInit, Init, ListenerInv

\* For any number of listeners and every edit of them: a connection is found exactly when
\* some listener takes the credentials, none that does is preferable to the chosen one,
\* and the address is the one published under its name or the conventional one.
THEOREM BestListenerIsChosen == ResolutionSpec => []BestCompatibleListener
<1>1. ListenerInv /\ [ResolutionNext]_allVars => ListenerInv'
  BY ListenersMove, ListenerStep
<1>2. ListenerInv => BestCompatibleListener
  BY BestIsCompatible
<1> QED
  BY <1>1, <1>2, ListenerInit, PTL DEF ResolutionSpec

\* For any number of listeners, and additions anywhere, removals, changes and reorderings:
\* a selection moves only off a listener that is gone or changed, or to one that has come
\* to have precedence over it; nothing done to third listeners moves it.
THEOREM SelectionStays == ResolutionSpec => SelectionIsStable
<1> DEFINE Stable ==
      \A d \in DesiredAuths :
        LET before == Resolved(d)
            after == resolve_connection(listeners', d, NoOverride)
            x == listeners[Position(listeners, before.listener_name)]
            y == listeners'[Position(listeners', after.listener_name)]
        IN (Connected(before) /\ Connected(after) /\ x.name # y.name) =>
             \/ ~ Keeps(listeners', x)
             \/ ~ Keeps(listeners, y) /\ Preferable(y, x)
             \/ /\ ~ Keeps(listeners, y) \/ Ahead(listeners, x, y)
                /\ ~ Preferable(x, y) /\ Ahead(listeners', y, x)
<1>1. ListenerInv /\ [ResolutionNext]_allVars => ListenerInv'
  BY ListenersMove, ListenerStep
<1>2. ListenerInv /\ ListenerInv' => Stable
  BY StableStep
<1>3. SelectionIsStable <=> [][Stable]_vars
  BY DEF SelectionIsStable
<1> HIDE DEF Stable
<1> QED
  BY <1>1, <1>2, <1>3, ListenerInit, PTL DEF ResolutionSpec

\* A resolution that failed has no pod.
LEMMA NoPod ==
  ASSUME NEW r
  PROVE  "protocol" \notin DOMAIN [error |-> r] /\ "protocol" \notin DOMAIN Nothing
         /\ [error |-> r] # Nothing
  BY DEF Nothing

\* What a failed step of the resolution leaves behind.
LEMMA FailKeeps ==
  ASSUME NEW r, Fail(r), UNCHANGED spec, PodInv
  PROVE  PodInv'
<1>1. ~ HasPod' /\ pc' = "idle"
  BY NoPod DEF Fail, HasPod
<1> QED
  BY <1>1 DEF PodInv, ListenerFitsSpec, CredentialsFitSpec, AfterCluster

\* A step that leaves the resolution alone.
LEMMA PodFrame ==
  ASSUME UNCHANGED resolution, PodInv
  PROVE  PodInv'
  BY DEF resolution, PodInv, ListenerFitsSpec, CredentialsFitSpec, HasPod

\* The types of the authentication.
LEMMA AuthTypes == \A a \in AuthSpecs : a.type \in DesiredAuths
  BY DEF AuthSpecs, DesiredAuths

\* A certificate that is given names the keys Strimzi uses, or others.
LEMMA AuthKeys ==
  ASSUME NEW a \in AuthSpecs, a.certificate # "absent", "custom" \notin CertificateKeys
  PROVE  a.certificate = "user.crt"
<1>1. a.certificate \in CertificateKeys
  BY DEF AuthSpecs
<1> QED
  BY <1>1, ResolutionConstants

\* PodInv is kept by every step.
LEMMA PodStep ==
  ASSUME ListenerInv, PodInv, [ResolutionNext]_allVars
  PROVE  PodInv'
<1>0. ~ HasPod \/ pc = "idle"
  BY DEF PodInv
<1>1. CASE StartResolve
  <2>1. ~ HasPod'
    BY <1>1, NoPod DEF StartResolve, HasPod
  <2> QED
    BY <1>1, <2>1 DEF StartResolve, PodInv, ListenerFitsSpec, CredentialsFitSpec,
       AfterCluster
<1>2. CASE GetKafka
  <2>1. UNCHANGED spec /\ pc \in {"kafka_v1", "kafka_v1beta2"}
    BY <1>2 DEF GetKafka
  <2>2. CASE ClusterFound
    <3> DEFINE c == resolve_connection(listeners, spec.type, NoOverride)
    <3>1. CASE Connected(c)
      <4>1. PICK i \in Matching(listeners, spec.type) :
              /\ select_listener(listeners, spec.type, NoOverride) = [ok |-> listeners[i]]
              /\ c.tls_enabled = listeners[i].tls
        BY <3>1, Connects DEF ListenerInv
      <4>2. chosen' = listeners[i] /\ connection'.tls_enabled = listeners[i].tls
            /\ pc' = "auth" /\ UNCHANGED result
        BY <2>2, <3>1, <4>1 DEF ClusterFound
      <4>3. listeners[i] \in Listeners /\ listeners[i].auth = spec.type
        BY <4>1, ElementOfSeq, LenProperties DEF ListenerInv, Matching
      <4>4. ~ HasPod'
        BY <1>0, <2>1, <4>2 DEF HasPod
      <4> QED
        BY <2>1, <4>2, <4>3, <4>4
        DEF PodInv, ListenerFitsSpec, CredentialsFitSpec, AfterCluster
    <3>2. CASE ~ Connected(c)
      BY <2>1, <2>2, <3>2, FailKeeps DEF ClusterFound
    <3> QED
      BY <3>1, <3>2
  <2>3. CASE pc' = "kafka_v1beta2" /\ UNCHANGED <<connection, auth, result, chosen>>
    <3>1. ~ HasPod'
      BY <1>0, <2>1, <2>3 DEF HasPod
    <3> QED
      BY <2>1, <2>3, <3>1 DEF PodInv, ListenerFitsSpec, CredentialsFitSpec, AfterCluster
  <2>4. CASE Fail("StrimziClusterNotFound") \/ Fail(KubeError)
    BY <2>1, <2>4, FailKeeps
  <2> QED
    BY <1>2, <2>2, <2>3, <2>4 DEF GetKafka
<1>3. CASE ResolveAuth
  <2>1. UNCHANGED <<spec, listeners>> /\ pc = "auth" /\ spec.type \in DesiredAuths
    BY <1>3, AuthTypes DEF ResolveAuth, strimzi, PodInv
  <2>2. CASE pc' = "user_v1" /\ UNCHANGED <<connection, auth, result, chosen>>
    BY <1>0, <2>1, <2>2
    DEF PodInv, ListenerFitsSpec, CredentialsFitSpec, AfterCluster, HasPod
  <2>3. CASE /\ auth'.kind = spec.type /\ pc' = "build"
             /\ spec.type = "tls" /\ "custom" \notin CertificateKeys =>
                  {"user.crt", "user.key"} \subseteq auth'.keys
             /\ spec.type = "scram-sha-512" => "password" \in auth'.keys
             /\ UNCHANGED <<connection, result, chosen>>
    BY <1>0, <2>1, <2>3
    DEF PodInv, ListenerFitsSpec, CredentialsFitSpec, AfterCluster, HasPod
  <2>4. CASE Fail(InvalidConfig)
    BY <2>1, <2>4, FailKeeps
  <2>5. CASE /\ spec.type = "tls" /\ spec.certificate # "absent"
             /\ auth' = Credentials("tls", CertificateFiles(spec.certificate), "tls")
             /\ pc' = "build" /\ UNCHANGED <<connection, result, chosen>>
    <3>1. "custom" \notin CertificateKeys => spec.certificate = "user.crt"
      BY <2>5, AuthKeys DEF PodInv
    <3> QED
      BY <2>3, <2>5, <3>1 DEF Credentials, CertificateFiles
  <2>6. CASE spec.type = "none" /\ auth' = Credentials("none", {}, "none") /\ pc' = "build"
             /\ UNCHANGED <<connection, result, chosen>>
    BY <2>3, <2>6 DEF Credentials
  <2>7. CASE /\ spec.type = "scram-sha-512"
             /\ auth' = Credentials("scram-sha-512", {"password"}, "scram-sha-512")
             /\ pc' = "build" /\ UNCHANGED <<connection, result, chosen>>
    BY <2>3, <2>7 DEF Credentials
  <2> QED
    BY <1>3, <2>2, <2>4, <2>5, <2>6, <2>7 DEF ResolveAuth
<1>4. CASE ResolveKafkaUserSecret
  <2>1. UNCHANGED spec /\ pc \in {"user_v1", "user_v1beta2"}
    BY <1>4 DEF ResolveKafkaUserSecret
  <2>2. CASE pc' = "user_v1beta2" /\ UNCHANGED <<connection, auth, result, chosen>>
    BY <1>0, <2>1, <2>2
    DEF PodInv, ListenerFitsSpec, CredentialsFitSpec, AfterCluster, HasPod
  <2>3. CASE /\ auth' = Credentials(spec.type, UserKeys(user), user)
             /\ pc' = "build" /\ UNCHANGED <<connection, result, chosen>>
    BY <1>0, <2>1, <2>3
    DEF PodInv, ListenerFitsSpec, CredentialsFitSpec, AfterCluster, HasPod, Credentials,
        UserKeys
  <2>4. CASE Fail("KafkaUserNotFound") \/ Fail(KubeError)
    BY <2>1, <2>4, FailKeeps
  <2> QED
    BY <1>4, <2>2, <2>3, <2>4 DEF ResolveKafkaUserSecret
<1>5. CASE BuildPod
  <2>1. UNCHANGED spec /\ pc = "build"
    BY <1>5 DEF BuildPod
  <2>2. CASE /\ pc' = "idle" /\ result' = [protocol |-> security_protocol(connection, auth)]
             /\ UNCHANGED <<connection, auth, chosen>>
    BY <2>1, <2>2
    DEF PodInv, ListenerFitsSpec, CredentialsFitSpec, AfterCluster, security_protocol
  <2>3. CASE Fail(InvalidConfig)
    BY <2>1, <2>3, FailKeeps
  <2> QED
    BY <1>5, <2>2, <2>3 DEF BuildPod
<1>6. CASE UNCHANGED resolution
  BY <1>6, PodFrame
<1> QED
  BY <1>1, <1>2, <1>3, <1>4, <1>5, <1>6
  DEF ResolutionNext, ListenersChange, StrimziUpgraded, KafkaChanges, KafkaUserChanges,
      allVars, resolution

\* The first state has no pod.
LEMMA PodInit == ResolutionInit => PodInv
<1> SUFFICES ASSUME ResolutionInit PROVE PodInv
  OBVIOUS
<1>1. ~ HasPod /\ pc = "idle" /\ spec \in AuthSpecs
  BY NoPod DEF ResolutionInit, HasPod, AuthSpecs
<1> QED
  BY <1>1 DEF PodInv, ListenerFitsSpec, CredentialsFitSpec, AfterCluster

\* Listener and credentials are read by different calls while the cluster changes: the
\* protocol of the pod is the one its listener expects all the same.
THEOREM ProtocolFits == ResolutionSpec => []ProtocolFitsListener
<1>1. ListenerInv /\ PodInv /\ [ResolutionNext]_allVars => (ListenerInv /\ PodInv)'
  BY ListenersMove, ListenerStep, PodStep
<1>2. PodInv => ProtocolFitsListener
  <2> SUFFICES ASSUME PodInv, HasPod
               PROVE  /\ result.protocol \in {"SASL_SSL", "SASL_PLAINTEXT"}
                           <=> chosen.auth = "scram-sha-512"
                      /\ result.protocol \in {"SSL", "SASL_SSL"}
                           <=> (chosen.tls \/ chosen.auth = "tls")
    BY DEF ProtocolFitsListener
  <2>1. /\ result.protocol = security_protocol(connection, auth)
        /\ auth.kind = chosen.auth /\ chosen.auth \in DesiredAuths
        /\ connection.tls_enabled = chosen.tls /\ chosen.tls \in BOOLEAN
    BY AuthTypes DEF PodInv, ListenerFitsSpec, CredentialsFitSpec, Listeners
  <2> QED
    BY <2>1 DEF security_protocol, DesiredAuths
<1> QED
  BY <1>1, <1>2, ListenerInit, PodInit, PTL DEF ResolutionSpec

-----------------------------------------------------------------------------
(***************************************************************************)
(* The Kafka resource that is not found.                                   *)
(***************************************************************************)
\* What the releases serve.
LEMMA Served ==
  /\ Versions[1] = {"v1beta2"} /\ Versions[2] = {"v1beta2", "v1"} /\ Versions[3] = {"v1"}
  /\ {Versions[i] : i \in 1..3} = {Versions[1], Versions[2], Versions[3]}
<1>1. 1..3 = {1, 2, 3}
  OBVIOUS
<1> QED
  BY <1>1 DEF Versions

\* A step after which no lookup is under way, with an outcome that is not "not found".
LEMMA LookupEnds ==
  ASSUME LookupInv, releases' = releases, upgrades' \in Nat, kafka' = kafka,
         everAbsent' \in BOOLEAN,
         ~ LookedFor', result' # Nothing => pc' = "idle",
         result' # [error |-> "StrimziClusterNotFound"]
  PROVE  LookupInv'
  BY DEF LookupInv, LookedFor, SecondLookup, NotFoundIsGenuine

\* LookupInv is kept by every step.
LEMMA LookupStep ==
  ASSUME ListenerInv, LookupInv, [ResolutionNext]_allVars
  PROVE  LookupInv'
<1>0. /\ releases \in {Versions[1], Versions[2], Versions[3]} /\ upgrades \in Nat
      /\ kafka \in BOOLEAN /\ everAbsent \in BOOLEAN
  BY Served DEF LookupInv
<1>1. CASE StartResolve
  BY <1>0, <1>1
  DEF StartResolve, strimzi, LookupInv, LookedFor, SecondLookup, NotFoundIsGenuine, Nothing
<1>2. CASE GetKafka
  <2>1. PICK v \in {"v1", "v1beta2"} :
          /\ pc = (IF v = "v1" THEN "kafka_v1" ELSE "kafka_v1beta2")
          /\ \/ kafka /\ v \in releases /\ ClusterFound
             \/ /\ ~ (kafka /\ v \in releases)
                /\ IF Fallback(v) # "none"
                   THEN /\ pc' = "kafka_v1beta2"
                        /\ UNCHANGED <<connection, auth, result, chosen>>
                   ELSE Fail("StrimziClusterNotFound")
                /\ UNCHANGED <<everAbsent, upgrades>>
             \/ Fail(KubeError) /\ UNCHANGED <<everAbsent, upgrades>>
    BY <1>2 DEF GetKafka
  <2>2. /\ UNCHANGED <<releases, kafka>> /\ LookedFor /\ result = Nothing
    BY <1>2, <2>1 DEF GetKafka, strimzi, LookedFor, LookupInv
  <2>3. CASE ClusterFound
    <3> DEFINE c == resolve_connection(listeners, spec.type, NoOverride)
    <3>1. ~ LookedFor' /\ upgrades' \in Nat /\ everAbsent' \in BOOLEAN
      BY <2>3 DEF ClusterFound, Fail, LookedFor
    <3>2. result' # Nothing => pc' = "idle"
      BY <2>2, <2>3 DEF ClusterFound, Fail
    <3>3. result' # [error |-> "StrimziClusterNotFound"]
      <4>1. CASE Connected(c)
        BY <2>2, <2>3, <4>1, NoPod DEF ClusterFound
      <4>2. CASE ~ Connected(c)
        <5>1. c.error \in {InvalidConfig, NoCompatibleListener}
          BY <4>2, Connects DEF ListenerInv
        <5>2. result' = [error |-> c.error]
          BY <2>3, <4>2 DEF ClusterFound, Fail
        <5> HIDE DEF c
        <5>3. c.error # "StrimziClusterNotFound"
          BY <5>1 DEF InvalidConfig, NoCompatibleListener
        <5>4. \A x, y : [error |-> x] = [error |-> y] => x = y
          <6> TAKE x, y
          <6>1. [error |-> x].error = x /\ [error |-> y].error = y
            OBVIOUS
          <6> QED
            BY <6>1
        <5> QED
          BY <5>2, <5>3, <5>4
      <4> QED
        BY <4>1, <4>2
    <3> QED
      BY <2>2, <3>1, <3>2, <3>3, LookupEnds
  <2>4. CASE v = "v1" /\ ~ ClusterFound /\ ~ Fail(KubeError)
    <3>1. /\ pc' = "kafka_v1beta2" /\ UNCHANGED <<result, everAbsent, upgrades>>
          /\ ~ (kafka /\ "v1" \in releases)
      BY <2>1, <2>4 DEF Fallback
    <3>2. ~ everAbsent => releases = Versions[1]
      BY <1>0, <2>2, <3>1, Served DEF LookupInv
    <3>3. result' = Nothing /\ SecondLookup'
      BY <2>2, <3>1, <3>2 DEF SecondLookup, LookedFor
    <3> QED
      BY <2>2, <3>1, <3>3, NoPod DEF LookupInv, LookedFor, NotFoundIsGenuine
  <2>5. CASE v = "v1beta2" /\ ~ ClusterFound /\ ~ Fail(KubeError)
    <3>1. /\ pc = "kafka_v1beta2" /\ Fail("StrimziClusterNotFound")
          /\ UNCHANGED <<everAbsent, upgrades>> /\ ~ (kafka /\ "v1beta2" \in releases)
      BY <2>1, <2>5 DEF Fallback
    <3>2. ~ everAbsent => releases = Versions[3]
      BY <1>0, <2>2, <3>1, Served DEF LookupInv
    <3>3. Versions[3] # Versions[1] /\ Versions[3] # Versions[2]
      BY Served
    <3>4. everAbsent \/ upgrades > 1
      BY <1>0, <3>1, <3>2, <3>3 DEF LookupInv, SecondLookup
    <3> QED
      BY <2>2, <3>1, <3>4
      DEF Fail, LookupInv, LookedFor, SecondLookup, NotFoundIsGenuine
  <2>6. CASE Fail(KubeError) /\ ~ ClusterFound
    <3>1. pc' = "idle" /\ result' = [error |-> KubeError]
      BY <2>6 DEF Fail
    <3>2. [error |-> KubeError] # [error |-> "StrimziClusterNotFound"]
      BY DEF KubeError
    <3>3. UNCHANGED <<everAbsent, upgrades>>
      BY <2>1, <2>6
    <3> QED
      BY <1>0, <2>2, <3>1, <3>2, <3>3, LookupEnds DEF LookedFor
  <2> QED
    BY <2>1, <2>3, <2>4, <2>5, <2>6
<1>3. CASE ResolveAuth \/ ResolveKafkaUserSecret \/ BuildPod
  <2>1. /\ UNCHANGED <<releases, kafka, everAbsent, upgrades>> /\ result = Nothing
        /\ ~ LookedFor'
    BY <1>3
    DEF ResolveAuth, ResolveKafkaUserSecret, BuildPod, Fail, strimzi, LookedFor, LookupInv
  <2>2. result' # Nothing => pc' = "idle"
    BY <1>3, <2>1 DEF ResolveAuth, ResolveKafkaUserSecret, BuildPod, Fail
  <2>3. result' # [error |-> "StrimziClusterNotFound"]
    <3>1. \/ result' = Nothing \/ result' = [error |-> InvalidConfig]
          \/ result' = [error |-> "KafkaUserNotFound"] \/ result' = [error |-> KubeError]
          \/ result' = [protocol |-> security_protocol(connection, auth)]
      BY <1>3, <2>1 DEF ResolveAuth, ResolveKafkaUserSecret, BuildPod, Fail
    <3>2. [protocol |-> security_protocol(connection, auth)]
            # [error |-> "StrimziClusterNotFound"]
      OBVIOUS
    <3> QED
      BY <3>1, <3>2, NoPod DEF InvalidConfig, KubeError
  <2> QED
    BY <1>0, <2>1, <2>2, <2>3, LookupEnds
<1>4. CASE StrimziUpgraded
  <2>1. PICK i \in 1..2 : releases = Versions[i] /\ releases' = Versions[i + 1]
    BY <1>4 DEF StrimziUpgraded
  <2>2. \/ releases = Versions[1] /\ releases' = Versions[2]
        \/ releases = Versions[2] /\ releases' = Versions[3]
    BY <2>1
  <2>3. /\ UNCHANGED <<kafka, everAbsent, pc, result>> /\ result = Nothing
        /\ upgrades' = IF LookedFor THEN upgrades + 1 ELSE upgrades
    BY <1>4 DEF StrimziUpgraded, Open, resolution
  <2>4. Versions[1] # Versions[2] /\ Versions[1] # Versions[3] /\ Versions[2] # Versions[3]
    BY Served
  <2>5. SecondLookup'
    BY <1>0, <2>2, <2>3, <2>4 DEF SecondLookup, LookedFor, LookupInv
  <2>6. releases' \in {Versions[k] : k \in 1..3} /\ upgrades' \in Nat
    BY <1>0, <2>2, <2>3, Served
  <2> QED
    BY <2>3, <2>5, <2>6, NoPod DEF LookupInv, LookedFor, NotFoundIsGenuine
<1>5. CASE KafkaChanges
  BY <1>0, <1>5
  DEF KafkaChanges, resolution, LookupInv, LookedFor, SecondLookup, NotFoundIsGenuine
<1>6. CASE UNCHANGED <<releases, kafka, pc, result, everAbsent, upgrades>>
  BY <1>6 DEF LookupInv, LookedFor, SecondLookup, NotFoundIsGenuine
<1> QED
  BY <1>1, <1>2, <1>3, <1>4, <1>5, <1>6
  DEF ResolutionNext, ListenersChange, KafkaUserChanges, allVars, resolution

\* The first state looks for nothing.
LEMMA LookupInit == ResolutionInit => LookupInv
<1> SUFFICES ASSUME ResolutionInit PROVE LookupInv
  OBVIOUS
<1>1. /\ releases \in {Versions[i] : i \in 1..3} /\ upgrades = 0 /\ kafka /\ ~ everAbsent
      /\ kafka \in BOOLEAN /\ everAbsent \in BOOLEAN /\ pc = "idle" /\ result = Nothing
  BY DEF ResolutionInit
<1> QED
  BY <1>1, NoPod DEF LookupInv, LookedFor, SecondLookup, NotFoundIsGenuine

\* A Kafka resource that is there all the while is found, whichever release of Strimzi
\* serves it and through an upgrade during the lookup; two upgrades are too many.
THEOREM AbsenceIsGenuine == ResolutionSpec => []NotFoundIsGenuine
<1>1. ListenerInv /\ LookupInv /\ [ResolutionNext]_allVars => (ListenerInv /\ LookupInv)'
  BY ListenersMove, ListenerStep, LookupStep
<1>2. LookupInv => NotFoundIsGenuine
  BY DEF LookupInv
<1> QED
  BY <1>1, <1>2, ListenerInit, LookupInit, PTL DEF ResolutionSpec

-----------------------------------------------------------------------------
(***************************************************************************)
(* The places a configuration refers to.                                   *)
(***************************************************************************)
\* What the rows of a table with a reference of s in front give.
LEMMA Rows ==
  ASSUME NEW s, NEW table, NEW x
  PROVE  /\ x \in Given(s, table) <=> \E row \in table : row[1] \in s.refs /\ x = row[2]
         /\ x \in {p[1] : p \in Filled(s, table)} <=>
              \E row \in table : row[1] \in s.refs /\ x = row[2]
<1>1. x \in Given(s, table) <=> \E row \in table : row[1] \in s.refs /\ x = row[2]
  BY DEF Given
<1>2. \A row : <<row[2], row[1]>>[1] = row[2]
  OBVIOUS
<1>3. x \in {p[1] : p \in Filled(s, table)} <=>
        \E row \in table : row[1] \in s.refs /\ x = row[2]
  BY <1>2 DEF Filled
<1> QED
  BY <1>1, <1>3

\* The pod has every place the storage section of the configuration refers to, but for
\* a path the user gave.
LEMMA StorageIsMounted ==
  ASSUME NEW s, s.section = TRUE, s.type \in StorageTypes
  PROVE  {f[2] : f \in build_storage_config(s).ok} \ {UserPath}
           \subseteq {p[1] : p \in add_storage_credentials(s)}
<1>1. CASE s.type = "s3"
  <2> DEFINE fields == {<<"accessKeySecret", <<"access_key", "AWS_ACCESS_KEY_ID">>>>,
                        <<"secretKeySecret", <<"secret_key", "AWS_SECRET_ACCESS_KEY">>>>}
             places == {<<"accessKeySecret", "AWS_ACCESS_KEY_ID">>,
                        <<"secretKeySecret", "AWS_SECRET_ACCESS_KEY">>,
                        <<"credentialsSecret", CredentialsFile>>,
                        <<"credentialsSecret", "AWS_SHARED_CREDENTIALS_FILE">>}
  <2>1. build_storage_config(s).ok = Given(s, fields)
    BY <1>1 DEF build_storage_config
  <2>2. add_storage_credentials(s) = Filled(s, places)
    BY <1>1 DEF add_storage_credentials
  <2>3. \A row \in fields : \E p \in places : p[1] = row[1] /\ p[2] = row[2][2]
    OBVIOUS
  <2> HIDE DEF fields, places
  <2> QED
    BY <2>1, <2>2, <2>3, Rows
<1>2. CASE s.type = "azure"
  <2> DEFINE azureKey == <<"account_key", "AZURE_STORAGE_KEY">>
             fields == {<<"credentialsSecret", azureKey>>, <<"accountKeySecret", azureKey>>,
                        <<"sasTokenSecret", <<"sas_token", "AZURE_STORAGE_SAS_TOKEN">>>>,
                        <<"clientSecretSecret", <<"client_secret", "AZURE_CLIENT_SECRET">>>>}
             places == {<<"sasTokenSecret", "AZURE_STORAGE_SAS_TOKEN">>,
                        <<"clientSecretSecret", "AZURE_CLIENT_SECRET">>}
             keys == {<<"AZURE_STORAGE_KEY", r>> : r \in account_key_or_credentials(s)}
  <2>1. build_storage_config(s).ok = Given(s, fields)
    BY <1>2 DEF build_storage_config
  <2>2. add_storage_credentials(s) = keys \cup Filled(s, places)
    BY <1>2 DEF add_storage_credentials
  <2>3. \A row \in fields :
          \/ row[1] \in {"credentialsSecret", "accountKeySecret"}
               /\ row[2][2] = "AZURE_STORAGE_KEY"
          \/ \E p \in places : p[1] = row[1] /\ p[2] = row[2][2]
    OBVIOUS
  <2>4. "credentialsSecret" \in s.refs \/ "accountKeySecret" \in s.refs =>
          "AZURE_STORAGE_KEY" \in {p[1] : p \in keys}
    <3>1. "credentialsSecret" \in s.refs \/ "accountKeySecret" \in s.refs =>
            \E r : r \in account_key_or_credentials(s)
      BY DEF account_key_or_credentials
    <3>2. \A r : <<"AZURE_STORAGE_KEY", r>>[1] = "AZURE_STORAGE_KEY"
      OBVIOUS
    <3> QED
      BY <3>1, <3>2
  <2> HIDE DEF fields, places, keys
  <2>5. {p[1] : p \in keys \cup Filled(s, places)}
          = {p[1] : p \in keys} \cup {p[1] : p \in Filled(s, places)}
    OBVIOUS
  <2>6. ASSUME NEW f \in Given(s, fields)
        PROVE  f[2] \in {p[1] : p \in keys} \cup {p[1] : p \in Filled(s, places)}
    <3>1. PICK row \in fields : row[1] \in s.refs /\ f = row[2]
      BY Rows
    <3>2. CASE row[1] \in {"credentialsSecret", "accountKeySecret"}
               /\ row[2][2] = "AZURE_STORAGE_KEY"
      BY <2>4, <3>1, <3>2
    <3>3. CASE \E p \in places : p[1] = row[1] /\ p[2] = row[2][2]
      BY <3>1, <3>3, Rows
    <3> QED
      BY <2>3, <3>2, <3>3
  <2> QED
    BY <2>1, <2>2, <2>5, <2>6
<1>3. CASE s.type = "gcs"
  <2> DEFINE user1 == {<<UserPath, <<"service_account", UserPath>>>>}
             places == {<<"credentialsSecret", CredentialsFile>>,
                        <<"credentialsSecret", "GOOGLE_APPLICATION_CREDENTIALS">>}
  <2>1. build_storage_config(s).ok =
          IF "credentialsSecret" \in s.refs THEN {<<"service_account", CredentialsFile>>}
          ELSE Given(s, user1)
    BY <1>3 DEF build_storage_config
  <2>2. add_storage_credentials(s) = Filled(s, places)
    BY <1>3 DEF add_storage_credentials
  <2>3. \A row \in user1 : row[2][2] = UserPath
    OBVIOUS
  <2>4. <<"credentialsSecret", CredentialsFile>> \in places
    OBVIOUS
  <2>5. CASE "credentialsSecret" \in s.refs
    <3>1. CredentialsFile \in {p[1] : p \in Filled(s, places)}
      <4> HIDE DEF places
      <4>1. <<"credentialsSecret", CredentialsFile>>[1] \in s.refs
            /\ <<"credentialsSecret", CredentialsFile>>[2] = CredentialsFile
        BY <2>5
      <4> QED
        BY <2>4, <4>1, Rows
    <3>2. {f[2] : f \in build_storage_config(s).ok} = {CredentialsFile}
      BY <2>1, <2>5
    <3> HIDE DEF places
    <3> QED
      BY <2>2, <3>1, <3>2
  <2>6. CASE "credentialsSecret" \notin s.refs
    <3> HIDE DEF user1, places
    <3>1. \A f \in build_storage_config(s).ok : f[2] = UserPath
      BY <2>1, <2>3, <2>6, Rows
    <3> QED
      BY <3>1
  <2> QED
    BY <2>5, <2>6
<1>4. CASE s.type = "filesystem"
  <2>1. build_storage_config(s).ok = {}
    BY <1>4 DEF build_storage_config
  <2> QED
    BY <2>1
<1> QED
  BY <1>1, <1>2, <1>3, <1>4 DEF StorageTypes

\* A storage with its section has one of the types.
LEMMA StorageTyped ==
  ASSUME NEW s \in StorageSpecs, ~ IsError(build_storage_config(s))
  PROVE  s.type \in StorageTypes /\ s.section = TRUE
<1>1. s.type \in StorageTypes /\ s.section \in BOOLEAN
  <2>1. PICK t \in StorageTypes :
          s \in [type : {t}, section : {TRUE}, refs : SUBSET References(t)]
                  \cup [type : {t}, section : {FALSE}, refs : {{}}]
    BY Zenon DEF StorageSpecs
  <2> QED
    BY <2>1
<1>2. ~ s.section => IsError(build_storage_config(s))
  BY DEF build_storage_config, IsError
<1> QED
  BY <1>1, <1>2

\* Every file and variable the generated configuration refers to is there in the pod, for
\* every kind of credentials and storage, when certificateAndKey names the keys of a
\* secret of Strimzi's and a KafkaUser is of the type asked for: otherwise it is not.
THEOREM ConfigurationIsMounted ==
  ASSUME "custom" \notin CertificateKeys
  PROVE  ResolutionSpec => []ConfigIsMounted
<1>1. ListenerInv /\ PodInv /\ [ResolutionNext]_allVars => (ListenerInv /\ PodInv)'
  BY ListenersMove, ListenerStep, PodStep
<1>2. PodInv => ConfigIsMounted
  <2> SUFFICES ASSUME PodInv, HasPod, auth.made = auth.kind, NEW s \in StorageSpecs,
                      ~ IsError(build_storage_config(s))
               PROVE  (build_kafka_config(connection, auth)
                         \cup build_target_config(connection, auth)
                         \cup {f[2] : f \in build_storage_config(s).ok}) \ {UserPath}
                        \subseteq build_volumes_and_mounts(connection, auth, s)
    BY DEF ConfigIsMounted
  <2>1. {f[2] : f \in build_storage_config(s).ok} \ {UserPath}
          \subseteq {p[1] : p \in add_storage_credentials(s)}
    BY StorageTyped, StorageIsMounted
  <2>2. /\ auth.kind = "tls" => {"user.crt", "user.key"} \subseteq auth.keys
        /\ auth.kind = "scram-sha-512" => "password" \in auth.keys
    BY DEF PodInv, CredentialsFitSpec
  <2>3. build_kafka_config(connection, auth) \cup build_target_config(connection, auth)
          \subseteq build_volumes_and_mounts(connection, auth, s)
    BY <2>2 DEF build_kafka_config, build_target_config, build_volumes_and_mounts
  <2>4. {p[1] : p \in add_storage_credentials(s)}
          \subseteq build_volumes_and_mounts(connection, auth, s)
    BY DEF build_volumes_and_mounts
  <2> QED
    BY <2>1, <2>3, <2>4
<1> QED
  BY <1>1, <1>2, ListenerInit, PodInit, PTL DEF ResolutionSpec

-----------------------------------------------------------------------------
(***************************************************************************)
(* The storage, seen by the pod and by the operator, and the options of a  *)
(* restore.                                                                *)
(***************************************************************************)
\* The second components of the pairs whose first one is `field`, or is in `places`.
ReadInto(pairs, field) == {f[2] : f \in {f \in pairs : f[1] = field}}

FilledBy(pairs, places) == {p[2] : p \in {p \in pairs : p[1] \in places}}

\* The places of the pod that a field of the configuration refers to, and the one that
\* kafka-backup falls back to.
Referred(s, field) == ReadInto(build_storage_config(s).ok, field)

Places(s, field) ==
  IF Referred(s, field) = {} /\ s.type = "s3" THEN {CredentialsFile} ELSE Referred(s, field)

\* One reference, or else another.
First(s, one, other) == IF one \in s.refs THEN {one} ELSE s.refs \cap {other}

\* The credentials of the pod and of the operator in these terms.
LEMMA CredentialSets ==
  ASSUME NEW s, NEW field
  PROVE  /\ PodCredential(s, field) =
              FilledBy(add_storage_credentials(s), Places(s, field))
                \cup (Referred(s, field) \cap {UserPath})
         /\ OperatorCredential(s, field) = ReadInto(build_store(s).ok, field)
  BY DEF PodCredential, OperatorCredential, FilledBy, Places, Referred, ReadInto

\* What the rows of a table give, one by one.
LEMMA GivenRows ==
  ASSUME NEW s, NEW table, NEW field, NEW x
  PROVE  x \in ReadInto(Given(s, table), field) <=>
           \E row \in table : row[1] \in s.refs /\ row[2][1] = field /\ x = row[2][2]
  BY DEF ReadInto, Given

\* The same for the places of the pod.
LEMMA FilledRows ==
  ASSUME NEW s, NEW table, NEW places, NEW x
  PROVE  x \in FilledBy(Filled(s, table), places) <=>
           \E row \in table : row[1] \in s.refs /\ row[2] \in places /\ x = row[1]
<1>1. \A row : <<row[2], row[1]>>[1] = row[2] /\ <<row[2], row[1]>>[2] = row[1]
  OBVIOUS
<1> QED
  BY <1>1 DEF Filled, FilledBy

\* The references R under one name.
Under(name, R) == {<<name, r>> : r \in R}

\* What a union gives.
LEMMA ReadUnion ==
  ASSUME NEW A, NEW B, NEW C, NEW S, S = A \cup B \cup C, NEW field
  PROVE  ReadInto(S, field) = ReadInto(A, field) \cup ReadInto(B, field) \cup ReadInto(C, field)
  BY DEF ReadInto

\* The same for the places of the pod.
LEMMA FilledUnion ==
  ASSUME NEW A, NEW B, NEW S, S = A \cup B, NEW places
  PROVE  FilledBy(S, places) = FilledBy(A, places) \cup FilledBy(B, places)
  BY DEF FilledBy

\* What the references under one name give.
LEMMA UnderRows ==
  ASSUME NEW name, NEW R
  PROVE  /\ \A f \in Under(name, R) : f[1] = name /\ f[2] \in R
         /\ \A r \in R : \E f \in Under(name, R) : f[2] = r
<1>1. \A f \in Under(name, R) : f[1] = name /\ f[2] \in R
  BY DEF Under
<1>2. ASSUME NEW r \in R PROVE \E f \in Under(name, R) : f[2] = r
  <2>1. <<name, r>> \in Under(name, R) /\ <<name, r>>[2] = r
    BY DEF Under
  <2> QED
    BY <2>1
<1> QED
  BY <1>1, <1>2

\* What the operator reads of references under one name.
LEMMA ReadUnder ==
  ASSUME NEW name, NEW R, NEW field
  PROVE  ReadInto(Under(name, R), field) = IF name = field THEN R ELSE {}
  BY UnderRows DEF ReadInto

\* What the pod is given of references under one name.
LEMMA FilledUnder ==
  ASSUME NEW name, NEW R, NEW places
  PROVE  FilledBy(Under(name, R), places) = IF name \in places THEN R ELSE {}
  BY UnderRows DEF FilledBy

\* The pod and the operator have the same S3 credentials.
LEMMA SameForS3 ==
  ASSUME NEW s, s.section = TRUE, s.type = "s3", NEW field \in {"access_key", "secret_key"}
  PROVE  PodCredential(s, field) = OperatorCredential(s, field)
<1> DEFINE fields == {<<"accessKeySecret", <<"access_key", "AWS_ACCESS_KEY_ID">>>>,
                      <<"secretKeySecret", <<"secret_key", "AWS_SECRET_ACCESS_KEY">>>>}
           filled == {<<"accessKeySecret", "AWS_ACCESS_KEY_ID">>,
                      <<"secretKeySecret", "AWS_SECRET_ACCESS_KEY">>,
                      <<"credentialsSecret", CredentialsFile>>,
                      <<"credentialsSecret", "AWS_SHARED_CREDENTIALS_FILE">>}
           own == IF field = "access_key" THEN "accessKeySecret" ELSE "secretKeySecret"
           place == IF field = "access_key" THEN "AWS_ACCESS_KEY_ID"
                    ELSE "AWS_SECRET_ACCESS_KEY"
           A == First(s, "accessKeySecret", "credentialsSecret")
           B == First(s, "secretKeySecret", "credentialsSecret")
           C == s.refs \cap {"credentialsSecret"}
<1>1. build_storage_config(s).ok = Given(s, fields)
      /\ add_storage_credentials(s) = Filled(s, filled)
  BY DEF build_storage_config, add_storage_credentials
<1>2. build_store(s).ok =
        Under("access_key", A) \cup Under("secret_key", B) \cup Under("token", C)
  BY DEF build_store, First, Under
<1>3. \A x : x \in Referred(s, field) <=> own \in s.refs /\ x = place
  <2>1. \A x : x \in Referred(s, field) <=>
          \E row \in fields : row[1] \in s.refs /\ row[2][1] = field /\ x = row[2][2]
    <3> HIDE DEF fields
    <3> QED
      BY <1>1, GivenRows DEF Referred
  <2> QED
    BY <2>1
<1>4. Places(s, field) = IF own \in s.refs THEN {place} ELSE {CredentialsFile}
  <2> HIDE DEF own, place
  <2> QED
    BY <1>3 DEF Places
<1>5. FilledBy(add_storage_credentials(s), Places(s, field))
        = First(s, own, "credentialsSecret")
  <2>1. \A x : x \in FilledBy(add_storage_credentials(s), Places(s, field)) <=>
          \E row \in filled : row[1] \in s.refs /\ row[2] \in Places(s, field) /\ x = row[1]
    <3> HIDE DEF filled
    <3> QED
      BY <1>1, FilledRows
  <2>2. \A x : x \in FilledBy(add_storage_credentials(s), Places(s, field)) <=>
          x \in First(s, own, "credentialsSecret")
    BY <1>4, <2>1 DEF First, CredentialsFile
  <2> HIDE DEF own
  <2> QED
    BY <2>2
<1>6. Referred(s, field) \cap {UserPath} = {}
  BY <1>3 DEF UserPath
<1>7. ReadInto(build_store(s).ok, field) =
        (IF "access_key" = field THEN A ELSE {}) \cup
        (IF "secret_key" = field THEN B ELSE {}) \cup (IF "token" = field THEN C ELSE {})
  <2> DEFINE a == Under("access_key", A)
             b == Under("secret_key", B)
             c == Under("token", C)
  <2>1. /\ ReadInto(a, field) = (IF "access_key" = field THEN A ELSE {})
        /\ ReadInto(b, field) = (IF "secret_key" = field THEN B ELSE {})
        /\ ReadInto(c, field) = (IF "token" = field THEN C ELSE {})
    <3> HIDE DEF A, B, C
    <3> QED
      BY ReadUnder
  <2>2. build_store(s).ok = a \cup b \cup c
    BY <1>2
  <2> HIDE DEF a, b, c
  <2>3. ReadInto(build_store(s).ok, field) =
          ReadInto(a, field) \cup ReadInto(b, field) \cup ReadInto(c, field)
    BY <2>2, ReadUnion
  <2> HIDE DEF A, B, C
  <2> QED
    BY <2>1, <2>3
<1>8. ReadInto(build_store(s).ok, field) = First(s, own, "credentialsSecret")
  BY <1>7
<1> HIDE DEF own
<1> QED
  BY <1>5, <1>6, <1>8, CredentialSets

\* The same Azure credentials: an account key from either of two references, a SAS token
\* and a client secret.
LEMMA SameForAzure ==
  ASSUME NEW s, s.section = TRUE, s.type = "azure",
         NEW field \in {"account_key", "sas_token", "client_secret"}
  PROVE  PodCredential(s, field) = OperatorCredential(s, field)
<1> DEFINE azureKey == <<"account_key", "AZURE_STORAGE_KEY">>
           fields == {<<"credentialsSecret", azureKey>>, <<"accountKeySecret", azureKey>>,
                      <<"sasTokenSecret", <<"sas_token", "AZURE_STORAGE_SAS_TOKEN">>>>,
                      <<"clientSecretSecret", <<"client_secret", "AZURE_CLIENT_SECRET">>>>}
           filled == {<<"sasTokenSecret", "AZURE_STORAGE_SAS_TOKEN">>,
                      <<"clientSecretSecret", "AZURE_CLIENT_SECRET">>}
           A == First(s, "accountKeySecret", "credentialsSecret")
           B == s.refs \cap {"sasTokenSecret"}
           C == s.refs \cap {"clientSecretSecret"}
           own == IF field = "account_key" THEN A
                  ELSE IF field = "sas_token" THEN B ELSE C
           place == IF field = "account_key" THEN "AZURE_STORAGE_KEY"
                    ELSE IF field = "sas_token" THEN "AZURE_STORAGE_SAS_TOKEN"
                    ELSE "AZURE_CLIENT_SECRET"
<1>1. /\ build_storage_config(s).ok = Given(s, fields)
      /\ add_storage_credentials(s) = Under("AZURE_STORAGE_KEY", A) \cup Filled(s, filled)
  BY DEF build_storage_config, add_storage_credentials, account_key_or_credentials, First,
         Under
<1>2. build_store(s).ok =
        Under("account_key", A) \cup Under("sas_token", B) \cup Under("client_secret", C)
  BY DEF build_store, First, Under
<1>3. \A x : x \in Referred(s, field) <=> own # {} /\ x = place
  <2>1. \A x : x \in Referred(s, field) <=>
          \E row \in fields : row[1] \in s.refs /\ row[2][1] = field /\ x = row[2][2]
    <3> HIDE DEF fields
    <3> QED
      BY <1>1, GivenRows DEF Referred
  <2>2. A # {} <=> "credentialsSecret" \in s.refs \/ "accountKeySecret" \in s.refs
    BY DEF First
  <2>3. (B # {} <=> "sasTokenSecret" \in s.refs) /\ (C # {} <=> "clientSecretSecret" \in s.refs)
    OBVIOUS
  <2> HIDE DEF A, B, C
  <2> QED
    BY <2>1, <2>2, <2>3
<1>4. \A x : x \in Places(s, field) <=> own # {} /\ x = place
  BY <1>3 DEF Places
<1>5. \A x : x \in FilledBy(add_storage_credentials(s), Places(s, field)) <=> x \in own
  <2>1. FilledBy(add_storage_credentials(s), Places(s, field)) =
          FilledBy(Under("AZURE_STORAGE_KEY", A), Places(s, field))
            \cup FilledBy(Filled(s, filled), Places(s, field))
    <3> DEFINE a == Under("AZURE_STORAGE_KEY", A)
               b == Filled(s, filled)
    <3>1. add_storage_credentials(s) = a \cup b
      BY <1>1
    <3> HIDE DEF a, b
    <3>2. FilledBy(add_storage_credentials(s), Places(s, field)) =
            FilledBy(a, Places(s, field)) \cup FilledBy(b, Places(s, field))
      BY <3>1, FilledUnion
    <3> QED
      BY <3>2 DEF a, b
  <2>2. FilledBy(Under("AZURE_STORAGE_KEY", A), Places(s, field)) =
          IF "AZURE_STORAGE_KEY" \in Places(s, field) THEN A ELSE {}
    <3> HIDE DEF A
    <3> QED
      BY FilledUnder
  <2>3. \A x : x \in FilledBy(Filled(s, filled), Places(s, field)) <=>
          \E row \in filled : row[1] \in s.refs /\ row[2] \in Places(s, field) /\ x = row[1]
    <3> HIDE DEF filled
    <3> QED
      BY FilledRows
  <2>4. CASE field = "account_key"
    <3>1. own = A /\ place = "AZURE_STORAGE_KEY"
      BY <2>4
    <3>2. FilledBy(Filled(s, filled), Places(s, field)) = {}
      BY <1>4, <2>3, <3>1
    <3> HIDE DEF A, own, place, filled
    <3> QED
      BY <1>4, <2>1, <2>2, <3>1, <3>2
  <2>5. CASE field # "account_key"
    <3>1. "AZURE_STORAGE_KEY" \notin Places(s, field)
      BY <1>4, <2>5
    <3>2. \A x : x \in FilledBy(add_storage_credentials(s), Places(s, field)) <=>
            \E row \in filled : row[1] \in s.refs /\ row[2] \in Places(s, field) /\ x = row[1]
      <4> HIDE DEF A, filled
      <4> QED
        BY <2>1, <2>2, <2>3, <3>1
    <3>3. CASE field = "sas_token"
      BY <1>4, <3>2, <3>3
    <3>4. CASE field = "client_secret"
      BY <1>4, <3>2, <3>4
    <3> QED
      BY <2>5, <3>3, <3>4
  <2> QED
    BY <2>4, <2>5
<1>6. Referred(s, field) \cap {UserPath} = {}
  <2>1. place # UserPath
    BY DEF UserPath
  <2> HIDE DEF own, place
  <2> QED
    BY <1>3, <2>1
<1>7. ReadInto(build_store(s).ok, field) = own
  <2> DEFINE a == Under("account_key", A)
             b == Under("sas_token", B)
             c == Under("client_secret", C)
  <2>1. /\ ReadInto(a, field) = (IF "account_key" = field THEN A ELSE {})
        /\ ReadInto(b, field) = (IF "sas_token" = field THEN B ELSE {})
        /\ ReadInto(c, field) = (IF "client_secret" = field THEN C ELSE {})
    <3> HIDE DEF A, B, C
    <3> QED
      BY ReadUnder
  <2>2. build_store(s).ok = a \cup b \cup c
    BY <1>2
  <2> HIDE DEF a, b, c
  <2>3. ReadInto(build_store(s).ok, field) =
          ReadInto(a, field) \cup ReadInto(b, field) \cup ReadInto(c, field)
    BY <2>2, ReadUnion
  <2> HIDE DEF A, B, C
  <2> QED
    BY <2>1, <2>3
<1> HIDE DEF own
<1> QED
  BY <1>5, <1>6, <1>7, CredentialSets

\* The same service account of Google: the secret's, or the path the user gave.
LEMMA SameForGcs ==
  ASSUME NEW s, s.section = TRUE, s.type = "gcs"
  PROVE  PodCredential(s, "service_account") = OperatorCredential(s, "service_account")
<1> DEFINE field == "service_account"
           given == {<<UserPath, <<"service_account", UserPath>>>>}
           filled == {<<"credentialsSecret", CredentialsFile>>,
                      <<"credentialsSecret", "GOOGLE_APPLICATION_CREDENTIALS">>}
           own == First(s, "credentialsSecret", UserPath)
<1>1. /\ build_storage_config(s).ok =
           IF "credentialsSecret" \in s.refs THEN {<<"service_account", CredentialsFile>>}
           ELSE Given(s, given)
      /\ add_storage_credentials(s) = Filled(s, filled)
      /\ build_store(s).ok = Under("service_account", own)
  BY DEF build_storage_config, add_storage_credentials, build_store, First, Under
<1>2. \A x : x \in Referred(s, field) <=>
        IF "credentialsSecret" \in s.refs THEN x = CredentialsFile
        ELSE UserPath \in s.refs /\ x = UserPath
  <2>1. CASE "credentialsSecret" \in s.refs
    <3>1. build_storage_config(s).ok = Under("service_account", {CredentialsFile})
      BY <1>1, <2>1 DEF Under
    <3>2. Referred(s, field) = {CredentialsFile}
      BY <3>1, ReadUnder DEF Referred
    <3> QED
      BY <2>1, <3>2
  <2>2. CASE "credentialsSecret" \notin s.refs
    <3>1. \A x : x \in Referred(s, field) <=>
            \E row \in given : row[1] \in s.refs /\ row[2][1] = field /\ x = row[2][2]
      <4> HIDE DEF given
      <4> QED
        BY <1>1, <2>2, GivenRows DEF Referred
    <3> QED
      BY <2>2, <3>1
  <2> QED
    BY <2>1, <2>2
<1>3. Places(s, field) = Referred(s, field)
  BY DEF Places
<1>4. \A x : x \in FilledBy(add_storage_credentials(s), Places(s, field)) <=>
        "credentialsSecret" \in s.refs /\ x = "credentialsSecret"
  <2>1. \A x : x \in FilledBy(add_storage_credentials(s), Places(s, field)) <=>
          \E row \in filled : row[1] \in s.refs /\ row[2] \in Places(s, field) /\ x = row[1]
    <3> HIDE DEF filled
    <3> QED
      BY <1>1, FilledRows
  <2> QED
    BY <1>2, <1>3, <2>1 DEF CredentialsFile, UserPath
<1>5. \A x : x \in PodCredential(s, field) <=> x \in own
  <2>1. PodCredential(s, field) = FilledBy(add_storage_credentials(s), Places(s, field))
                                    \cup (Referred(s, field) \cap {UserPath})
    BY CredentialSets
  <2> QED
    BY <1>2, <1>4, <2>1 DEF First, CredentialsFile, UserPath
<1>6. OperatorCredential(s, field) = own
  <2> HIDE DEF own
  <2> QED
    BY <1>1, ReadUnder, CredentialSets
<1> HIDE DEF own
<1> QED
  BY <1>5, <1>6

\* The credentials agree for every storage and all its references.
LEMMA CredentialsAgree == SameCredentials
<1> SUFFICES ASSUME NEW s \in StorageSpecs
             PROVE  /\ IsError(build_storage_config(s)) <=> IsError(build_store(s))
                    /\ ~ IsError(build_store(s)) =>
                         \A field \in Fields(s.type) :
                           PodCredential(s, field) = OperatorCredential(s, field)
  BY DEF SameCredentials
<1>1. IsError(build_storage_config(s)) <=> IsError(build_store(s))
  BY DEF build_storage_config, build_store, IsError
<1>2. ASSUME ~ IsError(build_store(s)), NEW field \in Fields(s.type)
      PROVE  PodCredential(s, field) = OperatorCredential(s, field)
  <2>1. s.type \in StorageTypes /\ s.section = TRUE
    BY <1>1, <1>2, StorageTyped
  <2>2. CASE s.type = "s3"
    <3>1. field \in {"access_key", "secret_key"}
      BY <1>2, <2>2 DEF Fields
    <3> QED
      BY <2>1, <2>2, <3>1, SameForS3
  <2>3. CASE s.type = "azure"
    <3>1. field \in {"account_key", "sas_token", "client_secret"}
      BY <1>2, <2>3 DEF Fields
    <3> QED
      BY <2>1, <2>3, <3>1, SameForAzure
  <2>4. CASE s.type = "gcs"
    <3>1. field = "service_account"
      BY <1>2, <2>4 DEF Fields
    <3> QED
      BY <2>1, <2>4, <3>1, SameForGcs
  <2>5. CASE s.type = "filesystem"
    BY <1>2, <2>5 DEF Fields
  <2> QED
    BY <2>1, <2>2, <2>3, <2>4, <2>5 DEF StorageTypes
<1> QED
  BY <1>1, <1>2

\* When a pod has been given its storage, the operator prunes that storage with the very
\* credentials the pod writes it with, for every storage type and every combination of
\* the alternative references to them.
THEOREM OperatorPrunesWithTheSameCredentials == ResolutionSpec => []StorageAgrees
<1>1. StorageAgrees
  BY CredentialsAgree DEF StorageAgrees
<1> QED
  BY <1>1, PTL

\* The options of a restore whose configuration is accepted are those it asks for.
LEMMA OptionsFollow == OptionsAsAsked
<1> SUFFICES ASSUME NEW r \in RestoreSpecs, ~ IsError(build_restore_options(r))
             PROVE  LET options == build_restore_options(r)
                    IN /\ options.purge_topics = "true" <=>
                            \/ r.purge_topics = "true"
                            \/ /\ r.existing_topic_policy = "overwrite"
                               /\ r.purge_topics # "false"
                       /\ options.reset_consumer_offsets <=>
                            options.consumer_groups # "none"
                       /\ options.consumer_groups # "none" => r.groups_restore
                       /\ r.groups_restore =>
                            \/ options.consumer_groups # "none"
                            \/ options.auto_consumer_groups = "true"
                       /\ options.time_window <=> r.window # "absent"
  BY DEF OptionsAsAsked
<1>1. /\ r.window \in {"absent", "given", "unreadable", "offsetFromEnd"}
      /\ r.purge_topics \in {"absent", "true", "false"}
      /\ r.groups_restore \in BOOLEAN /\ r.groups \in BOOLEAN
      /\ r.mapping \in {"none", "identity", "renaming"}
  BY DEF RestoreSpecs, Switch
<1>2. ~ Refused(r)
  BY DEF build_restore_options, IsError
<1> DEFINE options == build_restore_options(r)
<1>3. /\ options.time_window = (r.window = "given")
      /\ options.purge_topics = purge_topics(r)
      /\ options.reset_consumer_offsets =
           (r.groups_restore /\ (r.mapping # "none" \/ r.groups))
      /\ options.auto_consumer_groups = IF r.groups_restore THEN r.auto ELSE "absent"
      /\ options.consumer_groups = consumer_groups(r)
  BY <1>2 DEF build_restore_options
<1> HIDE DEF options
<1>4. options.purge_topics = "true" <=>
        \/ r.purge_topics = "true"
        \/ r.existing_topic_policy = "overwrite" /\ r.purge_topics # "false"
  BY <1>1, <1>3 DEF purge_topics
<1>5. options.reset_consumer_offsets <=> options.consumer_groups # "none"
  BY <1>1, <1>3 DEF consumer_groups
<1>6. options.consumer_groups # "none" => r.groups_restore
  BY <1>3 DEF consumer_groups
<1>7. r.groups_restore =>
        options.consumer_groups # "none" \/ options.auto_consumer_groups = "true"
  BY <1>1, <1>2, <1>3 DEF consumer_groups, Refused
<1>8. options.time_window <=> r.window # "absent"
  BY <1>1, <1>2, <1>3 DEF Refused
<1> QED
  BY <1>4, <1>5, <1>6, <1>7, <1>8 DEF options

\* A restore whose pod is started destroys and resets nothing it was not asked to, and
\* does what it was asked to, for every combination of its options.
THEOREM RestoreFollowsItsOptions == ResolutionSpec => []RestoreDoesWhatIsAsked
<1>1. RestoreDoesWhatIsAsked
  BY OptionsFollow DEF RestoreDoesWhatIsAsked
<1> QED
  BY <1>1, PTL
=============================================================================
