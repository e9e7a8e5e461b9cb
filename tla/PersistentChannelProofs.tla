------------------------- MODULE PersistentChannelProofs -------------------------
(***************************************************************************)
(* Proofs about PersistentChannel: what was accepted stays on disk, the    *)
(* queue stays in order and the size exact, through every crash, restart,  *)
(* failed write and damaged index.                                         *)
(***************************************************************************)
EXTENDS PersistentChannel, SumTheorems

--------------------------------------------------------------------------------
(* Sequences and what they contain *)

LEMMA TailIs ==
    ASSUME NEW S, NEW s \in Seq(S), s # <<>>
    PROVE  /\ Tail(s) \in Seq(S) /\ Len(Tail(s)) = Len(s) - 1
           /\ Len(s) \in Nat \ {0} /\ DOMAIN s = 1 .. Len(s) /\ DOMAIN Tail(s) = 1 .. (Len(s) - 1)
           /\ Head(s) = s[1] /\ Head(s) \in S
           /\ \A n \in DOMAIN Tail(s) : n + 1 \in DOMAIN s /\ Tail(s)[n] = s[n + 1]
           /\ ToSet(s) = {Head(s)} \cup ToSet(Tail(s))
<1>1. Len(s) \in Nat \ {0} /\ DOMAIN s = 1 .. Len(s) /\ Head(s) = s[1] /\ Head(s) \in S
  OBVIOUS
<1>2. /\ Tail(s) \in Seq(S) /\ Len(Tail(s)) = Len(s) - 1 /\ DOMAIN Tail(s) = 1 .. (Len(s) - 1)
      /\ \A n \in DOMAIN Tail(s) : n + 1 \in DOMAIN s /\ Tail(s)[n] = s[n + 1]
  BY <1>1
<1>3. ToSet(s) = {Head(s)} \cup ToSet(Tail(s))
  <2>1. ASSUME NEW x \in ToSet(s)
        PROVE  x \in {Head(s)} \cup ToSet(Tail(s))
    <3>1. PICK n \in DOMAIN s : x = s[n]
      BY <2>1 DEF ToSet
    <3>2. CASE n = 1
      BY <1>1, <3>1, <3>2
    <3>3. CASE n # 1
      <4>1. n - 1 \in DOMAIN Tail(s) /\ Tail(s)[n - 1] = s[n]
        BY <1>1, <1>2, <3>1, <3>3
      <4> QED
        BY <3>1, <4>1 DEF ToSet
    <3> QED
      BY <3>2, <3>3
  <2>2. Head(s) \in ToSet(s)
    BY <1>1 DEF ToSet
  <2>3. ToSet(Tail(s)) \subseteq ToSet(s)
    BY <1>2, Zenon DEF ToSet
  <2> QED
    BY <2>1, <2>2, <2>3
<1> QED
  BY <1>1, <1>2, <1>3

LEMMA InjectiveTail ==
    ASSUME NEW S, NEW s \in Seq(S), s # <<>>, IsInjective(s)
    PROVE  /\ IsInjective(Tail(s)) /\ Head(s) \notin ToSet(Tail(s))
           /\ ToSet(Tail(s)) = ToSet(s) \ {Head(s)}
<1>1. /\ Len(s) \in Nat \ {0} /\ DOMAIN s = 1 .. Len(s) /\ DOMAIN Tail(s) = 1 .. (Len(s) - 1)
      /\ Head(s) = s[1]
      /\ \A n \in DOMAIN Tail(s) : n + 1 \in DOMAIN s /\ Tail(s)[n] = s[n + 1]
      /\ ToSet(s) = {Head(s)} \cup ToSet(Tail(s))
  BY TailIs
<1>2. IsInjective(Tail(s))
  <2> SUFFICES ASSUME NEW m \in DOMAIN Tail(s), NEW n \in DOMAIN Tail(s), Tail(s)[m] = Tail(s)[n]
               PROVE  m = n
    BY DEF IsInjective
  <2>1. m + 1 = n + 1
    BY <1>1 DEF IsInjective
  <2> QED
    BY <1>1, <2>1
<1>3. Head(s) \notin ToSet(Tail(s))
  <2> SUFFICES ASSUME NEW n \in DOMAIN Tail(s), Tail(s)[n] = Head(s)
               PROVE  FALSE
    BY DEF ToSet
  <2>1. n + 1 = 1
    BY <1>1 DEF IsInjective
  <2> QED
    BY <1>1, <2>1
<1> QED
  BY <1>1, <1>2, <1>3

LEMMA AppendIs ==
    ASSUME NEW S, NEW s \in Seq(S), NEW x \in S
    PROVE  /\ Append(s, x) \in Seq(S) /\ Len(Append(s, x)) = Len(s) + 1 /\ Append(s, x) # <<>>
           /\ Len(s) \in Nat /\ DOMAIN s = 1 .. Len(s) /\ DOMAIN Append(s, x) = 1 .. (Len(s) + 1)
           /\ \A n \in DOMAIN s : Append(s, x)[n] = s[n]
           /\ Append(s, x)[Len(s) + 1] = x /\ Last(Append(s, x)) = x
           /\ ToSet(Append(s, x)) = ToSet(s) \cup {x}
           /\ IsInjective(s) /\ x \notin ToSet(s) => IsInjective(Append(s, x))
<1>1. /\ Append(s, x) \in Seq(S) /\ Len(Append(s, x)) = Len(s) + 1 /\ Append(s, x) # <<>>
      /\ Len(s) \in Nat /\ DOMAIN s = 1 .. Len(s) /\ DOMAIN Append(s, x) = 1 .. (Len(s) + 1)
      /\ \A n \in DOMAIN s : Append(s, x)[n] = s[n]
      /\ Append(s, x)[Len(s) + 1] = x
  OBVIOUS
<1>2. Last(Append(s, x)) = x
  BY <1>1 DEF Last
<1> DEFINE t == Append(s, x)
<1> HIDE DEF t
<1>3. /\ DOMAIN t = 1 .. (Len(s) + 1) /\ \A n \in DOMAIN s : t[n] = s[n]
      /\ t[Len(s) + 1] = x /\ Len(s) \in Nat /\ DOMAIN s = 1 .. Len(s)
  BY <1>1 DEF t
<1>4. ToSet(t) = ToSet(s) \cup {x}
  BY <1>3 DEF ToSet
<1>5. ASSUME IsInjective(s), x \notin ToSet(s)
      PROVE  IsInjective(t)
  <2> SUFFICES ASSUME NEW m \in DOMAIN t, NEW n \in DOMAIN t, t[m] = t[n]
               PROVE  m = n
    BY DEF IsInjective
  <2>1. \A i \in DOMAIN s : s[i] # x
    BY <1>5 DEF ToSet
  <2> QED
    BY <1>3, <1>5, <2>1 DEF IsInjective
<1> QED
  BY <1>1, <1>2, <1>4, <1>5 DEF t

LEMMA PrependIs ==
    ASSUME NEW S, NEW s \in Seq(S), NEW x \in S
    PROVE  /\ <<x>> \o s \in Seq(S) /\ <<x>> \o s # <<>> /\ Head(<<x>> \o s) = x
           /\ Len(s) \in Nat /\ DOMAIN s = 1 .. Len(s) /\ DOMAIN (<<x>> \o s) = 1 .. (Len(s) + 1)
           /\ (<<x>> \o s)[1] = x
           /\ \A n \in DOMAIN s : (<<x>> \o s)[n + 1] = s[n]
           /\ ToSet(<<x>> \o s) = {x} \cup ToSet(s)
<1>1. /\ <<x>> \o s \in Seq(S) /\ <<x>> \o s # <<>> /\ Head(<<x>> \o s) = x
      /\ Len(s) \in Nat /\ DOMAIN s = 1 .. Len(s) /\ DOMAIN (<<x>> \o s) = 1 .. (Len(s) + 1)
      /\ (<<x>> \o s)[1] = x
      /\ \A n \in DOMAIN s : (<<x>> \o s)[n + 1] = s[n]
  OBVIOUS
<1> DEFINE t == <<x>> \o s
<1>2. /\ DOMAIN t = 1 .. (Len(s) + 1) /\ t[1] = x /\ \A n \in DOMAIN s : t[n + 1] = s[n]
      /\ Len(s) \in Nat /\ DOMAIN s = 1 .. Len(s)
  BY <1>1
<1> HIDE DEF t
<1>3. ToSet(t) = {x} \cup ToSet(s)
  <2>1. ASSUME NEW n \in DOMAIN t
        PROVE  t[n] \in {x} \cup ToSet(s)
    <3>1. CASE n = 1
      BY <1>2, <3>1
    <3>2. CASE n # 1
      <4>1. n - 1 \in DOMAIN s /\ (n - 1) + 1 = n
        BY <1>2, <3>2
      <4>2. t[n] = s[n - 1]
        BY <1>2, <4>1
      <4> QED
        BY <4>1, <4>2 DEF ToSet
    <3> QED
      BY <3>1, <3>2
  <2>2. x \in ToSet(t)
    BY <1>2 DEF ToSet
  <2>3. ASSUME NEW n \in DOMAIN s
        PROVE  s[n] \in ToSet(t)
    <3>1. n + 1 \in DOMAIN t /\ t[n + 1] = s[n]
      BY <1>2
    <3> QED
      BY <3>1 DEF ToSet
  <2> QED
    BY <2>1, <2>2, <2>3 DEF ToSet
<1> QED
  BY <1>1, <1>3 DEF t

LEMMA ConcatIs ==
    ASSUME NEW S, NEW s \in Seq(S), NEW t \in Seq(S)
    PROVE  /\ s \o t \in Seq(S) /\ Len(s) \in Nat /\ Len(t) \in Nat
           /\ DOMAIN s = 1 .. Len(s) /\ DOMAIN t = 1 .. Len(t)
           /\ DOMAIN (s \o t) = 1 .. (Len(s) + Len(t))
           /\ \A n \in DOMAIN (s \o t) :
                 \/ n \in DOMAIN s /\ (s \o t)[n] = s[n]
                 \/ n > Len(s) /\ n - Len(s) \in DOMAIN t /\ (s \o t)[n] = t[n - Len(s)]
           /\ ToSet(s \o t) = ToSet(s) \cup ToSet(t)
<1>1. /\ s \o t \in Seq(S) /\ Len(s) \in Nat /\ Len(t) \in Nat
      /\ DOMAIN s = 1 .. Len(s) /\ DOMAIN t = 1 .. Len(t)
      /\ DOMAIN (s \o t) = 1 .. (Len(s) + Len(t))
      /\ \A n \in DOMAIN s : (s \o t)[n] = s[n]
      /\ \A n \in DOMAIN t : (s \o t)[n + Len(s)] = t[n]
  OBVIOUS
<1> DEFINE r == s \o t
<1>2. /\ Len(s) \in Nat /\ Len(t) \in Nat
      /\ DOMAIN s = 1 .. Len(s) /\ DOMAIN t = 1 .. Len(t)
      /\ DOMAIN r = 1 .. (Len(s) + Len(t))
      /\ \A n \in DOMAIN s : r[n] = s[n]
      /\ \A n \in DOMAIN t : r[n + Len(s)] = t[n]
  BY <1>1
<1> HIDE DEF r
<1>3. ASSUME NEW n \in DOMAIN r
      PROVE  \/ n \in DOMAIN s /\ r[n] = s[n]
             \/ n > Len(s) /\ n - Len(s) \in DOMAIN t /\ r[n] = t[n - Len(s)]
  <2>1. CASE n <= Len(s)
    BY <1>2, <2>1
  <2>2. CASE n > Len(s)
    <3>1. n - Len(s) \in DOMAIN t /\ (n - Len(s)) + Len(s) = n
      BY <1>2, <2>2
    <3> QED
      BY <1>2, <2>2, <3>1
  <2> QED
    BY <1>2, <2>1, <2>2
<1>4. ToSet(r) = ToSet(s) \cup ToSet(t)
  <2>1. ToSet(r) \subseteq ToSet(s) \cup ToSet(t)
    BY <1>3 DEF ToSet
  <2>2. ASSUME NEW n \in DOMAIN s
        PROVE  s[n] \in ToSet(r)
    BY <1>2 DEF ToSet
  <2>3. ASSUME NEW n \in DOMAIN t
        PROVE  t[n] \in ToSet(r)
    <3>1. n + Len(s) \in DOMAIN r /\ r[n + Len(s)] = t[n]
      BY <1>2
    <3> QED
      BY <3>1 DEF ToSet
  <2> QED
    BY <2>1, <2>2, <2>3 DEF ToSet
<1> QED
  BY <1>1, <1>3, <1>4 DEF r

--------------------------------------------------------------------------------
(* The steps left of an operation *)

Orderly(t) ==
    /\ t \in Seq(Steps)
    /\ \A m, n \in DOMAIN t : m < n => MayFollow(t[m], t[n])
    /\ \A m, n \in DOMAIN t : m < n /\ t[m] = "expire" /\ t[n] # "commit" => "commit" \notin ToSet(t)

LEMMA OrderlyTail ==
    ASSUME NEW t, Orderly(t), t # <<>>
    PROVE  /\ Orderly(Tail(t)) /\ ToSet(t) = {Head(t)} \cup ToSet(Tail(t)) /\ Head(t) \in Steps
           /\ \A x \in ToSet(Tail(t)) : MayFollow(Head(t), x)
           /\ Head(t) = "expire" /\ "commit" \in ToSet(t) => ToSet(Tail(t)) \subseteq {"commit"}
<1>1. t \in Seq(Steps)
  BY DEF Orderly
<1>2. /\ Tail(t) \in Seq(Steps) /\ Len(t) \in Nat \ {0} /\ DOMAIN t = 1 .. Len(t)
      /\ DOMAIN Tail(t) = 1 .. (Len(t) - 1)
      /\ Head(t) = t[1] /\ Head(t) \in Steps
      /\ \A n \in DOMAIN Tail(t) : n + 1 \in DOMAIN t /\ Tail(t)[n] = t[n + 1]
      /\ ToSet(t) = {Head(t)} \cup ToSet(Tail(t))
  BY <1>1, TailIs
<1> DEFINE r == Tail(t)
<1>3. /\ DOMAIN r = 1 .. (Len(t) - 1) /\ \A n \in DOMAIN r : n + 1 \in DOMAIN t /\ r[n] = t[n + 1]
      /\ ToSet(t) = {t[1]} \cup ToSet(r) /\ r \in Seq(Steps)
  BY <1>2
<1> HIDE DEF r
<1>4. Orderly(r)
  <2>1. \A m, n \in DOMAIN r : m < n => m + 1 < n + 1
    BY <1>2, <1>3
  <2>2. \A m, n \in DOMAIN r : m < n => MayFollow(r[m], r[n])
    BY <1>3, <2>1 DEF Orderly
  <2>3. \A m, n \in DOMAIN r : m < n /\ r[m] = "expire" /\ r[n] # "commit" => "commit" \notin ToSet(r)
    BY <1>3, <2>1 DEF Orderly
  <2> QED
    BY <1>3, <2>2, <2>3 DEF Orderly
<1>5. \A n \in DOMAIN r : 1 \in DOMAIN t /\ 1 < n + 1
  BY <1>2, <1>3
<1>6. \A n \in DOMAIN r : MayFollow(t[1], r[n])
  BY <1>3, <1>5 DEF Orderly
<1>7. ASSUME t[1] = "expire", "commit" \in ToSet(t)
      PROVE  \A n \in DOMAIN r : r[n] = "commit"
  BY <1>3, <1>5, <1>7 DEF Orderly
<1> QED
  BY <1>2, <1>3, <1>4, <1>6, <1>7 DEF r, ToSet

LEMMA OrderlyConcat ==
    ASSUME NEW s, NEW t, Orderly(s), Orderly(t),
           \A x \in ToSet(s), y \in ToSet(t) : MayFollow(x, y),
           "commit" \notin ToSet(s), "expire" \in ToSet(s) => "commit" \notin ToSet(t)
    PROVE  Orderly(s \o t) /\ ToSet(s \o t) = ToSet(s) \cup ToSet(t)
<1> DEFINE r == s \o t
<1>1. /\ r \in Seq(Steps) /\ Len(s) \in Nat /\ Len(t) \in Nat
      /\ DOMAIN s = 1 .. Len(s) /\ DOMAIN t = 1 .. Len(t)
      /\ DOMAIN r = 1 .. (Len(s) + Len(t))
      /\ \A n \in DOMAIN r :
            \/ n \in DOMAIN s /\ r[n] = s[n]
            \/ n > Len(s) /\ n - Len(s) \in DOMAIN t /\ r[n] = t[n - Len(s)]
      /\ ToSet(r) = ToSet(s) \cup ToSet(t)
  <2>1. s \in Seq(Steps) /\ t \in Seq(Steps)
    BY DEF Orderly
  <2> QED
    BY <2>1, ConcatIs
<1> HIDE DEF r
<1>2. ASSUME NEW m \in DOMAIN r, NEW n \in DOMAIN r, m < n
      PROVE  /\ MayFollow(r[m], r[n])
             /\ r[m] = "expire" /\ r[n] # "commit" => "commit" \notin ToSet(r)
  <2>1. CASE m \in DOMAIN s /\ r[m] = s[m] /\ n \in DOMAIN s /\ r[n] = s[n]
    BY <1>1, <1>2, <2>1 DEF Orderly, ToSet
  <2>2. CASE m \in DOMAIN s /\ r[m] = s[m] /\ n - Len(s) \in DOMAIN t /\ r[n] = t[n - Len(s)]
    BY <1>1, <1>2, <2>2 DEF Orderly, ToSet
  <2>3. CASE m > Len(s) /\ m - Len(s) \in DOMAIN t /\ r[m] = t[m - Len(s)]
    <3>1. n - Len(s) \in DOMAIN t /\ r[n] = t[n - Len(s)] /\ m - Len(s) < n - Len(s)
      BY <1>1, <1>2, <2>3
    <3> QED
      BY <1>1, <2>3, <3>1 DEF Orderly
  <2> QED
    BY <1>1, <2>1, <2>2, <2>3
<1> QED
  BY <1>1, <1>2 DEF Orderly, r

LEMMA OrderlyPair ==
    ASSUME NEW x \in Steps, NEW y \in Steps, MayFollow(x, y)
    PROVE  Orderly(<<x, y>>) /\ ToSet(<<x, y>>) = {x, y}
<1>1. <<x, y>> \in Seq(Steps) /\ DOMAIN <<x, y>> = 1 .. 2 /\ <<x, y>>[1] = x /\ <<x, y>>[2] = y
  OBVIOUS
<1>2. ToSet(<<x, y>>) = {x, y}
  BY <1>1 DEF ToSet
<1>3. x = "expire" /\ y # "commit" => "commit" \notin {x, y}
  OBVIOUS
<1> QED
  BY <1>1, <1>2, <1>3 DEF Orderly

LEMMA OrderlyOne ==
    ASSUME NEW x \in Steps
    PROVE  Orderly(<<x>>) /\ ToSet(<<x>>) = {x}
<1>1. <<x>> \in Seq(Steps) /\ DOMAIN <<x>> = 1 .. 1 /\ <<x>>[1] = x
  OBVIOUS
<1> QED
  BY <1>1 DEF Orderly, ToSet

LEMMA OrderlyNone == Orderly(<<>>) /\ ToSet(<<>>) = {}
<1>1. <<>> \in Seq(Steps) /\ DOMAIN <<>> = {}
  OBVIOUS
<1> QED
  BY <1>1 DEF Orderly, ToSet

(* The programs of Send and of the compaction *)
LEMMA OrderlySend ==
    \A room \in {<<>>, Fitting} :
       LET t == room \o <<"write", "fit count">> \o Fitting \o <<"expire", "commit">> IN
       Orderly(t) /\ ToSet(t) \subseteq {"write", "fit count", "fit size", "expire", "commit"}
                  /\ {"write", "commit"} \subseteq ToSet(t)
<1> TAKE room \in {<<>>, Fitting}
<1> USE DEF Steps
<1>1. Orderly(Fitting) /\ ToSet(Fitting) \subseteq {"fit size"}
  BY OrderlyOne, OrderlyNone DEF Fitting
<1>2. Orderly(room) /\ ToSet(room) \subseteq {"fit size"}
  BY <1>1, OrderlyNone
<1>3. Orderly(<<"write", "fit count">>) /\ ToSet(<<"write", "fit count">>) = {"write", "fit count"}
  BY OrderlyPair DEF MayFollow
<1>4. Orderly(<<"expire", "commit">>) /\ ToSet(<<"expire", "commit">>) = {"expire", "commit"}
  BY OrderlyPair DEF MayFollow
<1> DEFINE first == <<"write", "fit count">>
           last == <<"expire", "commit">>
           a == room \o first
           b == a \o Fitting
<1> HIDE DEF first, last
<1>5. Orderly(a) /\ ToSet(a) = ToSet(room) \cup {"write", "fit count"}
  <2>1. Orderly(first) /\ ToSet(first) = {"write", "fit count"}
    BY <1>3 DEF first
  <2>2. \A x \in ToSet(room), y \in ToSet(first) : MayFollow(x, y)
    BY <1>2, <2>1 DEF MayFollow
  <2>3. "commit" \notin ToSet(room) /\ "expire" \notin ToSet(room)
    BY <1>2
  <2> QED
    BY <1>2, <2>1, <2>2, <2>3, OrderlyConcat
<1> HIDE DEF a
<1>6. Orderly(b) /\ ToSet(b) = ToSet(a) \cup ToSet(Fitting)
  <2>1. \A x \in ToSet(a), y \in ToSet(Fitting) : MayFollow(x, y)
    BY <1>1, <1>2, <1>5 DEF MayFollow
  <2>2. "commit" \notin ToSet(a) /\ "expire" \notin ToSet(a)
    BY <1>2, <1>5
  <2> QED
    BY <1>1, <1>5, <2>1, <2>2, OrderlyConcat
<1> HIDE DEF b
<1>7. Orderly(b \o last) /\ ToSet(b \o last) = ToSet(b) \cup {"expire", "commit"}
  <2>1. Orderly(last) /\ ToSet(last) = {"expire", "commit"}
    BY <1>4 DEF last
  <2>2. \A x \in ToSet(b), y \in ToSet(last) : MayFollow(x, y)
    BY <1>1, <1>2, <1>5, <1>6, <2>1 DEF MayFollow
  <2>3. "commit" \notin ToSet(b) /\ "expire" \notin ToSet(b)
    BY <1>1, <1>2, <1>5, <1>6
  <2> QED
    BY <1>6, <2>1, <2>2, <2>3, OrderlyConcat
<1> QED
  BY <1>1, <1>2, <1>5, <1>6, <1>7 DEF a, b, first, last

LEMMA OrderlyCompact ==
    /\ Orderly(<<"expire", "fit count">> \o Fitting)
    /\ ToSet(<<"expire", "fit count">> \o Fitting) \subseteq {"expire", "fit count", "fit size"}
<1> USE DEF Steps
<1>1. Orderly(Fitting) /\ ToSet(Fitting) \subseteq {"fit size"}
  BY OrderlyOne, OrderlyNone DEF Fitting
<1>2. Orderly(<<"expire", "fit count">>) /\ ToSet(<<"expire", "fit count">>) = {"expire", "fit count"}
  BY OrderlyPair DEF MayFollow
<1>3. \A x \in {"expire", "fit count"}, y \in ToSet(Fitting) : MayFollow(x, y)
  BY <1>1 DEF MayFollow
<1> DEFINE first == <<"expire", "fit count">>
<1>4. Orderly(first) /\ ToSet(first) = {"expire", "fit count"}
  BY <1>2
<1> HIDE DEF first
<1>5. Orderly(first \o Fitting) /\ ToSet(first \o Fitting) = ToSet(first) \cup ToSet(Fitting)
  BY <1>1, <1>3, <1>4, OrderlyConcat
<1> QED
  BY <1>1, <1>4, <1>5 DEF first

(* A removal saves the index before it goes on. *)
LEMMA OrderlySave ==
    ASSUME NEW t, Orderly(t), t # <<>>, Head(t) \in {"fit count", "fit size", "expire"}
    PROVE  /\ Orderly(<<"save quietly">> \o t)
           /\ ToSet(<<"save quietly">> \o t) = {"save quietly"} \cup ToSet(t)
<1> DEFINE step == "save quietly"
<1>1. Orderly(<<step>>) /\ ToSet(<<step>>) = {step} /\ step \in Steps
  BY OrderlyOne DEF Steps
<1>2. \A y \in ToSet(t) : MayFollow(step, y)
  <2>1. /\ ToSet(t) = {Head(t)} \cup ToSet(Tail(t))
        /\ \A x \in ToSet(Tail(t)) : MayFollow(Head(t), x)
    BY OrderlyTail
  <2>2. ASSUME NEW y \in ToSet(t)
        PROVE  y \in {"write", "fit count", "fit size", "expire", "commit"}
    <3>1. CASE y = Head(t)
      BY <3>1
    <3>2. CASE MayFollow(Head(t), y)
      BY <3>2 DEF MayFollow
    <3> QED
      BY <2>1, <3>1, <3>2
  <2> QED
    BY <2>2 DEF MayFollow
<1>3. step # "commit" /\ step # "expire"
  OBVIOUS
<1> HIDE DEF step
<1>4. Orderly(<<step>> \o t) /\ ToSet(<<step>> \o t) = {step} \cup ToSet(t)
  BY <1>1, <1>2, <1>3, OrderlyConcat
<1> QED
  BY <1>4 DEF step

--------------------------------------------------------------------------------
(* The steps of the operation under way *)

LEMMA TodoIsOrderly == Inv => Orderly(todo)
BY DEF Inv, TypeOK, StepsInOrder, Orderly, Left

(* A step is done, *)
LEMMA StepDone ==
    ASSUME Inv, up, todo # <<>>, todo' = Tail(todo), up' = up
    PROVE  /\ todo' \in Seq(Steps) /\ StepsInOrder'
           /\ ToSet(todo) = {Head(todo)} \cup ToSet(todo')
           /\ \A x \in ToSet(todo') : MayFollow(Head(todo), x)
           /\ Head(todo) = "expire" /\ "commit" \in ToSet(todo) => ToSet(todo') \subseteq {"commit"}
           /\ "wipe" \notin ToSet(todo')
<1>1. /\ Orderly(todo') /\ ToSet(todo) = {Head(todo)} \cup ToSet(todo')
      /\ \A x \in ToSet(todo') : MayFollow(Head(todo), x)
      /\ Head(todo) = "expire" /\ "commit" \in ToSet(todo) => ToSet(todo') \subseteq {"commit"}
  BY TodoIsOrderly, OrderlyTail
<1>2. "wipe" \notin ToSet(todo')
  BY <1>1 DEF MayFollow
<1> QED
  BY <1>1, <1>2 DEF Orderly, StepsInOrder, Left

(* or an operation begins. *)
LEMMA StepsBegin ==
    ASSUME Orderly(todo'), up'
    PROVE  todo' \in Seq(Steps) /\ StepsInOrder'
BY DEF Orderly, StepsInOrder, Left

(* The step under way is one of those left; removing is never the last one. *)
LEMMA Doing ==
    ASSUME Inv, NEW step, Do(step)
    PROVE  /\ up /\ todo # <<>> /\ Head(todo) = step /\ step \in ToSet(todo)
           /\ step # "wipe" => "wipe" \notin ToSet(todo)
<1>1. up /\ todo # <<>> /\ Head(todo) = step
  BY DEF Do
<1>2. /\ ToSet(todo) = {Head(todo)} \cup ToSet(Tail(todo))
      /\ \A x \in ToSet(Tail(todo)) : MayFollow(Head(todo), x)
  BY <1>1, TodoIsOrderly, OrderlyTail
<1>3. "wipe" \notin ToSet(Tail(todo))
  BY <1>2 DEF MayFollow
<1> QED
  BY <1>1, <1>2, <1>3

LEMMA LongIsNotEmpty ==
    ASSUME NEW S, NEW s \in Seq(S), NEW n \in Nat, Len(s) > n
    PROVE  s # <<>>
OBVIOUS

LEMMA Removing ==
    ASSUME Inv, MustRemove, todo' = <<"save quietly">> \o todo, up' = up
    PROVE  /\ todo' \in Seq(Steps) /\ StepsInOrder'
           /\ ToSet(todo') = {"save quietly"} \cup ToSet(todo)
           /\ up /\ "wipe" \notin ToSet(todo) /\ messages # <<>>
<1>1. up /\ todo # <<>> /\ Head(todo) \in {"fit count", "fit size", "expire"} /\ "wipe" \notin ToSet(todo)
  BY Doing DEF MustRemove, Do
<1>2. messages # <<>>
  <2>1. messages \in Seq(Ids)
    BY DEF Inv, TypeOK
  <2>2. MaxMessages \in Nat
    BY PersistentAssumption DEF PersistentAssumption
  <2>3. Len(messages) > MaxMessages => messages # <<>>
    BY <2>1, <2>2, LongIsNotEmpty
  <2> QED
    BY <2>3 DEF MustRemove
<1>3. Orderly(todo') /\ ToSet(todo') = {"save quietly"} \cup ToSet(todo)
  BY <1>1, TodoIsOrderly, OrderlySave
<1> QED
  BY <1>1, <1>2, <1>3, StepsBegin

--------------------------------------------------------------------------------
(* The bytes of the files *)

Contents == [Ids -> Msgs \cup {NoFile}]
Bytes(f) == [i \in Ids |-> IF f[i] # NoFile THEN Size[f[i]] ELSE 0]
Total(f, ids) == SumFunctionOnSet(Bytes(f), ids)

LEMMA TotalIs ==
    /\ \A ids : TotalSize(ids) = Total(files, ids)
    /\ TotalSize(ToSet(messages))' = Total(files', ToSet(messages'))
<1>1. \A ids : TotalSize(ids) = Total(files, ids)
  BY DEF TotalSize, Total, Bytes, SizeOf, Exists
<1>2. TotalSize(ToSet(messages))' = Total(files', ToSet(messages'))
  BY DEF TotalSize, Total, Bytes, SizeOf, Exists, ToSet
<1> QED
  BY <1>1, <1>2

LEMMA BytesAreWeights ==
    ASSUME NEW f \in Contents, NEW ids \in SUBSET Ids
    PROVE  IsFiniteSet(ids) /\ Weights(Bytes(f), ids) /\ Total(f, ids) \in Nat
<1>1. IsFiniteSet(Ids)
  <2>1. 1 \in Int /\ MaxId \in Int
    BY PersistentAssumption DEF PersistentAssumption
  <2>2. IsFiniteSet(1 .. MaxId)
    BY <2>1, FS_Interval, Zenon
  <2> QED
    BY <2>2 DEF Ids
<1>2. IsFiniteSet(ids)
  BY <1>1, FS_Subset
<1>3. Weights(Bytes(f), ids)
  <2>1. Size \in [Msgs -> Nat \ {0}]
    BY PersistentAssumption DEF PersistentAssumption
  <2> QED
    BY <2>1 DEF Weights, Bytes, Contents
<1> QED
  BY <1>2, <1>3, SumNat DEF Total

LEMMA TotalRemove ==
    ASSUME NEW f \in Contents, NEW ids \in SUBSET Ids, NEW i \in ids
    PROVE  /\ Total([f EXCEPT ![i] = NoFile], ids \ {i}) = Total(f, ids) - Bytes(f)[i]
           /\ Bytes(f)[i] \in Nat /\ Bytes(f)[i] <= Total(f, ids)
           /\ Total(f, ids) = Total(f, ids \ {i}) + Bytes(f)[i]
<1> DEFINE g == [f EXCEPT ![i] = NoFile]
<1>1. IsFiniteSet(ids) /\ Weights(Bytes(f), ids) /\ Total(f, ids) \in Nat
  BY BytesAreWeights
<1>2. IsFiniteSet(ids \ {i}) /\ Weights(Bytes(f), ids \ {i}) /\ Total(f, ids \ {i}) \in Nat
  BY BytesAreWeights
<1>3. Bytes(f)[i] \in Nat
  BY <1>1 DEF Weights
<1>4. Total(f, ids) = Bytes(f)[i] + Total(f, ids \ {i})
  BY <1>1, SumRemove DEF Total
<1>5. \A j \in ids \ {i} : Bytes(f)[j] = Bytes(g)[j]
  BY DEF Bytes, Contents
<1> HIDE DEF g
<1>6. Total(f, ids \ {i}) = Total(g, ids \ {i})
  BY <1>2, <1>5, SumSame DEF Total
<1> QED
  BY <1>1, <1>2, <1>3, <1>4, <1>6 DEF g

LEMMA TotalAdd ==
    ASSUME NEW f \in Contents, NEW ids \in SUBSET Ids, NEW i \in Ids \ ids, NEW m \in Msgs
    PROVE  Total([f EXCEPT ![i] = m], ids \cup {i}) = Total(f, ids) + Size[m]
<1> DEFINE g == [f EXCEPT ![i] = m]
<1>1. g \in Contents
  BY DEF Contents
<1>2. IsFiniteSet(ids) /\ Weights(Bytes(f), ids) /\ Total(f, ids) \in Nat
  BY BytesAreWeights
<1>3. \A j \in ids : Bytes(f)[j] = Bytes(g)[j]
  BY DEF Bytes, Contents
<1>4. Bytes(g)[i] = Size[m] /\ Size[m] \in Nat
  BY PersistentAssumption DEF Bytes, Contents, PersistentAssumption
<1> HIDE DEF g
<1>5. Weights(Bytes(g), ids)
  BY <1>2, <1>3 DEF Weights
<1>6. Total(g, ids \cup {i}) = Bytes(g)[i] + Total(g, ids)
  BY <1>2, <1>4, <1>5, SumAdd DEF Total
<1>7. Total(f, ids) = Total(g, ids)
  BY <1>2, <1>3, SumSame DEF Total
<1> QED
  BY <1>2, <1>4, <1>6, <1>7 DEF g

LEMMA TotalErase ==
    ASSUME NEW f \in Contents, NEW ids \in SUBSET Ids, NEW i \in Ids
    PROVE  Total([f EXCEPT ![i] = NoFile], ids) <= Total(f, ids)
<1> DEFINE g == [f EXCEPT ![i] = NoFile]
<1>1. IsFiniteSet(ids) /\ Weights(Bytes(f), ids) /\ Total(f, ids) \in Nat
  BY BytesAreWeights
<1>2. Bytes(g)[i] = 0 /\ \A j \in Ids \ {i} : Bytes(f)[j] = Bytes(g)[j]
  BY DEF Bytes, Contents
<1> HIDE DEF g
<1>3. CASE i \in ids
  <2>1. Bytes(g)[i] \in Nat /\ (\A j \in ids \ {i} : Bytes(f)[j] = Bytes(g)[j]) /\ Bytes(f)[i] \in Nat
    BY <1>1, <1>2, <1>3 DEF Weights
  <2>2. Total(g, ids) = Total(f, ids) - Bytes(f)[i] + Bytes(g)[i]
    BY <1>1, <1>3, <2>1, SumChange DEF Total
  <2> QED
    BY <1>1, <1>2, <2>1, <2>2 DEF g
<1>4. CASE i \notin ids
  <2>1. \A j \in ids : Bytes(f)[j] = Bytes(g)[j]
    BY <1>2, <1>4
  <2>2. Total(f, ids) = Total(g, ids)
    BY <1>1, <2>1, SumSame DEF Total
  <2> QED
    BY <1>1, <2>2 DEF g
<1> QED
  BY <1>3, <1>4

LEMMA TotalNone == \A f : Total(f, {}) = 0
BY SumEmpty DEF Total

--------------------------------------------------------------------------------
(* The parts of the invariant *)

Types ==
    /\ files \in Contents
    /\ index.st \in {"missing", "damaged", "ok"}
    /\ index.ids \in Seq(Ids) /\ index.next \in 0 .. MaxId /\ index.closed \in BOOLEAN
    /\ up \in BOOLEAN /\ closed \in BOOLEAN
    /\ messages \in Seq(Ids) /\ nextID \in 0 .. MaxId
    /\ msg \in Msgs \cup {NoFile}
    /\ owed \subseteq [id : Ids, msg : Msgs]
    /\ faults \subseteq {"undone", "recovered"}

(* The queue without the steps and the size *)
Queued ==
    /\ Types /\ AcceptedIsDurable /\ QueueInOrder
    /\ IsInjective(messages) /\ \A n \in DOMAIN messages : messages[n] <= nextID
    /\ IsInjective(index.ids) /\ \A n \in DOMAIN index.ids : index.ids[n] <= index.next

(* What Send relies on from one step to the next *)
SendGoesOn ==
    /\ "write" \in ToSet(todo) => nextID < MaxId
    /\ ToSet(todo) \cap {"write", "commit"} # {} => msg \in Msgs
    /\ "commit" \in ToSet(todo) /\ "write" \notin ToSet(todo) =>
          /\ \A o \in owed : o.id < nextID
          /\ nextID \in ToSet(messages) => files[nextID] = msg
    /\ "wipe" \in ToSet(todo) => owed = {}

Sized ==
    /\ currentSize \in Nat
    /\ up /\ "wipe" \notin ToSet(todo) =>
        /\ currentSize >= Total(files, ToSet(messages))
        /\ "undone" \notin faults => currentSize = Total(files, ToSet(messages))

Stepping == todo \in Seq(Steps) /\ StepsInOrder

LEMMA WipingIsFirst ==
    ASSUME Stepping
    PROVE  up => (Do("wipe") <=> "wipe" \in ToSet(todo))
<1>1. Orderly(todo)
  BY DEF Stepping, StepsInOrder, Orderly, Left
<1>2. CASE todo = <<>>
  BY <1>2, OrderlyNone DEF Do
<1>3. CASE todo # <<>>
  <2>1. /\ ToSet(todo) = {Head(todo)} \cup ToSet(Tail(todo))
        /\ \A x \in ToSet(Tail(todo)) : MayFollow(Head(todo), x)
    BY <1>1, <1>3, OrderlyTail
  <2>2. "wipe" \notin ToSet(Tail(todo))
    BY <2>1 DEF MayFollow
  <2> QED
    BY <1>3, <2>1, <2>2 DEF Do
<1> QED
  BY <1>2, <1>3

LEMMA PartsOfInv == Inv <=> Queued /\ SendGoesOn /\ Sized /\ Stepping
<1>1. TypeOK <=> Types /\ currentSize \in Nat /\ todo \in Seq(Steps)
  BY DEF TypeOK, Types, Contents
<1>2. Numbered <=> /\ IsInjective(messages) /\ \A n \in DOMAIN messages : messages[n] <= nextID
                   /\ IsInjective(index.ids) /\ \A n \in DOMAIN index.ids : index.ids[n] <= index.next
                   /\ SendGoesOn
  <2>1. /\ Left({"write"}) <=> "write" \in ToSet(todo)
        /\ Left({"wipe"}) <=> "wipe" \in ToSet(todo)
    BY DEF Left
  <2> QED
    BY <2>1 DEF Numbered, SendGoesOn, Left, Written
<1>3. ASSUME Stepping
      PROVE  SizeCovers <=> (up /\ "wipe" \notin ToSet(todo) =>
                                /\ currentSize >= Total(files, ToSet(messages))
                                /\ "undone" \notin faults => currentSize = Total(files, ToSet(messages)))
  BY <1>3, WipingIsFirst, TotalIs DEF SizeCovers
<1> QED
  BY <1>1, <1>2, <1>3 DEF Inv, Queued, Sized, Stepping

Parts == Queued /\ SendGoesOn /\ Sized /\ Stepping

LEMMA AscendingTail ==
    ASSUME NEW s \in Seq(Ids), s # <<>>, NEW next, Ascending(s, next)
    PROVE  Ascending(Tail(s), next)
<1>1. /\ Len(s) \in Nat /\ DOMAIN Tail(s) = 1 .. (Len(s) - 1)
      /\ \A n \in DOMAIN Tail(s) : n + 1 \in DOMAIN s /\ Tail(s)[n] = s[n + 1]
  BY TailIs
<1>2. \A m, n \in DOMAIN Tail(s) : m < n => m + 1 < n + 1
  BY <1>1
<1> QED
  BY <1>1, <1>2 DEF Ascending

LEMMA AscendingAppend ==
    ASSUME NEW s \in Seq(Ids), NEW next \in Nat, next + 1 \in Ids, Ascending(s, next)
    PROVE  Ascending(Append(s, next + 1), next + 1)
<1> DEFINE t == Append(s, next + 1)
<1>1. /\ Len(s) \in Nat /\ DOMAIN s = 1 .. Len(s) /\ DOMAIN t = 1 .. (Len(s) + 1)
      /\ \A n \in DOMAIN s : t[n] = s[n]
      /\ t[Len(s) + 1] = next + 1
  BY AppendIs
<1>2. \A n \in DOMAIN s : s[n] \in Int
  <2>1. \A n \in DOMAIN s : s[n] \in Ids
    OBVIOUS
  <2>2. \A i \in Ids : i \in Int
    BY PersistentAssumption DEF PersistentAssumption, Ids
  <2> QED
    BY <2>1, <2>2
<1> HIDE DEF t
<1>3. ASSUME NEW m \in DOMAIN t, NEW n \in DOMAIN t, m < n
      PROVE  t[m] < t[n]
  <2>1. m \in DOMAIN s
    BY <1>1, <1>3
  <2>2. CASE n \in DOMAIN s
    BY <1>1, <1>3, <2>1, <2>2 DEF Ascending
  <2>3. CASE n = Len(s) + 1
    BY <1>1, <1>2, <2>1, <2>3 DEF Ascending
  <2> QED
    BY <1>1, <2>2, <2>3
<1>4. ASSUME NEW n \in DOMAIN t
      PROVE  t[n] <= next + 1
  <2>1. CASE n \in DOMAIN s
    BY <1>1, <1>2, <2>1 DEF Ascending
  <2>2. CASE n = Len(s) + 1
    BY <1>1, <2>2
  <2> QED
    BY <1>1, <2>1, <2>2
<1> QED
  BY <1>3, <1>4 DEF Ascending, t

LEMMA NoneIsAscending == <<>> \in Seq(Ids) /\ IsInjective(<<>>) /\ ToSet(<<>>) = {}
                         /\ \A next : Ascending(<<>>, next) /\ \A n \in DOMAIN <<>> : <<>>[n] <= next
<1>1. DOMAIN <<>> = {} /\ <<>> \in Seq(Ids)
  OBVIOUS
<1> QED
  BY <1>1 DEF IsInjective, ToSet, Ascending

--------------------------------------------------------------------------------
(* The steps of the operations *)

(* A step that at most saves the index *)
LEMMA Quiet ==
    ASSUME Inv, up, todo # <<>>, Head(todo) \in Steps \ {"write", "wipe"}, Done,
           UNCHANGED <<files, up, memory, msg, history>>,
           SaveIndex \/ UNCHANGED index
    PROVE  Parts'
<1>1. Queued /\ SendGoesOn /\ Sized
  BY PartsOfInv
<1>2. /\ files' = files /\ up' = up /\ messages' = messages /\ closed' = closed /\ nextID' = nextID
      /\ currentSize' = currentSize /\ msg' = msg /\ owed' = owed /\ faults' = faults
      /\ todo' = Tail(todo)
  BY DEF memory, history, Done
<1>3. /\ Stepping'
      /\ ToSet(todo) = {Head(todo)} \cup ToSet(todo')
  BY <1>2, StepDone DEF Stepping
<1>4. Queued'
  <2>1. CASE SaveIndex
    <3>1. index'.st = "ok" /\ index'.ids = messages /\ index'.next = nextID /\ index'.closed = closed
      BY <2>1 DEF SaveIndex
    <3> QED
      BY <1>1, <1>2, <3>1 DEF Queued, Types, AcceptedIsDurable, QueueInOrder
  <2>2. CASE UNCHANGED index
    BY <1>1, <1>2, <2>2 DEF Queued, Types, AcceptedIsDurable, QueueInOrder
  <2> QED
    BY <2>1, <2>2
<1>5. "write" \in ToSet(todo) <=> "write" \in ToSet(todo')
  BY <1>3
<1>6. "wipe" \in ToSet(todo) <=> "wipe" \in ToSet(todo')
  BY <1>3
<1>7. SendGoesOn'
  BY <1>1, <1>2, <1>3, <1>5, <1>6 DEF SendGoesOn
<1>8. Sized'
  BY <1>1, <1>2, <1>6 DEF Sized
<1> QED
  BY <1>3, <1>4, <1>7, <1>8 DEF Parts

LEMMA SaveQuietlyKeeps == Inv /\ SaveQuietly => Parts'
<1> SUFFICES ASSUME Inv, SaveQuietly
             PROVE  Parts'
  OBVIOUS
<1>1. up /\ todo # <<>> /\ Head(todo) \in Steps \ {"write", "wipe"}
  BY DEF SaveQuietly, Do, Steps
<1> QED
  BY <1>1, Quiet DEF SaveQuietly

LEMMA AnswerKeeps == Inv /\ (Answer \/ AnswerFails) => Parts'
<1> SUFFICES ASSUME Inv, Answer \/ AnswerFails
             PROVE  Parts'
  OBVIOUS
<1>1. up /\ todo # <<>> /\ Head(todo) \in Steps \ {"write", "wipe"}
  BY DEF Answer, AnswerFails, Do, Steps
<1>2. Done /\ UNCHANGED <<files, up, memory, msg, history>> /\ (SaveIndex \/ UNCHANGED index)
  BY DEF Answer, AnswerFails, disk
<1> QED
  BY <1>1, <1>2, Quiet

LEMMA RetentionMetKeeps == Inv /\ RetentionMet => Parts'
<1> SUFFICES ASSUME Inv, RetentionMet
             PROVE  Parts'
  OBVIOUS
<1>1. up /\ todo # <<>> /\ Head(todo) \in Steps \ {"write", "wipe"}
  BY DEF RetentionMet, Do, Steps
<1>2. Done /\ UNCHANGED <<files, up, memory, msg, history>> /\ (SaveIndex \/ UNCHANGED index)
  BY DEF RetentionMet, disk
<1> QED
  BY <1>1, <1>2, Quiet

(* The oldest message goes, taken or dropped. *)
LEMMA OldestGoes ==
    ASSUME Inv, up, "wipe" \notin ToSet(todo), messages # <<>>,
           messages' = Tail(messages), DeleteFile(Head(messages)),
           UNCHANGED <<index, up, closed, nextID, msg>>
    PROVE  /\ Queued' /\ Sized'
           /\ owed' \subseteq owed /\ ToSet(messages') \subseteq ToSet(messages)
           /\ \A i \in ToSet(messages') : files'[i] = files[i]
<1>1. Queued /\ SendGoesOn /\ Sized /\ Types
  BY PartsOfInv DEF Queued
<1> DEFINE i == Head(messages)
<1>2. /\ messages \in Seq(Ids) /\ files \in Contents
      /\ index' = index /\ up' = up /\ closed' = closed /\ nextID' = nextID /\ msg' = msg
      /\ files' = [files EXCEPT ![i] = NoFile] /\ owed' = {o \in owed : o.id # i}
      /\ currentSize' = currentSize - SizeOf(i) /\ faults' = faults
  BY <1>1 DEF Types, DeleteFile
<1>3. /\ messages' \in Seq(Ids) /\ i \in Ids /\ i \in ToSet(messages)
      /\ Len(messages) \in Nat
      /\ DOMAIN messages' = 1 .. (Len(messages) - 1)
      /\ \A n \in DOMAIN messages' : n + 1 \in DOMAIN messages /\ messages'[n] = messages[n + 1]
  BY <1>2, TailIs
<1>4. IsInjective(messages') /\ ToSet(messages') = ToSet(messages) \ {i}
  BY <1>1, <1>2, InjectiveTail DEF Queued
<1> HIDE DEF i
<1>5. Types'
  BY <1>1, <1>2, <1>3 DEF Types, Contents
<1>6. AcceptedIsDurable'
  <2> SUFFICES ASSUME NEW o \in owed'
               PROVE  /\ files'[o.id] = o.msg
                      /\ index'.st # "missing"
                      /\ index'.st = "ok" => o.id \in ToSet(index'.ids)
                      /\ up' => o.id \in ToSet(messages')
    BY DEF AcceptedIsDurable, ToSet
  <2>1. o \in owed /\ o.id # i /\ o.id \in Ids
    BY <1>1, <1>2 DEF Types
  <2>2. /\ files[o.id] = o.msg
        /\ index.st # "missing"
        /\ index.st = "ok" => o.id \in ToSet(index.ids)
        /\ up => o.id \in ToSet(messages)
    BY <1>1, <2>1 DEF Queued, AcceptedIsDurable
  <2>3. files'[o.id] = files[o.id]
    BY <1>2, <2>1 DEF Contents
  <2> QED
    BY <1>2, <1>4, <2>1, <2>2, <2>3
<1>7. QueueInOrder'
  <2>1. "recovered" \notin faults => Ascending(messages', nextID)
    BY <1>1, <1>2, AscendingTail DEF Queued, QueueInOrder
  <2> QED
    BY <1>1, <1>2, <2>1 DEF Queued, QueueInOrder, Ascending
<1>8. \A n \in DOMAIN messages' : messages'[n] <= nextID'
  BY <1>1, <1>2, <1>3 DEF Queued
<1>9. Queued'
  BY <1>1, <1>2, <1>4, <1>5, <1>6, <1>7, <1>8 DEF Queued
<1>10. Sized'
  <2>1. /\ Total(files', ToSet(messages')) = Total(files, ToSet(messages)) - Bytes(files)[i]
        /\ Bytes(files)[i] \in Nat /\ Bytes(files)[i] <= Total(files, ToSet(messages))
    <3>1. ToSet(messages) \in SUBSET Ids
      BY <1>2 DEF ToSet
    <3>2. /\ Total([files EXCEPT ![i] = NoFile], ToSet(messages) \ {i})
                = Total(files, ToSet(messages)) - Bytes(files)[i]
          /\ Bytes(files)[i] \in Nat /\ Bytes(files)[i] <= Total(files, ToSet(messages))
      BY <1>2, <1>3, <3>1, TotalRemove
    <3> QED
      BY <1>2, <1>4, <3>2, Zenon
  <2>2. SizeOf(i) = Bytes(files)[i]
    BY <1>3 DEF SizeOf, Exists, Bytes
  <2>3. Total(files, ToSet(messages)) \in Nat
    <3>1. ToSet(messages) \in SUBSET Ids
      BY <1>2 DEF ToSet
    <3> QED
      BY <1>2, <3>1, BytesAreWeights
  <2>4. /\ currentSize \in Nat /\ currentSize >= Total(files, ToSet(messages))
        /\ "undone" \notin faults => currentSize = Total(files, ToSet(messages))
    BY <1>1 DEF Sized
  <2>5. /\ currentSize' \in Nat /\ currentSize' >= Total(files', ToSet(messages'))
        /\ "undone" \notin faults' => currentSize' = Total(files', ToSet(messages'))
    BY <1>2, <2>1, <2>2, <2>3, <2>4
  <2> QED
    BY <2>5 DEF Sized
<1>11. \A j \in ToSet(messages') : files'[j] = files[j]
  <2>1. ToSet(messages') \in SUBSET Ids
    BY <1>3 DEF ToSet
  <2> QED
    BY <1>2, <1>4, <2>1 DEF Contents
<1> QED
  BY <1>2, <1>4, <1>9, <1>10, <1>11

LEMMA RemoveOldestKeeps == Inv /\ RemoveOldest => Parts'
<1> SUFFICES ASSUME Inv, RemoveOldest
             PROVE  Parts'
  OBVIOUS
<1>1. /\ MustRemove /\ todo' = <<"save quietly">> \o todo /\ up' = up /\ nextID' = nextID /\ msg' = msg
      /\ messages' = Tail(messages) /\ DeleteFile(Head(messages))
      /\ UNCHANGED <<index, up, closed, nextID, msg>>
  BY DEF RemoveOldest
<1>2. /\ todo' \in Seq(Steps) /\ StepsInOrder'
      /\ ToSet(todo') = {"save quietly"} \cup ToSet(todo)
      /\ up /\ "wipe" \notin ToSet(todo) /\ messages # <<>>
  BY <1>1, Removing
<1>3. /\ Queued' /\ Sized'
      /\ owed' \subseteq owed /\ ToSet(messages') \subseteq ToSet(messages)
      /\ \A i \in ToSet(messages') : files'[i] = files[i]
  BY <1>1, <1>2, OldestGoes
<1>4. SendGoesOn
  BY PartsOfInv
<1>5. \A x : x # "save quietly" => (x \in ToSet(todo') <=> x \in ToSet(todo))
  BY <1>2
<1>6. /\ "write" \in ToSet(todo') <=> "write" \in ToSet(todo)
      /\ "commit" \in ToSet(todo') <=> "commit" \in ToSet(todo)
      /\ "wipe" \in ToSet(todo') <=> "wipe" \in ToSet(todo)
  BY <1>5
<1>7. SendGoesOn'
  BY <1>1, <1>3, <1>4, <1>6 DEF SendGoesOn
<1> QED
  BY <1>2, <1>3, <1>7 DEF Parts, Stepping

LEMMA ReceiveKeeps == Inv /\ Receive => Parts'
<1> SUFFICES ASSUME Inv, Receive
             PROVE  Parts'
  OBVIOUS
<1>1. /\ up /\ todo = <<>> /\ messages # <<>> /\ up' = up
      /\ messages' = Tail(messages) /\ DeleteFile(Head(messages)) /\ todo' = <<"answer">>
      /\ UNCHANGED <<index, up, closed, nextID, msg>>
  BY DEF Receive, Idle
<1>2. "wipe" \notin ToSet(todo)
  BY <1>1, OrderlyNone
<1>3. Queued' /\ Sized'
  BY <1>1, <1>2, OldestGoes
<1>4. Orderly(todo') /\ ToSet(todo') = {"answer"}
  BY <1>1, OrderlyOne DEF Steps
<1>5. SendGoesOn'
  BY <1>4 DEF SendGoesOn
<1>6. Stepping'
  BY <1>1, <1>4, StepsBegin DEF Stepping
<1> QED
  BY <1>3, <1>5, <1>6 DEF Parts

(* An operation begins and neither the queue nor a file changes. *)
LEMMA Begins ==
    ASSUME Inv, Idle, Orderly(todo'), UNCHANGED <<disk, up, messages, nextID, currentSize, faults>>,
           closed' \in BOOLEAN, msg' \in Msgs \cup {NoFile}, owed' \subseteq owed,
           "wipe" \in ToSet(todo') => owed' = {},
           "write" \in ToSet(todo') => nextID < MaxId,
           ToSet(todo') \cap {"write", "commit"} # {} => msg' \in Msgs /\ "write" \in ToSet(todo')
    PROVE  Parts'
<1>1. Queued /\ Sized /\ Types
  BY PartsOfInv DEF Queued
<1>2. /\ files' = files /\ index' = index /\ up /\ up' = up /\ messages' = messages /\ nextID' = nextID
      /\ currentSize' = currentSize /\ faults' = faults /\ todo = <<>>
  BY DEF disk, Idle
<1>3. Stepping'
  BY <1>2, StepsBegin DEF Stepping
<1>4. Types'
  BY <1>1, <1>2 DEF Types
<1>5. AcceptedIsDurable'
  BY <1>1, <1>2 DEF Queued, AcceptedIsDurable
<1>6. QueueInOrder'
  BY <1>1, <1>2 DEF Queued, QueueInOrder
<1>7. Queued'
  BY <1>1, <1>2, <1>4, <1>5, <1>6 DEF Queued
<1>8. SendGoesOn'
  BY <1>2 DEF SendGoesOn
<1>9. Sized'
  <2>1. "wipe" \notin ToSet(todo)
    BY <1>2, OrderlyNone
  <2> QED
    BY <1>1, <1>2, <2>1 DEF Sized
<1> QED
  BY <1>3, <1>7, <1>8, <1>9 DEF Parts

LEMMA SendKeeps == Inv /\ (\E m \in Msgs : Send(m)) => Parts'
<1> SUFFICES ASSUME Inv, NEW m \in Msgs, Send(m)
             PROVE  Parts'
  OBVIOUS
<1>1. /\ Idle /\ nextID < MaxId /\ msg' = m
      /\ UNCHANGED <<disk, up, messages, nextID, currentSize, faults>> /\ closed' = closed /\ owed' = owed
  BY DEF Send, memory, history
<1>2. /\ Orderly(todo') /\ ToSet(todo') \subseteq {"write", "fit count", "fit size", "expire", "commit"}
      /\ {"write", "commit"} \subseteq ToSet(todo')
  BY OrderlySend, Zenon DEF Send
<1>3. closed \in BOOLEAN
  BY PartsOfInv DEF Queued, Types
<1>4. "wipe" \notin ToSet(todo') /\ "write" \in ToSet(todo')
  BY <1>2
<1> QED
  BY <1>1, <1>2, <1>3, <1>4, Begins

LEMMA CompactKeeps == Inv /\ Compact => Parts'
<1> SUFFICES ASSUME Inv, Compact
             PROVE  Parts'
  OBVIOUS
<1>1. /\ Idle /\ closed' = closed /\ msg' = msg /\ owed' = owed
      /\ UNCHANGED <<disk, up, messages, nextID, currentSize, faults>>
  BY DEF Compact, memory, history
<1>2. Orderly(todo') /\ ToSet(todo') \subseteq {"expire", "fit count", "fit size"}
  BY OrderlyCompact DEF Compact
<1>3. closed \in BOOLEAN /\ msg \in Msgs \cup {NoFile}
  BY PartsOfInv DEF Queued, Types
<1>4. "wipe" \notin ToSet(todo') /\ "write" \notin ToSet(todo') /\ "commit" \notin ToSet(todo')
  BY <1>2
<1>5. ToSet(todo') \cap {"write", "commit"} = {}
  BY <1>4
<1> QED
  BY <1>1, <1>2, <1>3, <1>4, <1>5, Begins

LEMMA CloseKeeps == Inv /\ (Close \/ Cleanup) => Parts'
<1> SUFFICES ASSUME Inv, Close \/ Cleanup
             PROVE  Parts'
  OBVIOUS
<1>1. closed \in BOOLEAN /\ msg \in Msgs \cup {NoFile}
  BY PartsOfInv DEF Queued, Types
<1>2. CASE Close
  <2>1. /\ Idle /\ closed' = TRUE /\ msg' = msg /\ owed' = owed
        /\ UNCHANGED <<disk, up, messages, nextID, currentSize, faults>>
    BY <1>2 DEF Close, history
  <2>2. Orderly(todo') /\ ToSet(todo') = {"save quietly"}
    BY <1>2, OrderlyOne DEF Close, Steps
  <2> QED
    BY <1>1, <2>1, <2>2, Begins
<1>3. CASE Cleanup
  <2>1. /\ Idle /\ closed' = closed /\ msg' = msg /\ owed' = {}
        /\ UNCHANGED <<disk, up, messages, nextID, currentSize, faults>>
    BY <1>3 DEF Cleanup, memory
  <2>2. Orderly(todo') /\ ToSet(todo') = {"wipe", "save quietly"}
    BY <1>3, OrderlyPair DEF Cleanup, Steps, MayFollow
  <2> QED
    BY <1>1, <2>1, <2>2, Begins
<1> QED
  BY <1>2, <1>3


LEMMA WriteMessageKeeps == Inv /\ WriteMessage => Parts'
<1> SUFFICES ASSUME Inv, WriteMessage
             PROVE  Parts'
  OBVIOUS
<1>1. Queued /\ SendGoesOn /\ Sized /\ Types
  BY PartsOfInv DEF Queued
<1> DEFINE i == nextID + 1
<1>2. /\ up /\ todo # <<>> /\ Head(todo) = "write" /\ todo' = Tail(todo)
      /\ nextID' = i /\ files' = [files EXCEPT ![i] = msg] /\ currentSize' = currentSize + Size[msg]
      /\ messages' = Append(messages, i)
      /\ index' = index /\ up' = up /\ closed' = closed /\ msg' = msg /\ owed' = owed /\ faults' = faults
  BY DEF WriteMessage, Do, Done, history
<1>3. /\ Stepping' /\ ToSet(todo) = {Head(todo)} \cup ToSet(todo')
      /\ \A x \in ToSet(todo') : MayFollow(Head(todo), x)
      /\ "wipe" \notin ToSet(todo')
  BY <1>2, StepDone DEF Stepping
<1>4. "write" \in ToSet(todo) /\ "wipe" \notin ToSet(todo) /\ "write" \notin ToSet(todo')
  BY <1>2, <1>3 DEF MayFollow
<1>5. nextID \in Nat /\ MaxId \in Nat /\ i \in Ids /\ i \in 0 .. MaxId /\ msg \in Msgs
  BY <1>1, <1>4, PersistentAssumption DEF SendGoesOn, Types, PersistentAssumption, Ids
<1>6. messages \in Seq(Ids) /\ ToSet(messages) \in SUBSET Ids
  BY <1>1 DEF Types, ToSet
<1>7. \A j \in ToSet(messages) : j <= nextID /\ j \in Int
  BY <1>1, <1>5, <1>6 DEF Queued, ToSet, Ids
<1>8. i \notin ToSet(messages)
  BY <1>5, <1>7
<1>9. /\ messages' \in Seq(Ids) /\ IsInjective(messages') /\ ToSet(messages') = ToSet(messages) \cup {i}
  <2>1. IsInjective(messages)
    BY <1>1 DEF Queued
  <2> QED
    BY <1>2, <1>5, <1>6, <1>8, <2>1, AppendIs
<1>10. /\ \A o \in owed : /\ o.id \in Ids /\ o.id < i /\ files[o.id] = o.msg /\ index.st # "missing"
                          /\ index.st = "ok" => o.id \in ToSet(index.ids)
                          /\ o.id \in ToSet(messages)
  <2> SUFFICES ASSUME NEW o \in owed
               PROVE  /\ o.id \in Ids /\ o.id < i /\ files[o.id] = o.msg /\ index.st # "missing"
                      /\ index.st = "ok" => o.id \in ToSet(index.ids)
                      /\ o.id \in ToSet(messages)
    OBVIOUS
  <2>1. /\ files[o.id] = o.msg /\ index.st # "missing"
        /\ index.st = "ok" => o.id \in ToSet(index.ids)
        /\ o.id \in ToSet(messages)
    BY <1>1, <1>2 DEF Queued, AcceptedIsDurable
  <2>2. o.id \in Ids
    BY <1>6, <2>1
  <2>3. o.id < i
    BY <1>5, <1>7, <2>1
  <2> QED
    BY <2>1, <2>2, <2>3
<1>11. files \in Contents /\ files'[i] = msg /\ \A j \in Ids : j # i => files'[j] = files[j]
  BY <1>1, <1>2, <1>5 DEF Types, Contents
<1>12. AcceptedIsDurable'
  <2> SUFFICES ASSUME NEW o \in owed
               PROVE  /\ files'[o.id] = o.msg
                      /\ index'.st # "missing"
                      /\ index'.st = "ok" => o.id \in ToSet(index'.ids)
                      /\ up' => o.id \in ToSet(messages')
    BY <1>2 DEF AcceptedIsDurable, ToSet
  <2>1. o.id # i
    BY <1>5, <1>10
  <2> QED
    BY <1>2, <1>9, <1>10, <1>11, <2>1
<1>13. QueueInOrder'
  <2>1. "recovered" \notin faults => Ascending(messages', nextID')
    BY <1>1, <1>2, <1>5, <1>6, AscendingAppend DEF Queued, QueueInOrder
  <2> QED
    BY <1>1, <1>2, <2>1 DEF Queued, QueueInOrder, Ascending
<1>14. \A n \in DOMAIN messages' : messages'[n] <= nextID'
  <2>1. \A j \in ToSet(messages') : j <= nextID'
    BY <1>2, <1>5, <1>7, <1>9
  <2> QED
    BY <2>1 DEF ToSet
<1>15. Types'
  BY <1>1, <1>2, <1>5, <1>9 DEF Types, Contents
<1>16. Queued'
  BY <1>1, <1>2, <1>9, <1>12, <1>13, <1>14, <1>15 DEF Queued
<1>17. SendGoesOn'
  BY <1>2, <1>3, <1>4, <1>5, <1>10, <1>11 DEF SendGoesOn
<1>18. Sized'
  <2>1. Total(files', ToSet(messages')) = Total(files, ToSet(messages)) + Size[msg]
    <3>1. i \in Ids \ ToSet(messages)
      BY <1>5, <1>8
    <3>2. Total([files EXCEPT ![i] = msg], ToSet(messages) \cup {i}) = Total(files, ToSet(messages)) + Size[msg]
      BY <1>5, <1>6, <1>11, <3>1, TotalAdd
    <3> QED
      BY <1>2, <1>9, <3>2, Zenon
  <2>2. Total(files, ToSet(messages)) \in Nat
    BY <1>6, <1>11, BytesAreWeights
  <2>3. Size[msg] \in Nat
    BY <1>5, PersistentAssumption DEF PersistentAssumption
  <2>4. /\ currentSize \in Nat /\ currentSize >= Total(files, ToSet(messages))
        /\ "undone" \notin faults => currentSize = Total(files, ToSet(messages))
    BY <1>1, <1>2, <1>4 DEF Sized
  <2>5. /\ currentSize' \in Nat /\ currentSize' >= Total(files', ToSet(messages'))
        /\ "undone" \notin faults' => currentSize' = Total(files', ToSet(messages'))
    BY <1>2, <2>1, <2>2, <2>3, <2>4
  <2> QED
    BY <2>5 DEF Sized
<1> QED
  BY <1>3, <1>16, <1>17, <1>18 DEF Parts

LEMMA WriteFailsKeeps == Inv /\ WriteFails => Parts'
<1> SUFFICES ASSUME Inv, WriteFails
             PROVE  Parts'
  OBVIOUS
<1>1. Queued /\ SendGoesOn /\ Sized /\ Types
  BY PartsOfInv DEF Queued
<1>2. /\ Do("write") /\ up /\ todo' = <<>> /\ nextID' = nextID + 1
      /\ files' = files /\ index' = index /\ up' = up /\ messages' = messages /\ closed' = closed
      /\ currentSize' = currentSize /\ msg' = msg /\ owed' = owed /\ faults' = faults
  BY DEF WriteFails, Do, disk, history
<1>3. "write" \in ToSet(todo) /\ "wipe" \notin ToSet(todo)
  BY <1>2, Doing
<1>4. nextID \in Nat /\ nextID' \in 0 .. MaxId /\ nextID <= nextID'
  BY <1>1, <1>2, <1>3, PersistentAssumption DEF SendGoesOn, Types, PersistentAssumption
<1>5. \A n \in DOMAIN messages : messages[n] \in Int /\ messages[n] <= nextID
  <2>1. \A n \in DOMAIN messages : messages[n] \in Ids
    BY <1>1 DEF Types
  <2> QED
    BY <1>1, <2>1 DEF Queued, Ids
<1>6. \A n \in DOMAIN messages : messages[n] <= nextID'
  BY <1>2, <1>4, <1>5
<1>7. Queued'
  BY <1>1, <1>2, <1>4, <1>6 DEF Queued, Types, AcceptedIsDurable, QueueInOrder, Ascending
<1>8. Orderly(todo') /\ ToSet(todo') = {}
  BY <1>2, OrderlyNone
<1>9. SendGoesOn'
  BY <1>8 DEF SendGoesOn
<1>10. Sized'
  BY <1>1, <1>2, <1>3 DEF Sized
<1>11. Stepping'
  BY <1>2, <1>8, StepsBegin DEF Stepping
<1> QED
  BY <1>7, <1>9, <1>10, <1>11 DEF Parts

(* Nothing is left to do after the commit. *)
LEMMA CommitIsLast ==
    ASSUME Inv, Do("commit"), Done, up' = up
    PROVE  /\ Stepping' /\ ToSet(todo') = {} /\ "wipe" \notin ToSet(todo) /\ up
           /\ msg \in Msgs /\ \A o \in owed : o.id < nextID
           /\ nextID \in ToSet(messages) => files[nextID] = msg
<1>1. up /\ todo # <<>> /\ Head(todo) = "commit" /\ todo' = Tail(todo)
  BY DEF Do, Done
<1>2. /\ Stepping' /\ ToSet(todo) = {Head(todo)} \cup ToSet(todo')
      /\ \A x \in ToSet(todo') : MayFollow(Head(todo), x)
  BY <1>1, StepDone DEF Stepping
<1>3. ToSet(todo') = {}
  BY <1>1, <1>2 DEF MayFollow
<1>4. "commit" \in ToSet(todo) /\ "write" \notin ToSet(todo) /\ "wipe" \notin ToSet(todo)
  BY <1>1, <1>2, <1>3
<1> QED
  BY <1>1, <1>2, <1>3, <1>4, PartsOfInv DEF SendGoesOn

LEMMA CommitKeeps == Inv /\ Commit => Parts'
<1> SUFFICES ASSUME Inv, Commit
             PROVE  Parts'
  OBVIOUS
<1>1. Queued /\ Sized /\ Types
  BY PartsOfInv DEF Queued
<1>2. /\ Do("commit") /\ Done
      /\ index'.st = "ok" /\ index'.ids = messages /\ index'.next = nextID /\ index'.closed = closed
      /\ owed' = owed \cup {[id |-> i, msg |-> msg] : i \in ToSet(messages) \cap {nextID}}
      /\ files' = files /\ up' = up /\ messages' = messages /\ closed' = closed /\ nextID' = nextID
      /\ currentSize' = currentSize /\ msg' = msg /\ faults' = faults
  BY DEF Commit, SaveIndex, memory
<1>3. /\ Stepping' /\ ToSet(todo') = {} /\ "wipe" \notin ToSet(todo) /\ up
      /\ msg \in Msgs
      /\ nextID \in ToSet(messages) => files[nextID] = msg
  BY <1>2, CommitIsLast
<1>4. ToSet(messages) \subseteq Ids
  BY <1>1 DEF Types, ToSet
<1>5. \A o \in owed' : /\ o \in [id : Ids, msg : Msgs] /\ files[o.id] = o.msg
                       /\ o.id \in ToSet(messages)
  <2> SUFFICES ASSUME NEW o \in owed'
               PROVE  o \in [id : Ids, msg : Msgs] /\ files[o.id] = o.msg /\ o.id \in ToSet(messages)
    OBVIOUS
  <2>1. CASE o \in owed
    BY <1>1, <1>3, <2>1 DEF Types, Queued, AcceptedIsDurable
  <2>2. CASE o = [id |-> nextID, msg |-> msg] /\ nextID \in ToSet(messages)
    BY <1>3, <1>4, <2>2
  <2> QED
    BY <1>2, <2>1, <2>2
<1>6. AcceptedIsDurable'
  BY <1>2, <1>5 DEF AcceptedIsDurable
<1>7. Types'
  BY <1>1, <1>2, <1>5 DEF Types
<1>8. QueueInOrder'
  BY <1>1, <1>2 DEF Queued, QueueInOrder
<1>9. Queued'
  BY <1>1, <1>2, <1>6, <1>7, <1>8 DEF Queued
<1>10. SendGoesOn'
  BY <1>3 DEF SendGoesOn
<1>11. Sized'
  BY <1>1, <1>2, <1>3 DEF Sized
<1> QED
  BY <1>3, <1>9, <1>10, <1>11 DEF Parts

LEMMA CommitFailsKeeps == Inv /\ CommitFails => Parts'
<1> SUFFICES ASSUME Inv, CommitFails
             PROVE  Parts'
  OBVIOUS
<1>1. Queued /\ Sized /\ Types
  BY PartsOfInv DEF Queued
<1>2. /\ Do("commit") /\ Done
      /\ files' = [files EXCEPT ![nextID] = NoFile] /\ faults' = faults \cup {"undone"}
      /\ index' = index /\ owed' = owed /\ up' = up /\ messages' = messages /\ closed' = closed
      /\ nextID' = nextID /\ currentSize' = currentSize /\ msg' = msg
  BY DEF CommitFails, memory
<1>3. /\ Stepping' /\ ToSet(todo') = {} /\ "wipe" \notin ToSet(todo) /\ up
      /\ \A o \in owed : o.id < nextID
  BY <1>2, CommitIsLast
<1>4. \A o \in owed : o.id \in Ids /\ files'[o.id] = files[o.id]
  <2> SUFFICES ASSUME NEW o \in owed
               PROVE  o.id \in Ids /\ files'[o.id] = files[o.id]
    OBVIOUS
  <2>1. o.id \in Ids /\ o.id # nextID
    <3>1. o.id \in Ids /\ nextID \in Nat
      BY <1>1, PersistentAssumption DEF Types, PersistentAssumption
    <3>2. o.id < nextID
      BY <1>3
    <3> QED
      BY <3>1, <3>2, PersistentAssumption DEF Ids, PersistentAssumption
  <2> QED
    BY <1>1, <1>2, <2>1 DEF Types, Contents
<1>5. AcceptedIsDurable'
  BY <1>1, <1>2, <1>4 DEF Queued, AcceptedIsDurable
<1>6. Types'
  BY <1>1, <1>2 DEF Types, Contents
<1>7. QueueInOrder'
  BY <1>1, <1>2 DEF Queued, QueueInOrder
<1>8. Queued'
  BY <1>1, <1>2, <1>5, <1>6, <1>7 DEF Queued
<1>9. SendGoesOn'
  BY <1>3 DEF SendGoesOn
<1>10. Sized'
  <2>1. files \in Contents /\ ToSet(messages) \in SUBSET Ids
    BY <1>1 DEF Types, ToSet
  <2>2. files' \in Contents
    BY <1>6 DEF Types
  <2>3. Total(files', ToSet(messages)) <= Total(files, ToSet(messages))
    <3>1. Total(files, ToSet(messages)) \in Nat
      BY <2>1, BytesAreWeights
    <3>2. CASE nextID \in Ids
      BY <1>2, <2>1, <3>2, TotalErase
    <3>3. CASE nextID \notin Ids
      <4>1. files' = files
        BY <1>2, <2>1, <3>3 DEF Contents
      <4> QED
        BY <3>1, <4>1
    <3> QED
      BY <3>2, <3>3
  <2>4. /\ Total(files, ToSet(messages)) \in Nat /\ Total(files', ToSet(messages)) \in Nat
    BY <2>1, <2>2, BytesAreWeights
  <2>5. currentSize \in Nat /\ currentSize >= Total(files, ToSet(messages))
    BY <1>1, <1>3 DEF Sized
  <2>6. currentSize' \in Nat /\ currentSize' >= Total(files', ToSet(messages')) /\ "undone" \in faults'
    BY <1>2, <2>3, <2>4, <2>5
  <2> QED
    BY <2>6 DEF Sized
<1> QED
  BY <1>3, <1>8, <1>9, <1>10 DEF Parts


LEMMA WipeKeeps == Inv /\ Wipe => Parts'
<1> SUFFICES ASSUME Inv, Wipe
             PROVE  Parts'
  OBVIOUS
<1>1. Queued /\ SendGoesOn /\ Sized /\ Types /\ Stepping
  BY PartsOfInv DEF Queued
<1>2. /\ Do("wipe") /\ up /\ todo # <<>> /\ Head(todo) = "wipe"
      /\ index' = index /\ up' = up /\ closed' = closed /\ msg' = msg /\ owed' = owed /\ faults' = faults
  BY DEF Wipe, Do, history
<1>3. /\ ToSet(todo) = {"wipe"} \cup ToSet(Tail(todo))
      /\ \A x \in ToSet(Tail(todo)) : MayFollow("wipe", x)
  BY <1>2, TodoIsOrderly, OrderlyTail
<1>4. /\ "write" \notin ToSet(todo) /\ "commit" \notin ToSet(todo) /\ "wipe" \in ToSet(todo)
      /\ "wipe" \notin ToSet(Tail(todo))
  BY <1>3 DEF MayFollow
<1>5. owed = {}
  BY <1>1, <1>4 DEF SendGoesOn
<1>6. AcceptedIsDurable'
  BY <1>2, <1>5 DEF AcceptedIsDurable
<1> DEFINE left == {n \in DOMAIN messages : Exists(messages[n])}
<1>7. CASE left # {}
  <2>1. /\ files' = [files EXCEPT ![messages[Min(left)]] = NoFile]
        /\ messages' = messages /\ nextID' = nextID /\ currentSize' = currentSize /\ todo' = todo
    BY <1>7 DEF Wipe
  <2>2. Types'
    <3> DEFINE i == messages[Min(left)]
    <3>1. files \in Contents /\ files' = [files EXCEPT ![i] = NoFile]
      BY <1>1, <2>1 DEF Types
    <3> HIDE DEF i
    <3>2. files' \in Contents
      BY <3>1 DEF Contents
    <3> QED
      BY <1>1, <1>2, <2>1, <3>2 DEF Types
  <2>3. Queued'
    BY <1>1, <1>2, <1>6, <2>1, <2>2 DEF Queued, QueueInOrder
  <2>4. SendGoesOn'
    BY <1>2, <1>4, <1>5, <2>1 DEF SendGoesOn
  <2>5. Sized'
    BY <1>1, <1>4, <2>1 DEF Sized
  <2>6. Stepping'
    BY <1>1, <1>2, <2>1 DEF Stepping, StepsInOrder, Left
  <2> QED
    BY <2>3, <2>4, <2>5, <2>6 DEF Parts
<1>8. CASE left = {}
  <2>1. /\ files' = files /\ messages' = <<>> /\ nextID' = 0 /\ currentSize' = 0 /\ todo' = Tail(todo)
    BY <1>8 DEF Wipe, Done
  <2>2. Types'
    BY <1>1, <1>2, <2>1, NoneIsAscending, PersistentAssumption DEF Types, PersistentAssumption
  <2>3. QueueInOrder'
    BY <1>1, <1>2, <2>1, NoneIsAscending DEF Queued, QueueInOrder
  <2>4. Queued'
    BY <1>1, <1>2, <1>6, <2>1, <2>2, <2>3, NoneIsAscending DEF Queued
  <2>5. SendGoesOn'
    BY <1>3, <1>4, <2>1 DEF SendGoesOn
  <2>6. Total(files', ToSet(messages')) = 0
    BY <2>1, NoneIsAscending, TotalNone
  <2>7. Sized'
    BY <2>1, <2>6 DEF Sized
  <2>8. Stepping'
    BY <1>2, <2>1, StepDone DEF Stepping
  <2> QED
    BY <2>4, <2>5, <2>7, <2>8 DEF Parts
<1> QED
  BY <1>7, <1>8

--------------------------------------------------------------------------------
(* Crashes, damage and restarts *)

LEMMA AtRest ==
    ASSUME todo' = <<>>
    PROVE  Stepping' /\ SendGoesOn' /\ ToSet(todo') = {}
<1>1. Orderly(todo') /\ ToSet(todo') = {}
  BY OrderlyNone
<1>2. DOMAIN todo' = {}
  OBVIOUS
<1> QED
  BY <1>1, <1>2 DEF Orderly, SendGoesOn, Stepping, StepsInOrder, Left

LEMMA CrashKeeps == Inv /\ Crash => Parts'
<1> SUFFICES ASSUME Inv, Crash
             PROVE  Parts'
  OBVIOUS
<1>1. Queued /\ Types
  BY PartsOfInv DEF Queued
<1>2. /\ up' = FALSE /\ messages' = <<>> /\ closed' = FALSE /\ nextID' = 0 /\ currentSize' = 0
      /\ todo' = <<>> /\ msg' = NoFile
      /\ files' = files /\ index' = index /\ owed' = owed /\ faults' = faults
  BY DEF Crash, disk, history
<1>3. Types'
  <2>1. messages' \in Seq(Ids) /\ nextID' \in 0 .. MaxId
    BY <1>2, NoneIsAscending, PersistentAssumption DEF PersistentAssumption
  <2> QED
    BY <1>1, <1>2, <2>1 DEF Types
<1>4. AcceptedIsDurable'
  BY <1>1, <1>2 DEF Queued, AcceptedIsDurable
<1>5. QueueInOrder'
  BY <1>1, <1>2, NoneIsAscending DEF Queued, QueueInOrder
<1>6. Queued'
  BY <1>1, <1>2, <1>3, <1>4, <1>5, NoneIsAscending DEF Queued
<1>7. Sized'
  BY <1>2 DEF Sized
<1> QED
  BY <1>2, <1>6, <1>7, AtRest DEF Parts

LEMMA NotUp == Inv /\ ~up => todo = <<>>
BY DEF Inv, StepsInOrder

LEMMA DamageKeeps == Inv /\ Damage => Parts'
<1> SUFFICES ASSUME Inv, Damage
             PROVE  Parts'
  OBVIOUS
<1>1. Queued /\ Types /\ Sized
  BY PartsOfInv DEF Queued
<1>2. /\ ~up /\ index'.st = "damaged" /\ index'.ids = <<>> /\ index'.next = 0 /\ index'.closed = FALSE
      /\ files' = files /\ up' = up /\ messages' = messages /\ closed' = closed /\ nextID' = nextID
      /\ currentSize' = currentSize /\ todo' = <<>> /\ msg' = msg /\ owed' = owed /\ faults' = faults
  BY NotUp DEF Damage, DamagedIndex, NoIndex, memory, history
<1>3. Types'
  <2>1. index'.ids \in Seq(Ids) /\ index'.next \in 0 .. MaxId
    BY <1>2, NoneIsAscending, PersistentAssumption DEF PersistentAssumption
  <2>2. messages' \in Seq(Ids) /\ nextID' \in 0 .. MaxId
    BY <1>1, <1>2 DEF Types
  <2> QED
    BY <1>1, <1>2, <2>1, <2>2 DEF Types
<1>4. AcceptedIsDurable'
  BY <1>1, <1>2 DEF Queued, AcceptedIsDurable
<1>5. QueueInOrder'
  BY <1>1, <1>2, NoneIsAscending DEF Queued, QueueInOrder
<1>6. Queued'
  BY <1>1, <1>2, <1>3, <1>4, <1>5, NoneIsAscending DEF Queued
<1>7. Sized'
  BY <1>1, <1>2 DEF Sized
<1> QED
  BY <1>2, <1>6, <1>7, AtRest DEF Parts

(* A restart with a queue that lists what is owed *)
LEMMA LoadKeeps ==
    ASSUME Inv, ~up, NEW ids \in Seq(Ids), NEW next \in 0 .. MaxId, NEW c \in BOOLEAN,
           Load(ids, next, c),
           IsInjective(ids), \A n \in DOMAIN ids : ids[n] <= next,
           \A o \in owed : o.id \in ToSet(ids),
           faults' \subseteq {"undone", "recovered"},
           "recovered" \notin faults' => "recovered" \notin faults /\ Ascending(ids, next)
    PROVE  Parts'
<1>1. Queued /\ Types
  BY PartsOfInv DEF Queued
<1>2. /\ messages' = ids /\ nextID' = next /\ closed' = c /\ currentSize' = TotalSize(ToSet(ids))
      /\ up' = TRUE /\ files' = files /\ index' = index /\ todo' = <<>> /\ msg' = msg /\ owed' = owed
  BY NotUp DEF Load, disk
<1>3. Types'
  BY <1>1, <1>2 DEF Types
<1>4. AcceptedIsDurable'
  BY <1>1, <1>2 DEF Queued, AcceptedIsDurable
<1>5. QueueInOrder'
  BY <1>1, <1>2 DEF Queued, QueueInOrder
<1>6. Queued'
  BY <1>1, <1>2, <1>3, <1>4, <1>5 DEF Queued
<1>7. Sized'
  <2>1. currentSize' = Total(files, ToSet(ids))
    BY <1>2, TotalIs
  <2>2. Total(files, ToSet(ids)) \in Nat
    <3>1. files \in Contents /\ ToSet(ids) \in SUBSET Ids
      BY <1>1 DEF Types, ToSet
    <3> QED
      BY <3>1, BytesAreWeights
  <2>3. Total(files', ToSet(messages')) = Total(files, ToSet(ids))
    BY <1>2, Zenon
  <2> QED
    BY <2>1, <2>2, <2>3 DEF Sized
<1> QED
  BY <1>2, <1>6, <1>7, AtRest DEF Parts

LEMMA OpenFreshKeeps == Inv /\ OpenFresh => Parts'
<1> SUFFICES ASSUME Inv, OpenFresh
             PROVE  Parts'
  OBVIOUS
<1>1. Queued /\ Types
  BY PartsOfInv DEF Queued
<1>2. ~up /\ index.st = "missing" /\ Load(<<>>, 0, FALSE) /\ faults' = faults \ {"undone"}
  BY DEF OpenFresh, Restarted
<1>3. owed = {}
  BY <1>1, <1>2 DEF Queued, AcceptedIsDurable
<1>4. faults' \subseteq {"undone", "recovered"} /\ ("recovered" \notin faults' => "recovered" \notin faults)
  BY <1>1, <1>2 DEF Types
<1>5. 0 \in 0 .. MaxId /\ FALSE \in BOOLEAN
  BY PersistentAssumption DEF PersistentAssumption
<1> QED
  BY <1>2, <1>3, <1>4, <1>5, NoneIsAscending, LoadKeeps

LEMMA OpenIndexKeeps == Inv /\ OpenIndex => Parts'
<1> SUFFICES ASSUME Inv, OpenIndex
             PROVE  Parts'
  OBVIOUS
<1>1. Queued /\ Types
  BY PartsOfInv DEF Queued
<1>2. /\ ~up /\ index.st = "ok" /\ Load(index.ids, index.next, index.closed)
      /\ faults' = faults \ {"undone"}
  BY DEF OpenIndex, Restarted
<1>3. \A o \in owed : o.id \in ToSet(index.ids)
  BY <1>1, <1>2 DEF Queued, AcceptedIsDurable
<1>4. /\ faults' \subseteq {"undone", "recovered"}
      /\ "recovered" \notin faults' => "recovered" \notin faults /\ Ascending(index.ids, index.next)
  BY <1>1, <1>2 DEF Types, Queued, QueueInOrder
<1>5. /\ index.ids \in Seq(Ids) /\ index.next \in 0 .. MaxId /\ index.closed \in BOOLEAN
      /\ IsInjective(index.ids) /\ \A n \in DOMAIN index.ids : index.ids[n] <= index.next
  BY <1>1 DEF Types, Queued
<1> QED
  BY <1>2, <1>3, <1>4, <1>5, LoadKeeps


LEMMA LargestIsMax ==
    ASSUME NEW S \in SUBSET Ids, S # {}
    PROVE  Max(S) \in S /\ \A i \in S : i <= Max(S)
<1> DEFINE R == {p \in Nat \X Nat : p[1] < p[2]}
           T == {MaxId - i : i \in S}
<1>1. IsWellFoundedOn(R, Nat)
  BY NatLessThanWellFounded DEF OpToRel
<1>2. MaxId \in Nat /\ Ids = 1 .. MaxId
  BY PersistentAssumption DEF PersistentAssumption, Ids
<1>3. T \subseteq Nat /\ T # {}
  <2>1. \A i \in S : MaxId - i \in Nat
    BY <1>2
  <2>2. PICK i \in S : TRUE
    OBVIOUS
  <2> QED
    BY <2>1, <2>2
<1> HIDE DEF T
<1>4. PICK x \in T : \A y \in T : ~ (<<y, x>> \in R)
  BY <1>1, <1>3, WFMin
<1>5. \A y \in T : x <= y
  <2> TAKE y \in T
  <2>1. y \in Nat /\ x \in Nat
    BY <1>3
  <2>2. ~ (<<y, x>> \in R)
    BY <1>4
  <2>3. ~ (y < x)
    BY <2>1, <2>2
  <2> QED
    BY <2>1, <2>3
<1>6. PICK m \in S : x = MaxId - m
  BY <1>4 DEF T
<1>7. \A i \in S : m >= i
  <2> TAKE i \in S
  <2>1. MaxId - m <= MaxId - i
    BY <1>5, <1>6 DEF T
  <2> QED
    BY <1>2, <2>1
<1>8. Max(S) \in S /\ \A i \in S : Max(S) >= i
  BY <1>7 DEF Max
<1> QED
  BY <1>2, <1>8

(* What SetToSeqs lists *)
LEMMA EnumerationIsComplete ==
    ASSUME NEW S \in SUBSET Ids, NEW ids \in SetToSeqs(S)
    PROVE  ids \in Seq(Ids) /\ IsInjective(ids) /\ ToSet(ids) = S
<1> DEFINE n == Cardinality(S)
<1>1. IsFiniteSet(Ids)
  <2>1. 1 \in Int /\ MaxId \in Int
    BY PersistentAssumption DEF PersistentAssumption
  <2>2. IsFiniteSet(1 .. MaxId)
    BY <2>1, FS_Interval, Zenon
  <2> QED
    BY <2>2 DEF Ids
<1>2. IsFiniteSet(S)
  BY <1>1, FS_Subset
<1>3. n \in Nat
  BY <1>2, FS_CardinalityType
<1>4. Cardinality(1 .. n) = n
  <2>1. 1 \in Int /\ n \in Int
    BY <1>3
  <2>2. Cardinality(1 .. n) = IF 1 > n THEN 0 ELSE n - 1 + 1
    BY <2>1, FS_Interval, Zenon
  <2> QED
    BY <1>3, <2>2
<1>5. ids \in [1 .. n -> S] /\ \A i, j \in 1 .. n : i # j => ids[i] # ids[j]
  BY DEF SetToSeqs
<1>6. IsInjective(ids) /\ ids \in Injection(1 .. n, S)
  BY <1>5 DEF IsInjective, Injection
<1>7. ids \in Surjection(1 .. n, S)
  BY <1>2, <1>4, <1>6, FS_Injection
<1>8. ToSet(ids) = S
  BY <1>5, <1>7 DEF Surjection, ToSet
<1> HIDE DEF n
<1>9. ids \in Seq(Ids)
  <2>1. ids \in [1 .. n -> Ids]
    BY <1>5
  <2> QED
    BY <1>3, <2>1
<1> QED
  BY <1>6, <1>8, <1>9

LEMMA OpenRecoverKeeps == Inv /\ OpenRecover => Parts'
<1> SUFFICES ASSUME Inv, OpenRecover
             PROVE  Parts'
  OBVIOUS
<1> DEFINE found == {i \in Ids : Exists(i)}
           next == IF found = {} THEN 0 ELSE Max(found)
<1>1. Queued /\ Types
  BY PartsOfInv DEF Queued
<1>2. /\ ~up /\ faults' = {"recovered"}
      /\ \E ids \in SetToSeqs(found) : Load(ids, next, FALSE)
  BY DEF OpenRecover
<1>3. PICK ids \in SetToSeqs(found) : Load(ids, next, FALSE)
  BY <1>2
<1>4. ids \in Seq(Ids) /\ IsInjective(ids) /\ ToSet(ids) = found
  <2>1. found \in SUBSET Ids
    OBVIOUS
  <2> HIDE DEF found, next
  <2> QED
    BY <2>1, EnumerationIsComplete
<1>5. \A o \in owed : o.id \in ToSet(ids)
  <2> SUFFICES ASSUME NEW o \in owed
               PROVE  o.id \in found
    BY <1>4
  <2>1. o.id \in Ids /\ o.msg \in Msgs /\ files[o.id] = o.msg
    BY <1>1 DEF Types, Queued, AcceptedIsDurable
  <2> QED
    BY <2>1, PersistentAssumption DEF Exists, PersistentAssumption
<1>6. next \in 0 .. MaxId /\ \A i \in found : i <= next
  <2>1. found \in SUBSET Ids
    OBVIOUS
  <2>2. CASE found = {}
    BY <2>2, PersistentAssumption DEF PersistentAssumption
  <2>3. CASE found # {}
    <3> HIDE DEF found
    <3>1. Max(found) \in found /\ \A i \in found : i <= Max(found)
      BY <2>1, <2>3, LargestIsMax
    <3>2. next = Max(found)
      BY <2>3
    <3>3. Max(found) \in 0 .. MaxId
      <4>1. Max(found) \in Ids
        BY <2>1, <3>1
      <4>2. \A i \in Ids : i \in 0 .. MaxId
        BY PersistentAssumption DEF Ids, PersistentAssumption
      <4> QED
        BY <4>1, <4>2
    <3> QED
      BY <3>1, <3>2, <3>3
  <2> QED
    BY <2>2, <2>3
<1> HIDE DEF found, next
<1>7. \A n \in DOMAIN ids : ids[n] <= next
  <2>1. \A n \in DOMAIN ids : ids[n] \in ToSet(ids)
    BY DEF ToSet
  <2> QED
    BY <1>4, <1>6, <2>1
<1>8. faults' \subseteq {"undone", "recovered"} /\ "recovered" \in faults'
  BY <1>2
<1>9. FALSE \in BOOLEAN
  OBVIOUS
<1> QED
  BY <1>2, <1>3, <1>4, <1>5, <1>6, <1>7, <1>8, <1>9, LoadKeeps

--------------------------------------------------------------------------------
(* The invariant *)

LEMMA InitParts == Init => Parts
<1> SUFFICES ASSUME Init
             PROVE  Parts
  OBVIOUS
<1>1. /\ messages = <<>> /\ index.ids = <<>> /\ todo = <<>> /\ owed = {} /\ ~up
      /\ index.st = "missing" /\ index.next = 0 /\ index.closed = FALSE /\ faults = {}
      /\ nextID = 0 /\ currentSize = 0 /\ closed = FALSE /\ up = FALSE /\ msg = NoFile
      /\ files = [i \in Ids |-> NoFile]
  BY DEF Init, NoIndex
<1>2. Types
  <2>1. index.ids \in Seq(Ids) /\ index.next \in 0 .. MaxId
    BY <1>1, NoneIsAscending, PersistentAssumption DEF PersistentAssumption
  <2>2. messages \in Seq(Ids) /\ nextID \in 0 .. MaxId
    BY <1>1, NoneIsAscending, PersistentAssumption DEF PersistentAssumption
  <2> QED
    BY <1>1, <2>1, <2>2 DEF Types, Contents
<1>3. Queued
  BY <1>1, <1>2, NoneIsAscending DEF Queued, AcceptedIsDurable, QueueInOrder
<1>4. Sized
  BY <1>1 DEF Sized
<1>5. Orderly(todo) /\ ToSet(todo) = {} /\ DOMAIN todo = {}
  BY <1>1, OrderlyNone
<1>6. SendGoesOn /\ Stepping
  BY <1>1, <1>5 DEF SendGoesOn, Stepping, StepsInOrder, Orderly, Left
<1> QED
  BY <1>3, <1>4, <1>6 DEF Parts

LEMMA StepParts == Parts /\ [Next]_vars => Parts'
<1> SUFFICES ASSUME Parts, [Next]_vars
             PROVE  Parts'
  OBVIOUS
<1>1. Inv
  BY PartsOfInv DEF Parts
<1>2. CASE Open
  BY <1>1, <1>2, OpenFreshKeeps, OpenIndexKeeps, OpenRecoverKeeps DEF Open
<1>3. CASE Operation
  BY <1>1, <1>3, SendKeeps, WriteMessageKeeps, WriteFailsKeeps, CommitKeeps, CommitFailsKeeps,
     ReceiveKeeps, AnswerKeeps, CloseKeeps, WipeKeeps, CompactKeeps, RemoveOldestKeeps,
     RetentionMetKeeps, SaveQuietlyKeeps DEF Operation
<1>4. CASE Crash
  BY <1>1, <1>4, CrashKeeps
<1>5. CASE Damage
  BY <1>1, <1>5, DamageKeeps
<1>6. CASE UNCHANGED vars
  <2>1. /\ files' = files /\ index' = index /\ up' = up /\ messages' = messages /\ closed' = closed
        /\ nextID' = nextID /\ currentSize' = currentSize /\ todo' = todo /\ msg' = msg
        /\ owed' = owed /\ faults' = faults
    BY <1>6 DEF vars, disk, memory, history
  <2>2. Queued /\ SendGoesOn /\ Sized /\ Stepping /\ Types
    BY DEF Parts, Queued
  <2>3. Queued'
    BY <2>1, <2>2 DEF Queued, Types, AcceptedIsDurable, QueueInOrder
  <2>4. SendGoesOn' /\ Sized'
    BY <2>1, <2>2 DEF SendGoesOn, Sized
  <2>5. Stepping'
    BY <2>1, <2>2 DEF Stepping, StepsInOrder, Left
  <2> QED
    BY <2>3, <2>4, <2>5 DEF Parts
<1> QED
  BY <1>2, <1>3, <1>4, <1>5, <1>6 DEF Next

(* Inv holds in every state the channel and its disk can be in, whatever fails and
   however often the process stops and starts again. *)
THEOREM Invariance == Spec => []Inv
<1>1. Parts => Inv
  BY PartsOfInv DEF Parts
<1> QED
  BY <1>1, InitParts, StepParts, PTL DEF Spec

(* Disk, memory and the steps of the operation under way have their types. *)
THEOREM TypeCorrect == Spec => []TypeOK
<1>1. Inv => TypeOK
  BY DEF Inv
<1> QED
  BY <1>1, Invariance, PTL

(* What Send returned nil for stays on disk, with its content and in the index, until
   it is received, dropped by retention or cleaned up, across every crash, restart,
   failed write and damaged index (Send, writeMessage, saveIndex, loadIndex). *)
THEOREM AcceptedStaysDurable == Spec => []AcceptedIsDurable
<1>1. Inv => AcceptedIsDurable
  BY DEF Inv
<1> QED
  BY <1>1, Invariance, PTL

(* Until a damaged index is recovered, queue and index stay in the order of sending
   and no number in use is given out again (nextID, loadIndex, Cleanup). *)
THEOREM QueueStaysInOrder == Spec => []QueueInOrder
<1>1. Inv => QueueInOrder
  BY DEF Inv
<1> QED
  BY <1>1, Invariance, PTL

(* currentSize is the size of the queued files until a Send fails at the index
   (Send, Receive, removeOldest, loadIndex, recoverIndex). *)
THEOREM SizeStaysExact == Spec => []SizeIsExact
<1>1. Inv => SizeIsExact
  BY DEF Inv, SizeCovers, SizeIsExact
<1> QED
  BY <1>1, Invariance, PTL


--------------------------------------------------------------------------------
(* Making room stops before the message that is being sent *)

MakingRoom ==
    /\ "undone" \notin faults
    /\ "commit" \in ToSet(todo) /\ "write" \notin ToSet(todo)
    /\ "fit count" \in ToSet(todo) \/ "fit size" \in ToSet(todo)

NewestIsLast == MakingRoom => messages # <<>> /\ Last(messages) = nextID

LEMMA LastOfTail ==
    ASSUME NEW S, NEW s \in Seq(S), Len(s) > 1
    PROVE  Tail(s) # <<>> /\ Last(Tail(s)) = Last(s)
<1>1. /\ Len(s) \in Nat /\ s # <<>>
  OBVIOUS
<1>2. /\ Tail(s) \in Seq(S) /\ Len(Tail(s)) = Len(s) - 1
      /\ DOMAIN Tail(s) = 1 .. (Len(s) - 1)
      /\ \A n \in DOMAIN Tail(s) : Tail(s)[n] = s[n + 1]
  BY <1>1, TailIs
<1>3. Tail(s) # <<>>
  <2>1. Len(Tail(s)) > 0 /\ 0 \in Nat
    BY <1>1, <1>2
  <2> QED
    BY <1>2, <2>1, LongIsNotEmpty
<1>4. Tail(s)[Len(s) - 1] = s[Len(s)]
  BY <1>1, <1>2
<1> QED
  BY <1>2, <1>3, <1>4 DEF Last

LEMMA SingleIs ==
    ASSUME NEW S, NEW s \in Seq(S), s # <<>>, ~ (Len(s) > 1)
    PROVE  ToSet(s) = {Last(s)}
<1>1. Len(s) = 1 /\ DOMAIN s = {1}
  <2>1. Len(s) \in Nat \ {0} /\ DOMAIN s = 1 .. Len(s)
    BY TailIs
  <2> QED
    BY <2>1
<1> QED
  BY <1>1 DEF ToSet, Last

LEMMA LastIsIn ==
    ASSUME NEW S, NEW s \in Seq(S), s # <<>>
    PROVE  Last(s) \in ToSet(s)
<1>1. Len(s) \in DOMAIN s
  OBVIOUS
<1> QED
  BY <1>1 DEF ToSet, Last

(* What a removal on behalf of a Send under way leaves *)
LEMMA RemovalSparesNewest ==
    ASSUME AllFit, Inv, NewestIsLast, RemoveOldest, MakingRoom
    PROVE  messages' # <<>> /\ Last(messages') = nextID
<1>1. Queued /\ SendGoesOn /\ Sized /\ Types
  BY PartsOfInv DEF Queued
<1>2. messages \in Seq(Ids)
  BY <1>1 DEF Types
<1>3. /\ MustRemove /\ messages' = Tail(messages)
      /\ todo' = <<"save quietly">> \o todo /\ up' = up
  BY DEF RemoveOldest
<1>4. messages # <<>> /\ Last(messages) = nextID
  BY DEF NewestIsLast
<1>5. up /\ "wipe" \notin ToSet(todo)
  BY <1>3, Removing
<1>6. Len(messages) \in Nat /\ ToSet(messages) \subseteq Ids
  BY <1>2 DEF ToSet
<1>7. ASSUME ToSet(messages) = {nextID}
      PROVE  ~ (currentSize > MaxSize)
  <2>1. files[nextID] = msg /\ msg \in Msgs /\ nextID \in Ids
    BY <1>1, <1>6, <1>7 DEF SendGoesOn, MakingRoom
  <2>2. currentSize = Total(files, {nextID})
    BY <1>1, <1>5, <1>7 DEF Sized, MakingRoom
  <2>3. Bytes(files)[nextID] = Size[msg] /\ Size[msg] \in Nat
    BY <2>1, PersistentAssumption DEF Bytes, PersistentAssumption
  <2>4. files \in Contents /\ {nextID} \in SUBSET Ids /\ nextID \in {nextID}
    BY <1>1, <2>1 DEF Types
  <2>5. Total(files, {nextID}) = Total(files, {nextID} \ {nextID}) + Bytes(files)[nextID]
    BY <2>4, TotalRemove
  <2>6. {nextID} \ {nextID} = {}
    OBVIOUS
  <2>7. Total(files, {nextID} \ {nextID}) = 0
    BY <2>6, TotalNone
  <2>8. Total(files, {nextID}) = 0 + Size[msg]
    BY <2>3, <2>5, <2>7, Zenon
  <2>9. Size[msg] <= MaxSize /\ MaxSize \in Nat
    BY <2>1, PersistentAssumption DEF AllFit, PersistentAssumption
  <2> QED
    BY <2>2, <2>3, <2>8, <2>9
<1>8. Len(messages) > 1
  <2>1. CASE Do("fit count") /\ MaxMessages > 0 /\ Len(messages) > MaxMessages
    <3>1. MaxMessages \in Nat
      BY PersistentAssumption DEF PersistentAssumption
    <3>2. MaxMessages > 0 /\ Len(messages) > MaxMessages
      BY <2>1
    <3>3. Len(messages) \in Nat
      BY <1>6
    <3> QED
      BY <3>1, <3>2, <3>3
  <2>2. CASE Do("fit size") /\ currentSize > MaxSize
    BY <1>2, <1>4, <1>7, <2>2, SingleIs
  <2>3. CASE Do("expire")
    <3>1. todo # <<>> /\ Head(todo) = "expire"
      BY <2>3 DEF Do
    <3>2. ToSet(todo) = {"expire"} \cup ToSet(Tail(todo)) /\ ToSet(Tail(todo)) \subseteq {"commit"}
      BY <3>1, TodoIsOrderly, OrderlyTail DEF MakingRoom
    <3> QED
      BY <3>2 DEF MakingRoom
  <2> QED
    BY <1>3, <2>1, <2>2, <2>3 DEF MustRemove
<1> QED
  BY <1>2, <1>3, <1>4, <1>8, LastOfTail

(* A step that is neither of these leaves no room to be made. *)
LEMMA NewestSteps ==
    ASSUME AllFit, Inv, NewestIsLast, [Next]_vars
    PROVE  NewestIsLast'
<1> SUFFICES ASSUME MakingRoom'
             PROVE  messages' # <<>> /\ Last(messages') = nextID'
  BY DEF NewestIsLast
<1>0. /\ "undone" \notin faults'
      /\ "commit" \in ToSet(todo') /\ "write" \notin ToSet(todo')
      /\ "fit count" \in ToSet(todo') \/ "fit size" \in ToSet(todo')
  BY DEF MakingRoom, ToSet
<1>1. Queued /\ Types
  BY PartsOfInv DEF Queued
<1>2. ASSUME up, todo # <<>>, todo' = Tail(todo), up' = up
      PROVE  ToSet(todo) = {Head(todo)} \cup ToSet(todo') /\ (Head(todo) \in {"wipe", "commit"} => FALSE)
  <2>1. /\ ToSet(todo) = {Head(todo)} \cup ToSet(todo')
        /\ \A x \in ToSet(todo') : MayFollow(Head(todo), x)
    BY <1>2, StepDone
  <2>2. MayFollow(Head(todo), "commit")
    BY <1>0, <2>1
  <2> QED
    BY <2>1, <2>2 DEF MayFollow
<1>3. ASSUME up, todo # <<>>, Head(todo) # "write", todo' = Tail(todo), up' = up, faults' = faults,
             messages' = messages, nextID' = nextID
      PROVE  messages' # <<>> /\ Last(messages') = nextID'
  <2>1. ToSet(todo) = {Head(todo)} \cup ToSet(todo')
    BY <1>2, <1>3
  <2>2. MakingRoom
    BY <1>0, <1>3, <2>1 DEF MakingRoom
  <2> QED
    BY <1>3, <2>2 DEF NewestIsLast
<1>4. CASE SaveQuietly \/ RetentionMet \/ Answer \/ AnswerFails
  <2>1. /\ up /\ todo # <<>> /\ Head(todo) # "write" /\ todo' = Tail(todo)
        /\ up' = up /\ faults' = faults /\ messages' = messages /\ nextID' = nextID
    BY <1>4 DEF SaveQuietly, RetentionMet, Answer, AnswerFails, Do, Done, memory, history
  <2> QED
    BY <1>3, <2>1
<1>5. CASE RemoveOldest
  <2>1. /\ MustRemove /\ todo' = <<"save quietly">> \o todo /\ up' = up
        /\ faults' = faults /\ nextID' = nextID
    BY <1>5 DEF RemoveOldest, DeleteFile
  <2>2. ToSet(todo') = {"save quietly"} \cup ToSet(todo)
    BY <2>1, Removing
  <2>3. MakingRoom
    BY <1>0, <2>1, <2>2 DEF MakingRoom
  <2> QED
    BY <1>5, <2>1, <2>3, RemovalSparesNewest
<1>6. CASE WriteMessage
  <2>1. /\ up /\ todo # <<>> /\ Head(todo) = "write"
        /\ messages' = Append(messages, nextID + 1) /\ nextID' = nextID + 1
    BY <1>6 DEF WriteMessage, Do
  <2>2. "write" \in ToSet(todo)
    BY <2>1, TodoIsOrderly, OrderlyTail
  <2>3. nextID < MaxId /\ nextID \in 0 .. MaxId
    BY <1>1, <2>2, PartsOfInv DEF SendGoesOn, Types
  <2>4. nextID + 1 \in Ids
    BY <2>3, PersistentAssumption DEF Ids, PersistentAssumption
  <2>5. messages \in Seq(Ids)
    BY <1>1 DEF Types
  <2>6. Append(messages, nextID + 1) # <<>> /\ Last(Append(messages, nextID + 1)) = nextID + 1
    BY <2>4, <2>5, AppendIs
  <2> QED
    BY <2>1, <2>6
<1>7. ToSet(todo') = {} => FALSE
  BY <1>0
<1>8. CASE WriteFails \/ Crash
  BY <1>7, <1>8, OrderlyNone DEF WriteFails, Crash
<1>9. CASE Commit \/ CommitFails
  BY <1>0, <1>2, <1>9 DEF Commit, CommitFails, Do, Done
<1>10. CASE Receive
  BY <1>0, <1>10, OrderlyOne DEF Receive, Steps
<1>11. CASE Close
  BY <1>0, <1>11, OrderlyOne DEF Close, Steps
<1>12. CASE Cleanup
  BY <1>0, <1>12, OrderlyPair DEF Cleanup, Steps, MayFollow
<1>13. CASE Compact
  BY <1>0, <1>13, OrderlyCompact DEF Compact
<1>14. CASE \E m \in Msgs : Send(m)
  BY <1>0, <1>14, OrderlySend, Zenon DEF Send
<1>15. CASE Wipe
  <2>1. up /\ todo # <<>> /\ Head(todo) = "wipe" /\ up' = up /\ (todo' = todo \/ todo' = Tail(todo))
    BY <1>15 DEF Wipe, Do, Done
  <2>2. CASE todo' = todo
    <3>1. /\ ToSet(todo) = {"wipe"} \cup ToSet(Tail(todo))
          /\ \A x \in ToSet(Tail(todo)) : MayFollow("wipe", x)
      BY <2>1, TodoIsOrderly, OrderlyTail
    <3>2. MayFollow("wipe", "commit")
      BY <1>0, <2>2, <3>1
    <3> QED
      BY <3>2 DEF MayFollow
  <2>3. CASE todo' = Tail(todo)
    BY <1>2, <2>1, <2>3
  <2> QED
    BY <2>1, <2>2, <2>3
<1>16. CASE Open \/ Damage
  <2>1. ~up /\ todo' = todo
    BY <1>16 DEF Open, OpenFresh, OpenIndex, OpenRecover, Load, Damage
  <2> QED
    BY <1>7, <2>1, NotUp, OrderlyNone
<1>17. CASE UNCHANGED vars
  BY <1>17 DEF vars, memory, history, NewestIsLast, MakingRoom
<1> QED
  BY <1>4, <1>5, <1>6, <1>8, <1>9, <1>10, <1>11, <1>12, <1>13, <1>14, <1>15, <1>16, <1>17
     DEF Next, Operation

LEMMA NewestStays ==
    ASSUME AllFit, Inv, NewestIsLast, [Next]_vars
    PROVE  [(Do("fit count") \/ Do("fit size")) /\ Written /\ "undone" \notin faults /\ up'
               => nextID \in ToSet(messages')]_vars
<1> SUFFICES ASSUME Next, Do("fit count") \/ Do("fit size"), Written, "undone" \notin faults, up'
             PROVE  nextID \in ToSet(messages')
  OBVIOUS
<1>1. messages \in Seq(Ids) /\ messages' \in Seq(Ids)
  <2>1. Parts
    BY PartsOfInv DEF Parts
  <2>2. Parts'
    BY <2>1, StepParts
  <2> QED
    BY <2>1, <2>2 DEF Parts, Queued, Types
<1>2. /\ up /\ todo # <<>> /\ Head(todo) \in {"fit count", "fit size"}
      /\ "commit" \in ToSet(todo) /\ "write" \notin ToSet(todo)
  BY DEF Do, Written
<1>3. MakingRoom
  BY <1>2, TodoIsOrderly, OrderlyTail DEF MakingRoom
<1>4. messages # <<>> /\ Last(messages) = nextID
  BY <1>2, <1>3 DEF NewestIsLast
<1>5. CASE RemoveOldest
  <2>1. messages' # <<>> /\ Last(messages') = nextID
    BY <1>2, <1>3, <1>5, RemovalSparesNewest
  <2> QED
    BY <1>1, <2>1, LastIsIn
<1>6. CASE RetentionMet
  <2>1. nextID \in ToSet(messages) /\ messages' = messages
    BY <1>1, <1>4, <1>6, LastIsIn DEF RetentionMet, memory
  <2> QED
    BY <2>1
<1>7. RemoveOldest \/ RetentionMet
  <2>1. ~Idle /\ ~Open /\ ~Damage /\ ~Crash
    BY <1>2 DEF Idle, Open, OpenFresh, OpenIndex, OpenRecover, Damage, Crash
  <2>2. ~Do("write") /\ ~Do("commit") /\ ~Do("answer") /\ ~Do("wipe") /\ ~Do("save quietly")
    BY <1>2 DEF Do
  <2> QED
    BY <2>1, <2>2 DEF Next, Operation, Send, WriteMessage, WriteFails, Commit, CommitFails, Receive,
       Answer, AnswerFails, Close, Cleanup, Wipe, Compact, SaveQuietly
<1> QED
  BY <1>5, <1>6, <1>7

(* When every message fits, what Send makes room for by count or by size never
   includes the message it has written itself (Send, enforceMaxMessages,
   evictUntilUnderSize). *)
THEOREM SendKeepsItsMessage == AllFit => (Spec => NewestIsKept)
<1> SUFFICES ASSUME AllFit
             PROVE  Spec => NewestIsKept
  OBVIOUS
<1>1. Init => NewestIsLast
  BY OrderlyNone DEF Init, NewestIsLast, MakingRoom
<1>2. Inv /\ NewestIsLast /\ [Next]_vars => NewestIsLast'
  BY NewestSteps
<1>3. Inv /\ NewestIsLast /\ [Next]_vars =>
         [(Do("fit count") \/ Do("fit size")) /\ Written /\ "undone" \notin faults /\ up'
             => nextID \in ToSet(messages')]_vars
  BY NewestStays
<1> QED
  BY <1>1, <1>2, <1>3, Invariance, PTL DEF Spec, NewestIsKept

================================================================================
