-------------------------- MODULE PlaygroundProofs --------------------------
(***************************************************************************)
(* Proofs about Playground, for any number of acts of the user, of         *)
(* generations and of pieces of a reply, and any length of the             *)
(* conversation and of the queue.                                          *)
(*                                                                         *)
(* The page keeps three pieces of state about a generation that different  *)
(* handlers set: the generation counter, the stream controller and the two *)
(* flags.  The invariant ties them together: counter and controller move   *)
(* on at the same steps, so a call that still holds the controller is the  *)
(* call of the current generation (ControlInv), and each flag says what    *)
(* that call is doing (FlagInv).                                           *)
(*                                                                         *)
(* There are four versions of the conversation: shown, coming (the queue   *)
(* applied to it), persisted and stored.  The rest of the invariant says   *)
(* that the first three differ in the reply being generated only, that     *)
(* what is queued is of the current generation (QueueInv), that each is a  *)
(* conversation with texts within what was sent (ConvsInv), that the last  *)
(* reply and the chunks that wait are together what was sent (ReplyInv),   *)
(* and that finished replies are whole (WholeInv).                         *)
(*                                                                         *)
(* Pieces may repeat, so the pieces of a reply do not say where in the     *)
(* answer they are from.  What holds of every reply is that there is a way *)
(* to place its pieces in the answer, in order and none twice (Within).    *)
(* That it is the beginning of the answer, or all of it, is kept as long as *)
(* the call is "exact" (Told): its parts cannot be taken for snapshots, and *)
(* no load has shortened the reply.                                        *)
(*                                                                         *)
(* The order: the queue as a path of conversations; texts; the generation; *)
(* messages, conversations and what loading does to them; the invariant;   *)
(* updates that arrive; the page; tasks and network; the user; the theorems. *)
(***************************************************************************)
EXTENDS Playground, SumTheorems, SequenceTheorems

-----------------------------------------------------------------------------
(* Running the queue.  Applied is a fold of the library, the CHOOSE of a   *)
(* recursive function on sets of indices; here it becomes a path of        *)
(* conversations, one updater apart.                                       *)

\* g is the recursive function whose value on the indices of us is Applied.
IsFold(g, us, ms, current) ==
    g = [s \in SUBSET DOMAIN us |->
           IF s = {} THEN ms
           ELSE applyMessageStateUpdate(us[Max(s)], g[s \ {Max(s)}], current)]

\* The library's definition, with its fold written out.
LEMMA AppliedUnfolds ==
    ASSUME NEW us, NEW ms, NEW current
    PROVE  Applied(us, ms, current) =
             (CHOOSE g : IsFold(g, us, ms, current))[DOMAIN us]
BY DEF Applied, FoldLeft, MapThenFoldSet, IsFold

\* A nonempty set of indices has a largest one.
LEMMA MaxOf ==
    ASSUME NEW n \in Nat, NEW s \in SUBSET (1 .. n), s # {}
    PROVE  Max(s) \in s /\ \A x \in s : x <= Max(s)
<1> DEFINE B == {n - x : x \in s}
<1> HIDE DEF B
<1>0. \A x \in s : x \in Int /\ x >= 1 /\ x <= n
  OBVIOUS
<1>1. B \subseteq Nat /\ B # {}
  <2>1. \A x \in s : n - x \in Nat
    BY <1>0
  <2> QED BY <2>1 DEF B
<1>2. PICK m \in B : \A b \in B : m <= b
  BY <1>1, LeastNumber
<1>3. PICK x \in s : m = n - x
  BY <1>2 DEF B
<1>4. ASSUME NEW y \in s PROVE x >= y
  <2>1. n - y \in B
    BY DEF B
  <2>2. n - x <= n - y
    BY <1>2, <1>3, <2>1
  <2>3. x \in Int /\ y \in Int
    BY <1>0
  <2> QED BY <2>2, <2>3
<1>5. Max(s) \in s /\ \A y \in s : Max(s) >= y
  BY <1>4 DEF Max
<1> QED BY <1>0, <1>5

\* g satisfies the recursion on the sets of indices up to k.
FoldUpTo(g, us, ms, current, k) ==
    \A s \in SUBSET DOMAIN us : s \subseteq 1 .. k =>
        g[s] = IF s = {} THEN ms
               ELSE applyMessageStateUpdate(us[Max(s)], g[s \ {Max(s)}], current)

\* What is left of a set of indices up to k without its largest one.
LEMMA WithoutMax ==
    ASSUME NEW n \in Nat, NEW k \in Nat, NEW s \in SUBSET (1 .. n), s # {},
           s \subseteq 1 .. k
    PROVE  s \ {Max(s)} \in SUBSET (1 .. n) /\ s \ {Max(s)} \subseteq 1 .. (k - 1)
           /\ k # 0
<1>1. Max(s) \in s /\ \A x \in s : x <= Max(s)
  BY MaxOf
<1> DEFINE m == Max(s)
<1> HIDE DEF m
<1>2. m \in 1 .. k /\ \A x \in s : x \in 1 .. k
  BY <1>1 DEF m
<1>3. k # 0
  BY <1>2
<1>4. ASSUME NEW x \in s, x # Max(s) PROVE x \in 1 .. (k - 1)
  <2>1. x \in 1 .. k /\ x <= m /\ x # m
    BY <1>1, <1>2, <1>4 DEF m
  <2> QED BY <1>2, <2>1
<1> QED BY <1>3, <1>4

\* The recursion has a solution up to every index.
LEMMA FoldUpToExists ==
    ASSUME NEW us, NEW n \in Nat, DOMAIN us = 1 .. n, NEW ms, NEW current
    PROVE  \A k \in Nat : \E g : g = [s \in SUBSET DOMAIN us |-> g[s]]
                                 /\ FoldUpTo(g, us, ms, current, k)
<1> DEFINE Good(k) == \E g : g = [s \in SUBSET DOMAIN us |-> g[s]]
                             /\ FoldUpTo(g, us, ms, current, k)
           B == {k \in Nat : ~Good(k)}
<1> SUFFICES ASSUME B # {} PROVE FALSE
  OBVIOUS
<1>1. PICK m \in B : \A k \in B : m <= k
  <2>1. B \subseteq Nat
    OBVIOUS
  <2> HIDE DEF B
  <2> QED BY <2>1, LeastNumber
<1>2. m \in Nat /\ ~Good(m)
  BY <1>1
<1>3. CASE m = 0
  <2> DEFINE g == [s \in SUBSET DOMAIN us |-> ms]
  <2>1. FoldUpTo(g, us, ms, current, 0)
    <3>1. \A s \in SUBSET DOMAIN us : s \subseteq 1 .. 0 => s = {}
      OBVIOUS
    <3> QED BY <3>1 DEF FoldUpTo
  <2>2. g = [s \in SUBSET DOMAIN us |-> g[s]]
    OBVIOUS
  <2>3. Good(0)
    <3> HIDE DEF g
    <3> QED BY <2>1, <2>2
  <2> QED BY <1>2, <1>3, <2>3
<1>4. CASE m # 0
  <2>1. m - 1 \in Nat /\ m - 1 \notin B
    <3> HIDE DEF B
    <3> QED BY <1>1, <1>2, <1>4
  <2>2. PICK h : h = [s \in SUBSET DOMAIN us |-> h[s]]
                 /\ FoldUpTo(h, us, ms, current, m - 1)
    BY <2>1
  <2> DEFINE g == [s \in SUBSET DOMAIN us |->
                     IF s = {} THEN ms
                     ELSE applyMessageStateUpdate(us[Max(s)],
                                                  h[s \ {Max(s)}], current)]
  <2>3. ASSUME NEW s \in SUBSET DOMAIN us, s \subseteq 1 .. (m - 1)
        PROVE  g[s] = h[s]
    BY <2>2, <2>3 DEF FoldUpTo
  <2>4. ASSUME NEW s \in SUBSET DOMAIN us, s \subseteq 1 .. m, s # {}
        PROVE  g[s \ {Max(s)}] = h[s \ {Max(s)}]
    <3>1. s \ {Max(s)} \in SUBSET DOMAIN us /\ s \ {Max(s)} \subseteq 1 .. (m - 1)
      BY <1>2, <2>4, WithoutMax
    <3> HIDE DEF g
    <3> QED BY <2>3, <3>1
  <2>5. FoldUpTo(g, us, ms, current, m)
    <3> SUFFICES ASSUME NEW s \in SUBSET DOMAIN us, s \subseteq 1 .. m
                 PROVE  g[s] = IF s = {} THEN ms
                               ELSE applyMessageStateUpdate(us[Max(s)],
                                      g[s \ {Max(s)}], current)
      BY DEF FoldUpTo
    <3>1. g[s] = IF s = {} THEN ms
                 ELSE applyMessageStateUpdate(us[Max(s)],
                        h[s \ {Max(s)}], current)
      OBVIOUS
    <3> HIDE DEF g
    <3> QED BY <2>4, <3>1
  <2>6. g = [s \in SUBSET DOMAIN us |-> g[s]]
    OBVIOUS
  <2>7. Good(m)
    <3> HIDE DEF g
    <3> QED BY <2>5, <2>6
  <2> QED BY <1>2, <2>7
<1> QED BY <1>3, <1>4

\* The recursion has a solution.
LEMMA FoldExists ==
    ASSUME NEW us, NEW n \in Nat, DOMAIN us = 1 .. n, NEW ms, NEW current
    PROVE  \E g : IsFold(g, us, ms, current)
<1>1. PICK g : g = [s \in SUBSET DOMAIN us |-> g[s]]
               /\ FoldUpTo(g, us, ms, current, n)
  BY FoldUpToExists
<1>2. IsFold(g, us, ms, current)
  BY <1>1 DEF IsFold, FoldUpTo
<1> QED BY <1>2

\* f goes from ms through the conversations after each updater of us.
Path(f, us, ms, current) ==
    /\ f[0] = ms
    /\ \A i \in 1 .. Len(us) :
          f[i] = applyMessageStateUpdate(us[i], f[i - 1], current)

\* Running the queue is walking its path.
LEMMA AppliedIsPath ==
    ASSUME NEW S, NEW us \in Seq(S), NEW ms, NEW current
    PROVE  \E f : Path(f, us, ms, current)
                  /\ Applied(us, ms, current) = f[Len(us)]
<1> DEFINE g == CHOOSE g : IsFold(g, us, ms, current)
           f == [i \in 0 .. Len(us) |-> g[1 .. i]]
<1>1. Len(us) \in Nat /\ DOMAIN us = 1 .. Len(us)
  BY LenProperties
<1>2. IsFold(g, us, ms, current)
  BY <1>1, FoldExists
<1>3. Applied(us, ms, current) = g[1 .. Len(us)]
  BY <1>1, AppliedUnfolds
<1> HIDE DEF g
<1>4. f[0] = ms
  <2>1. 1 .. 0 = {}
    OBVIOUS
  <2>2. g[{}] = ms
    BY <1>2 DEF IsFold
  <2> QED BY <1>1, <2>1, <2>2
<1>5. ASSUME NEW i \in 1 .. Len(us)
      PROVE  f[i] = applyMessageStateUpdate(us[i], f[i - 1], current)
  <2>1. 1 .. i \in SUBSET (1 .. Len(us)) /\ 1 .. i # {} /\ i \in 1 .. i
    <3>1. i \in 1 .. i /\ \A x \in 1 .. i : x \in 1 .. Len(us)
      BY <1>1
    <3> QED BY <3>1
  <2>2. Max(1 .. i) = i
    <3>1. Max(1 .. i) \in 1 .. i /\ \A x \in 1 .. i : x <= Max(1 .. i)
      <4> DEFINE s == 1 .. i
      <4>1. s \in SUBSET (1 .. Len(us)) /\ s # {}
        BY <2>1
      <4> HIDE DEF s
      <4>2. Max(s) \in s /\ \A x \in s : x <= Max(s)
        BY <1>1, <4>1, MaxOf
      <4> QED BY <4>2 DEF s
    <3> QED BY <2>1, <3>1
  <2>3. (1 .. i) \ {i} = 1 .. (i - 1)
    BY <1>1
  <2>4. g[1 .. i] = applyMessageStateUpdate(us[Max(1 .. i)],
                      g[(1 .. i) \ {Max(1 .. i)}], current)
    BY <1>1, <1>2, <2>1 DEF IsFold
  <2>5. f[i] = g[1 .. i] /\ f[i - 1] = g[1 .. (i - 1)]
    BY <1>1
  <2> HIDE DEF f
  <2> QED BY <2>2, <2>3, <2>4, <2>5
<1>6. f[Len(us)] = g[1 .. Len(us)]
  BY <1>1
<1>7. Path(f, us, ms, current)
  BY <1>4, <1>5 DEF Path
<1> HIDE DEF f
<1> QED BY <1>3, <1>6, <1>7

\* Two paths agree as long as their updaters do.
LEMMA PathUnique ==
    ASSUME NEW us, NEW vs, NEW ms, NEW current, NEW n \in Nat,
           Len(us) \in Nat, Len(vs) \in Nat, n <= Len(us), n <= Len(vs),
           \A i \in 1 .. n : us[i] = vs[i],
           NEW f, Path(f, us, ms, current), NEW h, Path(h, vs, ms, current)
    PROVE  f[n] = h[n]
<1> DEFINE B == {i \in 0 .. n : f[i] # h[i]}
<1> SUFFICES ASSUME B # {} PROVE FALSE
  OBVIOUS
<1>1. PICK m \in B : \A k \in B : m <= k
  <2>1. B \subseteq Nat
    OBVIOUS
  <2> HIDE DEF B
  <2> QED BY <2>1, LeastNumber
<1>2. m \in 0 .. n /\ f[m] # h[m]
  BY <1>1
<1>3. m # 0
  BY <1>2 DEF Path
<1>4. f[m - 1] = h[m - 1]
  <2>1. m - 1 \in 0 .. n /\ m - 1 \notin B
    <3> HIDE DEF B
    <3> QED BY <1>1, <1>2, <1>3
  <2> QED BY <2>1
<1>5. m \in 1 .. Len(us) /\ m \in 1 .. Len(vs) /\ m \in 1 .. n
  BY <1>2, <1>3
<1> QED BY <1>2, <1>4, <1>5 DEF Path

\* Nothing to run.
LEMMA AppliedNone ==
    ASSUME NEW ms, NEW current
    PROVE  Applied(<<>>, ms, current) = ms
<1>1. PICK f : Path(f, <<>>, ms, current)
               /\ Applied(<<>>, ms, current) = f[Len(<<>>)]
  <2>1. <<>> \in Seq({})
    OBVIOUS
  <2> QED BY <2>1, AppliedIsPath
<1> QED BY <1>1 DEF Path

\* One more updater.
LEMMA AppliedMore ==
    ASSUME NEW S, NEW us \in Seq(S), NEW u, NEW ms, NEW current
    PROVE  Applied(us \o <<u>>, ms, current) =
             applyMessageStateUpdate(u, Applied(us, ms, current), current)
<1> DEFINE T == S \cup {u}
           vs == us \o <<u>>
<1>1. us \in Seq(T) /\ <<u>> \in Seq(T) /\ Len(us) \in Nat
  BY LenProperties, SeqMonotonic
<1>2. /\ vs \in Seq(T) /\ Len(vs) = Len(us) + 1
      /\ \A i \in 1 .. Len(us) : vs[i] = us[i]
      /\ vs[Len(us) + 1] = u
  BY <1>1, ConcatProperties
<1> HIDE DEF vs, T
<1>3. PICK f : Path(f, us, ms, current)
               /\ Applied(us, ms, current) = f[Len(us)]
  BY AppliedIsPath
<1>4. PICK h : Path(h, vs, ms, current)
               /\ Applied(vs, ms, current) = h[Len(vs)]
  BY <1>2, AppliedIsPath
<1>5. h[Len(us)] = f[Len(us)]
  <2>1. /\ Len(us) <= Len(us) /\ Len(us) <= Len(vs) /\ Len(vs) \in Nat
        /\ \A i \in 1 .. Len(us) : us[i] = vs[i]
    BY <1>1, <1>2
  <2>2. Path(f, us, ms, current) /\ Path(h, vs, ms, current)
    BY <1>3, <1>4
  <2> DEFINE n == Len(us)
  <2>3. n \in Nat /\ n <= Len(us) /\ n <= Len(vs) /\ Len(us) \in Nat /\ Len(vs) \in Nat
        /\ \A i \in 1 .. n : us[i] = vs[i]
    BY <1>1, <2>1
  <2> HIDE DEF n
  <2>4. f[n] = h[n]
    BY <2>2, <2>3, PathUnique
  <2> QED BY <2>4 DEF n
<1>6. Len(vs) \in 1 .. Len(vs) /\ Len(vs) - 1 = Len(us)
  BY <1>1, <1>2
<1>7. h[Len(vs)] = applyMessageStateUpdate(vs[Len(vs)], h[Len(us)], current)
  BY <1>4, <1>6 DEF Path
<1>8. vs[Len(vs)] = u
  BY <1>2
<1> QED BY <1>3, <1>4, <1>5, <1>7, <1>8 DEF vs

\* Updaters that leave the conversation alone.
LEMMA AppliedIdle ==
    ASSUME NEW S, NEW us \in Seq(S), NEW ms, NEW current,
           NEW k \in 0 .. 1, k <= Len(us),
           NEW m, m = IF k = 0 THEN ms
                      ELSE applyMessageStateUpdate(us[1], ms, current),
           \A i \in 1 .. Len(us) :
              i > k => applyMessageStateUpdate(us[i], m, current) = m
    PROVE  Applied(us, ms, current) = m
<1>1. Len(us) \in Nat
  BY LenProperties
<1>2. PICK f : Path(f, us, ms, current)
               /\ Applied(us, ms, current) = f[Len(us)]
  BY AppliedIsPath
<1> DEFINE B == {i \in k .. Len(us) : f[i] # m}
<1>3. SUFFICES ASSUME B # {} PROVE FALSE
  BY <1>1, <1>2
<1>4. PICK b \in B : \A j \in B : b <= j
  <2>1. B \subseteq Nat
    BY <1>1
  <2> HIDE DEF B
  <2> QED BY <1>3, <2>1, LeastNumber
<1>5. b \in k .. Len(us) /\ f[b] # m
  BY <1>4
<1>6. f[k] = m
  <2>1. CASE k = 0
    BY <1>2, <2>1 DEF Path
  <2>2. CASE k = 1
    BY <1>1, <1>2, <2>2 DEF Path
  <2> QED BY <2>1, <2>2
<1>7. b > k
  BY <1>5, <1>6, <1>1
<1>8. f[b - 1] = m
  <2>1. b - 1 \in k .. Len(us) /\ b - 1 \notin B
    <3> HIDE DEF B
    <3> QED BY <1>1, <1>4, <1>5, <1>7
  <2> QED BY <2>1
<1>9. b \in 1 .. Len(us)
  BY <1>1, <1>5, <1>7
<1>10. f[b] = applyMessageStateUpdate(us[b], f[b - 1], current)
  BY <1>2, <1>9 DEF Path
<1> QED BY <1>5, <1>7, <1>8, <1>9, <1>10

-----------------------------------------------------------------------------
(* Texts.                                                                  *)

\* The pieces of s after the first i, up to the j-th.
Part(s, i, j) == SubSeq(s, i + 1, j)

\* f says where in s, after the first a and up to the b-th, the pieces of t are.
Places(f, t, s, a, b) ==
    /\ \A i \in 1 .. Len(t) : f[i] \in a + 1 .. b /\ t[i] = s[f[i]]
    /\ \A i, j \in 1 .. Len(t) : i < j => f[i] < f[j]

\* t has pieces of that part of s, in order and none twice.
Within(t, s, a, b) == Len(t) <= b - a /\ \E f : Places(f, t, s, a, b)

\* A text is a function on the numbers up to its length.
LEMMA TextIs ==
    ASSUME NEW t \in Text
    PROVE  /\ Len(t) \in Nat /\ DOMAIN t = 1 .. Len(t)
           /\ t = <<>> <=> Len(t) = 0
BY DEF Text

\* Two texts with the same pieces are the same.
LEMMA SameText ==
    ASSUME NEW t \in Text, NEW u \in Text, Len(t) = Len(u),
           \A i \in 1 .. Len(t) : t[i] = u[i]
    PROVE  t = u
BY SeqEqual DEF Text

\* One text after the other.
LEMMA TextCat ==
    ASSUME NEW t \in Text, NEW u \in Text
    PROVE  /\ t \o u \in Text /\ Len(t \o u) = Len(t) + Len(u)
           /\ \A i \in 1 .. Len(t) + Len(u) :
                 (t \o u)[i] = IF i <= Len(t) THEN t[i] ELSE u[i - Len(t)]
           /\ t = <<>> => t \o u = u
<1>1. t = <<>> => t \o u = u
  BY DEF Text
<1> QED BY <1>1, ConcatProperties DEF Text

\* A prefix has the same pieces.
LEMMA PrefixIs ==
    ASSUME NEW s \in Text, NEW t \in Text
    PROVE  IsPrefix(s, t) <=>
             Len(s) <= Len(t) /\ \A i \in 1 .. Len(s) : s[i] = t[i]
<1>1. Len(s) \in Nat /\ Len(t) \in Nat
  BY TextIs
<1>2. CASE Len(s) <= Len(t)
  <2> DEFINE a == SubSeq(s, 1, Len(s))
             b == SubSeq(t, 1, Len(s))
  <2>1. /\ a \in Text /\ b \in Text /\ Len(a) = Len(s) /\ Len(b) = Len(s)
        /\ \A i \in 1 .. Len(s) : a[i] = s[i] /\ b[i] = t[i]
    BY <1>1, <1>2 DEF Text
  <2> HIDE DEF a, b
  <2>2. ASSUME \A i \in 1 .. Len(s) : a[i] = b[i] PROVE a = b
    <3>1. Len(a) = Len(b) /\ \A i \in 1 .. Len(a) : a[i] = b[i]
      BY <2>1, <2>2
    <3> QED BY <2>1, <3>1, SameText
  <2>3. IsPrefix(s, t) <=> a = b
    BY <1>2 DEF IsPrefix, a, b
  <2> QED BY <1>2, <2>1, <2>2, <2>3
<1>3. CASE ~(Len(s) <= Len(t))
  BY <1>3 DEF IsPrefix
<1> QED BY <1>2, <1>3

\* A merged text is a text, and no longer than its parts.
LEMMA MergeIs ==
    ASSUME NEW s \in Text, NEW t \in Text
    PROVE  /\ mergePendingStreamChunk(s, t) \in Text
           /\ Len(mergePendingStreamChunk(s, t)) <= Len(s) + Len(t)
           /\ s = <<>> => mergePendingStreamChunk(s, t) = t
<1>1. Len(s) \in Nat /\ Len(t) \in Nat /\ s \o t \in Text
      /\ Len(s \o t) = Len(s) + Len(t)
  BY TextIs, TextCat
<1>2. s = <<>> => s \o t = t
  BY TextCat
<1> QED BY <1>1, <1>2 DEF mergePendingStreamChunk

\* A part is a text.
LEMMA PartIs ==
    ASSUME NEW s \in Text, NEW j \in 0 .. Len(s), NEW i \in 0 .. j
    PROVE  Part(s, i, j) \in Text /\ Len(Part(s, i, j)) = j - i
<1> DEFINE k == i + 1
<1>1. Len(s) \in Nat /\ s \in Seq(Gens \X Nat)
  BY TextIs DEF Text
<1>2. k \in 1 .. Len(s) + 1 /\ j \in k - 1 .. Len(s) /\ j - k + 1 = j - i
  BY <1>1
<1> HIDE DEF k
<1>3. SubSeq(s, k, j) \in Seq(Gens \X Nat) /\ Len(SubSeq(s, k, j)) = j - k + 1
  BY <1>1, <1>2, SubSeqProperties
<1> QED BY <1>2, <1>3 DEF Part, Text, k

\* It has the pieces after the first i.
LEMMA PartAt ==
    ASSUME NEW s \in Text, NEW j \in 0 .. Len(s), NEW i \in 0 .. j,
           NEW x \in 1 .. j - i
    PROVE  Part(s, i, j)[x] = s[i + x]
<1> DEFINE k == i + 1
<1>1. Len(s) \in Nat /\ s \in Seq(Gens \X Nat)
  BY TextIs DEF Text
<1>2. k \in 1 .. Len(s) + 1 /\ j \in k - 1 .. Len(s) /\ j - k + 1 = j - i
      /\ k + x - 1 = i + x /\ x \in 1 .. j - k + 1
  BY <1>1
<1> HIDE DEF k
<1>3. SubSeq(s, k, j)[x] = s[k + x - 1]
  BY <1>1, <1>2, SubSeqProperties
<1> QED BY <1>2, <1>3 DEF Part, k

\* It is empty when i is j, and only then.
LEMMA PartEmpty ==
    ASSUME NEW s \in Text, NEW j \in 0 .. Len(s), NEW i \in 0 .. j
    PROVE  i = j <=> Part(s, i, j) = <<>>
<1>1. Part(s, i, j) \in Text /\ Len(Part(s, i, j)) = j - i
  BY PartIs
<1>2. Part(s, i, j) = <<>> <=> Len(Part(s, i, j)) = 0
  BY <1>1, TextIs
<1>3. Len(s) \in Nat
  BY TextIs
<1> QED BY <1>1, <1>2, <1>3

\* The part from the start to the end is the text.
LEMMA PartWhole ==
    ASSUME NEW s \in Text
    PROVE  Part(s, 0, Len(s)) = s
<1> DEFINE n == Len(s)
           p == Part(s, 0, n)
<1>1. n \in Nat /\ n \in 0 .. n /\ 0 \in 0 .. n /\ n - 0 = n
      /\ \A x \in 1 .. n : 0 + x = x
  BY TextIs
<1>2. n = Len(s)
  OBVIOUS
<1> HIDE DEF n
<1>3. p \in Text /\ Len(p) = n
  BY <1>1, <1>2, PartIs
<1>4. ASSUME NEW x \in 1 .. n PROVE p[x] = s[x]
  <2>1. x \in 1 .. n - 0 /\ 0 + x = x
    BY <1>1
  <2>2. Part(s, 0, n)[x] = s[0 + x]
    BY <1>1, <1>2, <2>1, PartAt
  <2> QED BY <2>1, <2>2
<1> HIDE DEF p
<1>5. p = s
  BY <1>2, <1>3, <1>4, SameText
<1> QED BY <1>5 DEF p, n

\* A part after the next one.
LEMMA PartCat ==
    ASSUME NEW s \in Text, NEW k \in 0 .. Len(s), NEW j \in 0 .. k, NEW i \in 0 .. j
    PROVE  Part(s, i, j) \o Part(s, j, k) = Part(s, i, k)
<1>1. /\ Len(s) \in Nat /\ i \in Nat /\ j \in Nat /\ k \in Nat
      /\ i <= j /\ j <= k /\ k <= Len(s)
      /\ j \in 0 .. Len(s) /\ i \in 0 .. k
  BY TextIs
<1> DEFINE p == Part(s, i, j)
           q == Part(s, j, k)
           r == Part(s, i, k)
<1>2. /\ p \in Text /\ Len(p) = j - i /\ \A x \in 1 .. j - i : p[x] = s[i + x]
      /\ q \in Text /\ Len(q) = k - j /\ \A x \in 1 .. k - j : q[x] = s[j + x]
      /\ r \in Text /\ Len(r) = k - i /\ \A x \in 1 .. k - i : r[x] = s[i + x]
  <2>1. j \in 0 .. Len(s) /\ i \in 0 .. k
    BY <1>1
  <2>2. p \in Text /\ q \in Text /\ r \in Text
    BY <2>1, PartIs
  <2>3. Len(p) = j - i
    BY <2>1, PartIs
  <2>4. Len(q) = k - j
    BY PartIs
  <2>5. Len(r) = k - i
    BY <2>1, PartIs
  <2>6. \A x \in 1 .. j - i : p[x] = s[i + x]
    BY <2>1, PartAt
  <2>7. \A x \in 1 .. k - j : q[x] = s[j + x]
    BY PartAt
  <2>8. \A x \in 1 .. k - i : r[x] = s[i + x]
    BY <2>1, PartAt
  <2> QED BY <2>2, <2>3, <2>4, <2>5, <2>6, <2>7, <2>8
<1> HIDE DEF p, q, r
<1>3. /\ p \o q \in Text /\ Len(p \o q) = k - i
      /\ \A x \in 1 .. k - i : (p \o q)[x] = IF x <= j - i THEN p[x] ELSE q[x - (j - i)]
  <2>1. /\ p \o q \in Text /\ Len(p \o q) = Len(p) + Len(q)
        /\ \A x \in 1 .. Len(p) + Len(q) :
              (p \o q)[x] = IF x <= Len(p) THEN p[x] ELSE q[x - Len(p)]
    BY <1>2, TextCat
  <2>2. Len(p) + Len(q) = k - i
    BY <1>1, <1>2
  <2> QED BY <1>2, <2>1, <2>2
<1>4. ASSUME NEW x \in 1 .. k - i PROVE (p \o q)[x] = r[x]
  <2>1. CASE x <= j - i
    BY <1>1, <1>2, <1>3, <2>1
  <2>2. CASE ~(x <= j - i)
    <3>1. x - (j - i) \in 1 .. k - j /\ j + (x - (j - i)) = i + x
      BY <1>1, <2>2
    <3>2. q[x - (j - i)] = s[i + x]
      BY <1>2, <3>1
    <3> QED BY <1>2, <1>3, <2>2, <3>2
  <2> QED BY <2>1, <2>2
<1>5. p \o q = r
  BY <1>2, <1>3, <1>4, SameText
<1> QED BY <1>5 DEF p, q, r

\* The next part is appended, unless it starts with the part before it.
LEMMA MergeParts ==
    ASSUME NEW s \in Text, NEW k \in 0 .. Len(s), NEW j \in 0 .. k, NEW i \in 0 .. j,
           ~(i < j /\ j < k /\ IsPrefix(Part(s, i, j), Part(s, j, k)))
    PROVE  mergePendingStreamChunk(Part(s, i, j), Part(s, j, k)) = Part(s, i, k)
<1>1. /\ Len(s) \in Nat /\ i \in Nat /\ j \in Nat /\ k \in Nat
      /\ i <= j /\ j <= k /\ k <= Len(s)
      /\ j \in 0 .. Len(s) /\ i \in 0 .. k
  BY TextIs
<1> DEFINE p == Part(s, i, j)
           q == Part(s, j, k)
<1>2. /\ p \in Text /\ Len(p) = j - i /\ (i = j <=> p = <<>>)
      /\ q \in Text /\ Len(q) = k - j
  <2>1. j \in 0 .. Len(s)
    BY <1>1
  <2>2. p \in Text /\ Len(p) = j - i
    BY <2>1, PartIs
  <2>3. q \in Text /\ Len(q) = k - j
    BY PartIs
  <2>4. i = j <=> p = <<>>
    BY <2>1, PartEmpty
  <2> QED BY <2>2, <2>3, <2>4
<1>3. p \o q = Part(s, i, k)
  BY PartCat
<1>4. ~(i < j /\ j < k /\ IsPrefix(p, q))
  OBVIOUS
<1> HIDE DEF p, q
<1>5. ASSUME p # <<>>, IsPrefix(p, q) PROVE FALSE
  <2>1. Len(p) <= Len(q)
    BY <1>5 DEF IsPrefix
  <2> QED BY <1>1, <1>2, <1>4, <1>5, <2>1
<1>6. mergePendingStreamChunk(p, q) = p \o q
  BY <1>5 DEF mergePendingStreamChunk
<1> QED BY <1>3, <1>6 DEF p, q

\* A snapshot replaces what it repeats.
LEMMA MergeSnapshot ==
    ASSUME NEW s \in Text, NEW t \in Text, IsPrefix(s, t)
    PROVE  mergePendingStreamChunk(s, t) = t
<1>1. CASE s = <<>>
  BY <1>1, MergeIs
<1>2. CASE s # <<>>
  BY <1>2 DEF mergePendingStreamChunk
<1> QED BY <1>1, <1>2

\* A merged text ends like what was merged into it.
LEMMA MergeEnd ==
    ASSUME NEW s \in Text, NEW t \in Text, t # <<>>
    PROVE  /\ mergePendingStreamChunk(s, t) # <<>>
           /\ Last(mergePendingStreamChunk(s, t)) = Last(t)
<1> DEFINE u == s \o t
<1>1. /\ u \in Text /\ Len(u) = Len(s) + Len(t)
      /\ \A i \in 1 .. Len(s) + Len(t) :
            u[i] = IF i <= Len(s) THEN s[i] ELSE t[i - Len(s)]
  BY TextCat
<1>2. mergePendingStreamChunk(s, t) \in {t, u}
  BY DEF mergePendingStreamChunk
<1> HIDE DEF u
<1>3. Len(s) \in Nat /\ Len(t) \in Nat /\ Len(t) # 0
  BY TextIs
<1>4. u # <<>>
  BY <1>1, <1>3, TextIs
<1>5. u[Len(u)] = t[Len(t)]
  <2>1. /\ Len(u) \in 1 .. Len(s) + Len(t) /\ ~(Len(u) <= Len(s))
        /\ Len(u) - Len(s) = Len(t)
    BY <1>1, <1>3
  <2> QED BY <1>1, <2>1
<1> QED BY <1>2, <1>4, <1>5 DEF Last

\* The empty text is within every text.
LEMMA WithinEmpty ==
    ASSUME NEW s, NEW a \in Int, NEW b \in Int, a <= b
    PROVE  Within(<<>>, s, a, b)
<1> DEFINE t == <<>>
<1>1. Len(t) = 0
  OBVIOUS
<1> HIDE DEF t
<1>2. Places(<<>>, t, s, a, b)
  BY <1>1 DEF Places
<1>3. Within(t, s, a, b)
  BY <1>1, <1>2 DEF Within
<1> QED BY <1>3 DEF t

\* A part of a text is within it.
LEMMA WithinPart ==
    ASSUME NEW s \in Text, NEW j \in 0 .. Len(s), NEW i \in 0 .. j
    PROVE  Within(Part(s, i, j), s, i, j)
<1> DEFINE p == Part(s, i, j)
           f == [x \in 1 .. j - i |-> i + x]
<1>1. Len(s) \in Nat /\ i \in Int /\ j \in Int
  BY TextIs
<1>2. Len(p) = j - i
  BY PartIs
<1>3. \A x \in 1 .. j - i : p[x] = s[i + x]
  BY PartAt
<1>4. \A x \in 1 .. j - i : f[x] = i + x /\ f[x] \in i + 1 .. j
  BY <1>1
<1>5. \A x, y \in 1 .. j - i : x < y => f[x] < f[y]
  BY <1>1
<1> HIDE DEF p, f
<1>6. Places(f, p, s, i, j)
  BY <1>2, <1>3, <1>4, <1>5 DEF Places
<1>7. Within(p, s, i, j)
  BY <1>1, <1>2, <1>6 DEF Within
<1> QED BY <1>7 DEF p

\* What is within a part of a text is within a wider part.
LEMMA WithinWider ==
    ASSUME NEW s, NEW t \in Text, NEW a \in Int, NEW b \in Int, NEW c \in Int,
           NEW d \in Int, c <= a, b <= d, Within(t, s, a, b)
    PROVE  Within(t, s, c, d)
<1>1. PICK f : Places(f, t, s, a, b)
  BY DEF Within
<1>2. Len(t) <= b - a /\ Len(t) \in Nat
  BY TextIs DEF Within
<1>3. \A x \in a + 1 .. b : x \in c + 1 .. d
  OBVIOUS
<1>4. Places(f, t, s, c, d)
  BY <1>1, <1>3 DEF Places
<1> QED BY <1>2, <1>4 DEF Within

\* More of the text comes.
LEMMA WithinLonger ==
    ASSUME NEW s \in Text, NEW u \in Text, IsPrefix(s, u), NEW t,
           NEW a \in Int, NEW b \in Int, 0 <= a, b <= Len(s), Within(t, s, a, b)
    PROVE  Within(t, u, a, b)
<1>1. PICK f : Places(f, t, s, a, b)
  BY DEF Within
<1>2. Len(s) \in Nat /\ \A x \in a + 1 .. b : x \in 1 .. Len(s)
  BY TextIs
<1>3. \A x \in a + 1 .. b : s[x] = u[x]
  BY <1>2, PrefixIs
<1>4. Places(f, t, u, a, b)
  BY <1>1, <1>3 DEF Places
<1> QED BY <1>4 DEF Within

\* What is within one part, and then what is within the next.
LEMMA WithinCat ==
    ASSUME NEW s, NEW t \in Text, NEW u \in Text, NEW a \in Int, NEW b \in Int,
           NEW c \in Int, Within(t, s, a, b), Within(u, s, b, c)
    PROVE  Within(t \o u, s, a, c)
<1>1. PICK f : Places(f, t, s, a, b)
  BY DEF Within
<1>2. PICK h : Places(h, u, s, b, c)
  BY DEF Within
<1> DEFINE v == t \o u
           n == Len(t)
           m == Len(u)
           e == [x \in 1 .. n + m |-> IF x <= n THEN f[x] ELSE h[x - n]]
<1>3. n \in Nat /\ m \in Nat /\ n <= b - a /\ m <= c - b
  BY TextIs DEF Within
<1>4. /\ Len(v) = n + m
      /\ \A x \in 1 .. n + m : v[x] = IF x <= n THEN t[x] ELSE u[x - n]
  BY TextCat
<1>5. /\ \A x \in 1 .. n : f[x] \in a + 1 .. b /\ t[x] = s[f[x]]
      /\ \A x, y \in 1 .. n : x < y => f[x] < f[y]
      /\ \A x \in 1 .. m : h[x] \in b + 1 .. c /\ u[x] = s[h[x]]
      /\ \A x, y \in 1 .. m : x < y => h[x] < h[y]
  BY <1>1, <1>2 DEF Places
<1>6. \A x \in 1 .. n + m : e[x] = IF x <= n THEN f[x] ELSE h[x - n]
  OBVIOUS
<1> HIDE DEF v, e, n, m
<1>7. \A x \in 1 .. n + m : /\ x <= n => x \in 1 .. n
                            /\ ~(x <= n) => x - n \in 1 .. m
  BY <1>3
<1>8. ASSUME NEW x \in 1 .. n + m
      PROVE  e[x] \in a + 1 .. c /\ v[x] = s[e[x]]
  <2>1. CASE x <= n
    <3>1. f[x] \in a + 1 .. b /\ t[x] = s[f[x]] /\ e[x] = f[x] /\ v[x] = t[x]
      BY <1>4, <1>5, <1>6, <1>7, <2>1
    <3> QED BY <1>3, <3>1
  <2>2. CASE ~(x <= n)
    <3>1. /\ h[x - n] \in b + 1 .. c /\ u[x - n] = s[h[x - n]]
          /\ e[x] = h[x - n] /\ v[x] = u[x - n]
      BY <1>4, <1>5, <1>6, <1>7, <2>2
    <3> QED BY <1>3, <3>1
  <2> QED BY <2>1, <2>2
<1>9. ASSUME NEW x \in 1 .. n + m, NEW y \in 1 .. n + m, x < y
      PROVE  e[x] < e[y]
  <2>1. CASE y <= n
    <3>1. x <= n
      BY <1>3, <1>9, <2>1
    <3>2. e[x] = f[x] /\ e[y] = f[y] /\ x \in 1 .. n /\ y \in 1 .. n
      BY <1>6, <1>7, <2>1, <3>1
    <3> QED BY <1>5, <1>9, <3>2
  <2>2. CASE ~(x <= n)
    <3>1. ~(y <= n)
      BY <1>3, <1>9, <2>2
    <3>2. /\ e[x] = h[x - n] /\ e[y] = h[y - n]
          /\ x - n \in 1 .. m /\ y - n \in 1 .. m
      BY <1>6, <1>7, <2>2, <3>1
    <3>3. x - n < y - n
      BY <1>3, <1>9
    <3> QED BY <1>5, <3>2, <3>3
  <2>3. CASE x <= n /\ ~(y <= n)
    <3>1. e[x] = f[x] /\ e[y] = h[y - n] /\ x \in 1 .. n /\ y - n \in 1 .. m
      BY <1>6, <1>7, <2>3
    <3>2. f[x] \in a + 1 .. b /\ h[y - n] \in b + 1 .. c
      BY <1>5, <3>1
    <3> QED BY <3>1, <3>2
  <2> QED BY <2>1, <2>2, <2>3
<1>10. Places(e, v, s, a, c)
  BY <1>4, <1>8, <1>9 DEF Places
<1>11. Within(v, s, a, c)
  BY <1>3, <1>4, <1>10 DEF Within
<1> QED BY <1>11 DEF v

\* What is taken from a text stays within what that text was within.
LEMMA WithinSub ==
    ASSUME NEW s, NEW t \in Text, NEW a \in Int, NEW b \in Int, Within(t, s, a, b),
           NEW j \in 0 .. Len(t), NEW i \in 0 .. j
    PROVE  Within(Part(t, i, j), s, a, b)
<1>1. PICK f : Places(f, t, s, a, b)
  BY DEF Within
<1> DEFINE p == Part(t, i, j)
           e == [x \in 1 .. j - i |-> f[i + x]]
<1>2. Len(t) \in Nat /\ Len(t) <= b - a /\ i \in Int /\ j \in Int
  BY TextIs DEF Within
<1>3. Len(p) = j - i
  BY PartIs
<1>4. \A x \in 1 .. j - i : p[x] = t[i + x]
  BY PartAt
<1>5. \A x \in 1 .. j - i : i + x \in 1 .. Len(t)
  BY <1>2
<1>6. \A x \in 1 .. j - i : e[x] = f[i + x]
  OBVIOUS
<1> HIDE DEF p, e
<1>7. /\ \A x \in 1 .. Len(t) : f[x] \in a + 1 .. b /\ t[x] = s[f[x]]
      /\ \A x, y \in 1 .. Len(t) : x < y => f[x] < f[y]
  BY <1>1 DEF Places
<1>8. \A x \in 1 .. j - i : e[x] \in a + 1 .. b /\ p[x] = s[e[x]]
  BY <1>4, <1>5, <1>6, <1>7
<1>9. ASSUME NEW x \in 1 .. j - i, NEW y \in 1 .. j - i, x < y
      PROVE  e[x] < e[y]
  <2>1. i + x < i + y
    BY <1>2, <1>9
  <2> QED BY <1>5, <1>6, <1>7, <2>1
<1>10. Places(e, p, s, a, b)
  BY <1>3, <1>8, <1>9 DEF Places
<1>11. Len(p) <= b - a
  BY <1>2, <1>3
<1>12. Within(p, s, a, b)
  BY <1>10, <1>11 DEF Within
<1> QED BY <1>12 DEF p

\* The same for merging one into the other.
LEMMA WithinMerge ==
    ASSUME NEW s, NEW t \in Text, NEW u \in Text, NEW a \in Int, NEW b \in Int,
           NEW c \in Int, a <= b, b <= c, Within(t, s, a, b), Within(u, s, b, c)
    PROVE  Within(mergePendingStreamChunk(t, u), s, a, c)
<1>1. Within(t \o u, s, a, c)
  BY WithinCat
<1>2. Within(u, s, a, c)
  BY WithinWider
<1>3. mergePendingStreamChunk(t, u) \in {u, t \o u}
  BY DEF mergePendingStreamChunk
<1> QED BY <1>1, <1>2, <1>3

\* A prefix is a part, and within the text.
LEMMA PrefixIsPart ==
    ASSUME NEW t \in Text, NEW s \in Text, IsPrefix(t, s)
    PROVE  /\ t = Part(s, 0, Len(t)) /\ Len(t) \in 0 .. Len(s)
           /\ Within(t, s, 0, Len(s))
<1> DEFINE n == Len(t)
<1>1. n \in Nat /\ Len(s) \in Nat /\ n <= Len(s) /\ \A x \in 1 .. n : t[x] = s[x]
  BY TextIs, PrefixIs
<1>2. n \in 0 .. Len(s) /\ 0 \in 0 .. n /\ \A x \in 1 .. n : x \in 1 .. n - 0 /\ 0 + x = x
  BY <1>1
<1>3. n = Len(t)
  OBVIOUS
<1> HIDE DEF n
<1> DEFINE p == Part(s, 0, n)
<1>4. p \in Text
  BY <1>2, PartIs
<1>5. Len(p) = n
  <2>1. Len(p) = n - 0
    BY <1>2, PartIs
  <2> QED BY <1>1, <2>1
<1>6. \A x \in 1 .. n : p[x] = s[x]
  <2> TAKE x \in 1 .. n
  <2>1. p[x] = s[0 + x]
    BY <1>2, PartAt
  <2> QED BY <1>2, <2>1
<1>7. Within(p, s, 0, n)
  BY <1>2, WithinPart
<1> HIDE DEF p
<1>8. t = p
  BY <1>1, <1>3, <1>4, <1>5, <1>6, SameText
<1>9. Within(t, s, 0, Len(s))
  BY <1>1, <1>7, <1>8, WithinWider
<1> QED BY <1>2, <1>3, <1>8, <1>9 DEF p

\* A part from the start is a prefix.
LEMMA PartIsPrefix ==
    ASSUME NEW s \in Text, NEW j \in 0 .. Len(s)
    PROVE  IsPrefix(Part(s, 0, j), s)
<1>1. Len(s) \in Nat /\ 0 \in 0 .. j /\ j - 0 = j /\ j <= Len(s)
      /\ \A x \in 1 .. j : x \in 1 .. j - 0 /\ 0 + x = x
  BY TextIs
<1> DEFINE p == Part(s, 0, j)
<1>2. p \in Text
  BY <1>1, PartIs
<1>3. Len(p) = j
  <2>1. Len(p) = j - 0
    BY <1>1, PartIs
  <2> QED BY <1>1, <2>1
<1>4. \A x \in 1 .. j : p[x] = s[x]
  <2> TAKE x \in 1 .. j
  <2>1. p[x] = s[0 + x]
    BY <1>1, PartAt
  <2> QED BY <1>1, <2>1
<1> HIDE DEF p
<1>5. IsPrefix(p, s)
  BY <1>1, <1>2, <1>3, <1>4, PrefixIs
<1> QED BY <1>5 DEF p

\* A prefix of a prefix is one.
LEMMA PrefixOfPrefix ==
    ASSUME NEW s \in Text, NEW t \in Text, NEW u \in Text,
           IsPrefix(s, t), IsPrefix(t, u)
    PROVE  IsPrefix(s, u)
<1>1. Len(s) \in Nat /\ Len(t) \in Nat /\ Len(u) \in Nat
  BY TextIs
<1>2. /\ Len(s) <= Len(t) /\ \A i \in 1 .. Len(s) : s[i] = t[i]
      /\ Len(t) <= Len(u) /\ \A i \in 1 .. Len(t) : t[i] = u[i]
  BY PrefixIs
<1>3. Len(s) <= Len(u) /\ \A i \in 1 .. Len(s) : s[i] = u[i]
  BY <1>1, <1>2
<1> QED BY <1>3, PrefixIs

\* Every text is a prefix of itself.
LEMMA PrefixOfItself ==
    ASSUME NEW s \in Text
    PROVE  IsPrefix(s, s)
BY TextIs, PrefixIs

\* The texts no generation wrote.
LEMMA FixedTexts ==
    /\ ErrorText \in Text /\ EditedText \in Text /\ <<>> \in Text
    /\ Len(ErrorText) = 1 /\ Len(EditedText) = 1
    /\ TRUNCATED_CONTENT_SUFFIX \in Text /\ Len(TRUNCATED_CONTENT_SUFFIX) = 1
<1>1. 0 \in Gens
  BY PlaygroundAssumption DEF Gens
<1>2. /\ Piece(0, 0) \in Gens \X Nat /\ Piece(0, 1) \in Gens \X Nat
      /\ Piece(0, 2) \in Gens \X Nat
  BY <1>1 DEF Piece
<1> QED BY <1>2 DEF ErrorText, EditedText, TRUNCATED_CONTENT_SUFFIX, Text

\* A part of a part.
LEMMA PartOfPart ==
    ASSUME NEW t \in Text, NEW b \in 0 .. Len(t), NEW a \in 0 .. b,
           NEW j \in 0 .. b - a, NEW i \in 0 .. j
    PROVE  Part(Part(t, a, b), i, j) = Part(t, a + i, a + j)
<1> DEFINE p == Part(t, a, b)
           c == a + i
           d == a + j
           q == Part(p, i, j)
           r == Part(t, c, d)
<1>1. /\ Len(t) \in Nat /\ d \in 0 .. Len(t) /\ c \in 0 .. d /\ d - c = j - i
      /\ \A x \in 1 .. j - i : /\ i + x \in 1 .. b - a /\ x \in 1 .. d - c
                               /\ c + x = a + (i + x)
  BY TextIs
<1>2. p \in Text /\ Len(p) = b - a
  BY PartIs
<1>3. \A x \in 1 .. b - a : p[x] = t[a + x]
  BY PartAt
<1>4. c = a + i /\ d = a + j
  OBVIOUS
<1> HIDE DEF p, c, d
<1>5. j \in 0 .. Len(p)
  BY <1>2
<1>6. q \in Text /\ Len(q) = j - i
  BY <1>2, <1>5, PartIs
<1>7. r \in Text /\ Len(r) = d - c
  BY <1>1, PartIs
<1>8. ASSUME NEW x \in 1 .. j - i PROVE q[x] = r[x]
  <2>1. q[x] = p[i + x]
    BY <1>2, <1>5, PartAt
  <2>2. r[x] = t[c + x]
    BY <1>1, PartAt
  <2> QED BY <1>1, <1>3, <2>1, <2>2
<1> HIDE DEF q, r
<1>9. q = r
  BY <1>1, <1>6, <1>7, <1>8, SameText
<1> QED BY <1>9 DEF p, q, r, c, d

\* Answers to a generation are texts.
LEMMA AnswerIs ==
    ASSUME NEW g \in Gens, NEW r \in Replies
    PROVE  /\ Answer(g, r) \in Text /\ Len(Answer(g, r)) = Len(r)
           /\ Len(r) \in Nat /\ Len(r) <= MaxPieces
<1>1. r \in Seq(Nat) /\ Len(r) <= MaxPieces
  BY PlaygroundAssumption
<1>2. Len(r) \in Nat /\ DOMAIN r = 1 .. Len(r) /\ \A i \in 1 .. Len(r) : r[i] \in Nat
  BY <1>1
<1> DEFINE n == Len(r)
           a == [i \in 1 .. n |-> Piece(g, r[i])]
<1>3. \A i \in 1 .. n : Piece(g, r[i]) \in Gens \X Nat
  BY <1>2 DEF Piece
<1>4. Answer(g, r) = a
  BY <1>2 DEF Answer
<1>5. n \in Nat
  BY <1>2
<1> HIDE DEF n
<1>6. a \in Seq(Gens \X Nat)
  BY <1>3, <1>5, IsASeq
<1>7. Len(a) = n
  BY <1>5, <1>6
<1> QED BY <1>1, <1>2, <1>4, <1>6, <1>7 DEF Text, n

\* The piece truncateText ends a text with.
Mark == Piece(0, 2)

\* A text is marked when that is its last piece.
LEMMA MarkedIs ==
    ASSUME NEW t \in Text
    PROVE  IsSuffix(TRUNCATED_CONTENT_SUFFIX, t) <=> t # <<>> /\ t[Len(t)] = Mark
<1> DEFINE n == Len(t)
           s == TRUNCATED_CONTENT_SUFFIX
           u == [i \in 1 .. n |-> t[(n - i) + 1]]
           v == [i \in 1 .. 1 |-> s[(1 - i) + 1]]
<1>1. n \in Nat /\ (t = <<>> <=> n = 0) /\ \A i \in 1 .. n : t[i] \in Gens \X Nat
  BY TextIs DEF Text
<1>2. Len(s) = 1 /\ s[1] = Mark /\ s \in Text
  BY FixedTexts DEF TRUNCATED_CONTENT_SUFFIX, Mark
<1>3. IsSuffix(s, t) <=> IsPrefix(v, u)
  BY <1>2 DEF IsSuffix, Reverse
<1>4. \A i \in 1 .. n : (n - i) + 1 \in 1 .. n
  BY <1>1
<1>5. u \in Text /\ Len(u) = n /\ \A i \in 1 .. n : u[i] = t[(n - i) + 1]
  <2> HIDE DEF n
  <2>1. \A i \in 1 .. n : t[(n - i) + 1] \in Gens \X Nat
    BY <1>1, <1>4
  <2>2. u \in Seq(Gens \X Nat)
    BY <1>1, <2>1, IsASeq
  <2>3. Len(u) = n
    BY <1>1, <2>2
  <2> QED BY <2>2, <2>3 DEF Text
<1>6. v \in Text /\ Len(v) = 1 /\ v[1] = Mark
  <2>1. \A i \in 1 .. 1 : (1 - i) + 1 = 1
    OBVIOUS
  <2>2. s[1] \in Gens \X Nat
    <3>1. 0 \in Gens
      BY PlaygroundAssumption DEF Gens
    <3> QED BY <1>2, <3>1 DEF Mark, Piece
  <2> HIDE DEF s
  <2>3. \A i \in 1 .. 1 : s[(1 - i) + 1] \in Gens \X Nat
    BY <2>1, <2>2
  <2>4. v \in Seq(Gens \X Nat)
    BY <2>3, IsASeq
  <2>5. Len(v) = 1 /\ v[1] = s[1]
    BY <2>1, <2>4
  <2> QED BY <1>2, <2>4, <2>5 DEF Text
<1> HIDE DEF u, v, s
<1>7. IsPrefix(v, u) <=> 1 <= n /\ v[1] = u[1]
  <2>1. IsPrefix(v, u) <=> Len(v) <= Len(u) /\ \A i \in 1 .. Len(v) : v[i] = u[i]
    BY <1>5, <1>6, PrefixIs
  <2>2. Len(v) = 1 /\ Len(u) = n
    BY <1>5, <1>6
  <2>3. \A i \in 1 .. 1 : i = 1
    OBVIOUS
  <2>4. 1 \in 1 .. 1
    OBVIOUS
  <2> HIDE DEF n
  <2> QED BY <2>1, <2>2, <2>3, <2>4
<1>8. 1 <= n => u[1] = t[n]
  <2>1. 1 <= n => 1 \in 1 .. n /\ (n - 1) + 1 = n
    BY <1>1
  <2> QED BY <1>5, <2>1
<1>9. 1 <= n <=> t # <<>>
  BY <1>1
<1>10. IsSuffix(s, t) <=> t # <<>> /\ t[n] = Mark
  BY <1>3, <1>6, <1>7, <1>8, <1>9
<1> QED BY <1>10 DEF s, n

\* A text without its mark.
LEMMA UnmarkedIs ==
    ASSUME NEW t \in Text
    PROVE  /\ Unmarked(t) \in Text /\ Len(Unmarked(t)) <= Len(t)
           /\ \E n \in 0 .. Len(t) :
                /\ Unmarked(t) = Part(t, 0, n)
                /\ n = IF t # <<>> /\ t[Len(t)] = Mark THEN Len(t) - 1 ELSE Len(t)
<1> DEFINE n == IF t # <<>> /\ t[Len(t)] = Mark THEN Len(t) - 1 ELSE Len(t)
<1>1. Len(t) \in Nat /\ (t = <<>> <=> Len(t) = 0)
  BY TextIs
<1>2. n \in 0 .. Len(t) /\ 0 \in 0 .. n
  BY <1>1
<1>3. Unmarked(t) = Part(t, 0, n)
  <2>1. CASE t # <<>> /\ t[Len(t)] = Mark
    <3>1. Unmarked(t) = SubSeq(t, 1, Len(t) - 1)
      BY <2>1, MarkedIs DEF Unmarked, Front
    <3> QED BY <2>1, <3>1 DEF Part
  <2>2. CASE ~(t # <<>> /\ t[Len(t)] = Mark)
    <3>1. Unmarked(t) = t
      BY <2>2, MarkedIs DEF Unmarked
    <3>2. n = Len(t)
      BY <2>2
    <3> QED BY <3>1, <3>2, PartWhole
  <2> QED BY <2>1, <2>2
<1>4. Part(t, 0, n) \in Text /\ Len(Part(t, 0, n)) = n - 0
  BY <1>2, PartIs
<1>5. Len(Unmarked(t)) <= Len(t)
  BY <1>1, <1>2, <1>3, <1>4
<1> QED BY <1>2, <1>3, <1>4, <1>5

\* It is within what the text is within.
LEMMA WithinUnmarked ==
    ASSUME NEW s, NEW t \in Text, NEW a \in Int, NEW b \in Int, Within(t, s, a, b)
    PROVE  Within(Unmarked(t), s, a, b)
<1>1. PICK n \in 0 .. Len(t) : Unmarked(t) = Part(t, 0, n)
  BY UnmarkedIs
<1>2. 0 \in 0 .. n
  BY TextIs
<1>3. Within(Part(t, 0, n), s, a, b)
  BY <1>2, WithinSub
<1> QED BY <1>1, <1>3

\* The end of a text without its mark is within what the text was within.
LEMMA UnmarkedEnd ==
    ASSUME NEW s, NEW t \in Text, NEW a \in Int, NEW b \in Int,
           Within(Unmarked(t), s, a, b), NEW i \in 0 .. Len(t)
    PROVE  Within(Unmarked(Part(t, i, Len(t))), s, a, b)
<1> DEFINE k == Len(t)
           p == Part(t, i, k)
<1>1. k \in Nat /\ i \in Int /\ k \in 0 .. k /\ i <= k /\ i >= 0 /\ a \in Int /\ b \in Int
  BY TextIs
<1>2. PICK n \in 0 .. k : /\ Unmarked(t) = Part(t, 0, n)
                          /\ n = IF t # <<>> /\ t[k] = Mark THEN k - 1 ELSE k
  BY UnmarkedIs
<1>3. k = Len(t)
  OBVIOUS
<1>4. Unmarked(t) \in Text /\ Within(Unmarked(t), s, a, b)
  BY UnmarkedIs
<1> HIDE DEF k
<1>5. p \in Text /\ Len(p) = k - i
  BY <1>1, <1>3, PartIs
<1>6. \A x \in 1 .. k - i : p[x] = t[i + x]
  BY <1>1, <1>3, PartAt
<1>7. PICK m \in 0 .. Len(p) :
        /\ Unmarked(p) = Part(p, 0, m)
        /\ m = IF p # <<>> /\ p[Len(p)] = Mark THEN Len(p) - 1 ELSE Len(p)
  BY <1>5, UnmarkedIs
<1> HIDE DEF p
<1>8. CASE i = k
  <2>1. p = <<>>
    <3>1. Len(p) = 0
      BY <1>1, <1>5, <1>8
    <3> QED BY <1>5, <3>1, TextIs
  <2>2. m = 0 /\ 0 \in 0 .. Len(p)
    BY <1>1, <1>5, <1>7, <1>8, <2>1
  <2>3. Part(p, 0, 0) = <<>>
    BY <1>5, <2>2, PartEmpty
  <2>4. a <= b
    <3>1. Len(Unmarked(t)) <= b - a /\ Len(Unmarked(t)) \in Nat
      BY <1>4, TextIs DEF Within
    <3> QED BY <3>1
  <2> QED BY <1>7, <2>2, <2>3, <2>4, WithinEmpty DEF p, k
<1>9. CASE i # k
  <2>1. i < k /\ Len(p) # 0 /\ p # <<>> /\ t # <<>>
    BY <1>1, <1>3, <1>5, <1>9, TextIs
  <2>2. p[Len(p)] = t[k]
    <3>1. k - i \in 1 .. k - i /\ i + (k - i) = k
      BY <1>1, <2>1
    <3>2. p[k - i] = t[i + (k - i)]
      BY <1>6, <3>1
    <3> QED BY <1>5, <3>1, <3>2
  <2>3. i \in 0 .. n /\ m = n - i /\ n \in 0 .. k /\ n \in Int /\ m \in Int
    BY <1>1, <1>2, <1>5, <1>7, <2>1, <2>2
  <2>4. Part(p, 0, m) = Part(t, i, n)
    <3>1. k \in 0 .. Len(t) /\ m \in 0 .. k - i /\ 0 \in 0 .. m
      BY <1>1, <1>3, <1>5, <2>3
    <3>2. Part(p, 0, m) = Part(t, i + 0, i + m)
      BY <1>1, <3>1, PartOfPart DEF p
    <3>3. i + 0 = i /\ i + m = n
      BY <1>1, <2>3
    <3> QED BY <3>2, <3>3
  <2>5. Part(t, i, n) = Part(Unmarked(t), i, n)
    <3>1. n \in 0 .. Len(t) /\ n \in 0 .. n - 0 /\ 0 \in 0 .. n
      BY <1>3, <2>3
    <3>2. Part(Part(t, 0, n), i, n) = Part(t, 0 + i, 0 + n)
      BY <2>3, <3>1, PartOfPart
    <3>3. 0 + i = i /\ 0 + n = n
      BY <1>1, <2>3
    <3> QED BY <1>2, <3>2, <3>3
  <2>6. n \in 0 .. Len(Unmarked(t))
    <3>1. n \in 0 .. Len(t) /\ 0 \in 0 .. n /\ n - 0 = n
      BY <1>3, <2>3
    <3>2. Len(Part(t, 0, n)) = n - 0
      BY <3>1, PartIs
    <3> QED BY <1>2, <3>1, <3>2
  <2>7. Within(Part(Unmarked(t), i, n), s, a, b)
    BY <1>4, <2>3, <2>6, WithinSub
  <2> QED BY <1>7, <2>4, <2>5, <2>7 DEF p, k
<1> QED BY <1>8, <1>9

\* The start of a text, no longer than the text without its mark.
LEMMA UnmarkedStart ==
    ASSUME NEW s, NEW t \in Text, NEW a \in Int, NEW b \in Int,
           Within(Unmarked(t), s, a, b), NEW j \in 0 .. Len(t), j < Len(t)
    PROVE  Within(Part(t, 0, j), s, a, b)
<1>1. PICK n \in 0 .. Len(t) : /\ Unmarked(t) = Part(t, 0, n)
                               /\ n = IF t # <<>> /\ t[Len(t)] = Mark THEN Len(t) - 1 ELSE Len(t)
  BY UnmarkedIs
<1>2. Len(t) \in Nat /\ j \in 0 .. n - 0 /\ 0 \in 0 .. n /\ 0 \in 0 .. j /\ j \in Nat
      /\ n \in Nat
  BY <1>1, TextIs
<1>3. Part(Part(t, 0, n), 0, j) = Part(t, 0 + 0, 0 + j)
  BY <1>2, PartOfPart
<1>4. 0 + 0 = 0 /\ 0 + j = j /\ n - 0 = n
  BY <1>2
<1>5. Len(Part(t, 0, n)) = n - 0 /\ Part(t, 0, n) \in Text
  BY <1>2, PartIs
<1>6. j \in 0 .. Len(Unmarked(t)) /\ Unmarked(t) \in Text
  BY <1>1, <1>2, <1>4, <1>5
<1>7. Within(Part(Unmarked(t), 0, j), s, a, b)
  BY <1>2, <1>6, WithinSub
<1> QED BY <1>1, <1>3, <1>4, <1>7

\* A nonempty set of indices has a smallest one.
LEMMA MinOf ==
    ASSUME NEW n \in Nat, NEW s \in SUBSET (1 .. n), s # {}
    PROVE  Min(s) \in s /\ \A x \in s : Min(s) <= x
<1>1. s \subseteq Nat
  OBVIOUS
<1>2. PICK m \in s : \A x \in s : m <= x
  BY <1>1, LeastNumber
<1> QED BY <1>2 DEF Min

\* What is left of a text with repeated sections is its end.
LEMMA CollapsedIs ==
    ASSUME NEW t \in Text
    PROVE  \E i \in 0 .. Len(t) :
             /\ collapseRepeatedSectionSnapshots(t) = Part(t, i, Len(t))
             /\ t # <<>> => i < Len(t)
<1>1. Len(t) \in Nat /\ DOMAIN t = 1 .. Len(t) /\ (t = <<>> <=> Len(t) = 0)
  BY TextIs
<1> DEFINE S == LastRepeatedSections(t)
<1>2. S \in SUBSET (1 .. Len(t))
  BY <1>1 DEF LastRepeatedSections
<1> HIDE DEF S
<1>3. CASE collapseRepeatedSectionSnapshots(t) = t
  <2>1. collapseRepeatedSectionSnapshots(t) = Part(t, 0, Len(t))
    BY <1>3, PartWhole
  <2>2. 0 \in 0 .. Len(t) /\ (t # <<>> => 0 < Len(t))
    BY <1>1
  <2> QED BY <2>1, <2>2
<1>4. CASE S # {} /\ collapseRepeatedSectionSnapshots(t) = SubSeq(t, Min(S), Len(t))
  <2>1. Min(S) \in 1 .. Len(t)
    BY <1>1, <1>2, <1>4, MinOf
  <2> DEFINE i == Min(S) - 1
  <2>2. i \in 0 .. Len(t) /\ i < Len(t) /\ i + 1 = Min(S)
    BY <1>1, <2>1
  <2> HIDE DEF i
  <2>3. collapseRepeatedSectionSnapshots(t) = Part(t, i, Len(t))
    BY <1>4, <2>2 DEF Part
  <2> QED BY <2>2, <2>3
<1>5. \/ collapseRepeatedSectionSnapshots(t) = t
      \/ S # {} /\ collapseRepeatedSectionSnapshots(t) = SubSeq(t, Min(S), Len(t))
  BY DEF collapseRepeatedSectionSnapshots, S
<1> QED BY <1>3, <1>4, <1>5

\* A text that ends like another, or says that it does not.
LEMMA EndIs ==
    ASSUME NEW t \in Text, NEW w \in Text
    PROVE  EndIsKept(t, w) <=>
             IF w = <<>> THEN t = <<>>
             ELSE t # <<>> /\ t[Len(t)] \in {w[Len(w)], Mark}
BY MarkedIs DEF EndIsKept, Last

\* The end of a text is as good an end.
LEMMA CollapsedText ==
    ASSUME NEW t \in Text
    PROVE  /\ collapseRepeatedSectionSnapshots(t) \in Text
           /\ Len(collapseRepeatedSectionSnapshots(t)) <= Len(t)
           /\ collapseRepeatedSectionSnapshots(t) = <<>> <=> t = <<>>
           /\ \A w \in Text : EndIsKept(t, w) =>
                 EndIsKept(collapseRepeatedSectionSnapshots(t), w)
           /\ Len(t) = 1 => collapseRepeatedSectionSnapshots(t) = t
<1> DEFINE k == Len(t)
           c == collapseRepeatedSectionSnapshots(t)
<1>1. k \in Nat /\ k \in 0 .. k /\ (t = <<>> <=> k = 0)
  BY TextIs
<1>2. PICK i \in 0 .. k : c = Part(t, i, k) /\ (t # <<>> => i < k)
  BY CollapsedIs
<1>3. k = Len(t) /\ (i = 0 => Part(t, i, k) = t)
  BY PartWhole
<1> HIDE DEF k, c
<1>4. k \in 0 .. Len(t)
  BY <1>1, <1>3
<1>5. c \in Text /\ Len(c) = k - i
  BY <1>4, <1>2, PartIs
<1>6. \A x \in 1 .. k - i : c[x] = t[i + x]
  BY <1>4, <1>2, PartAt
<1>7. Len(c) <= k
  BY <1>1, <1>5
<1>8. c = <<>> <=> t = <<>>
  <2>1. c = <<>> <=> Len(c) = 0
    BY <1>5, TextIs
  <2>2. CASE t = <<>>
    BY <1>1, <1>2, <1>5, <2>1, <2>2
  <2>3. CASE t # <<>>
    BY <1>1, <1>2, <1>5, <2>1, <2>3
  <2> QED BY <2>2, <2>3
<1>9. ASSUME NEW w \in Text, EndIsKept(t, w) PROVE EndIsKept(c, w)
  <2>1. IF w = <<>> THEN t = <<>> ELSE t # <<>> /\ t[k] \in {w[Len(w)], Mark}
    BY <1>3, <1>9, EndIs
  <2>2. CASE t = <<>>
    BY <1>5, <1>8, <2>1, <2>2, EndIs
  <2>3. CASE t # <<>>
    <3>1. k - i \in 1 .. k - i /\ i + (k - i) = k
      BY <1>1, <1>2, <2>3
    <3>2. c[Len(c)] = t[k]
      BY <1>5, <1>6, <3>1
    <3> QED BY <1>5, <1>8, <2>1, <2>3, <3>2, EndIs
  <2> QED BY <2>2, <2>3
<1>10. k = 1 => c = t
  <2>1. k = 1 => i = 0
    BY <1>1, <1>2
  <2> QED BY <1>2, <1>3, <2>1
<1> QED BY <1>5, <1>3, <1>7, <1>8, <1>9, <1>10 DEF c, k

\* A text that is cut says so.
LEMMA TruncatedText ==
    ASSUME NEW t \in Text
    PROVE  /\ truncateText(t) \in Text /\ Len(truncateText(t)) <= Len(t)
           /\ truncateText(t) = <<>> <=> t = <<>>
           /\ \A w \in Text : EndIsKept(t, w) => EndIsKept(truncateText(t), w)
           /\ Len(t) = 1 => truncateText(t) = t
           /\ \A s : \A a, b \in Int : Within(Unmarked(t), s, a, b) =>
                 Within(Unmarked(truncateText(t)), s, a, b)
<1> DEFINE M == MAX_LOADED_MESSAGE_CHARS
           u == truncateText(t)
<1>1. M \in Nat /\ M # 0 /\ Len(t) \in Nat /\ (t = <<>> <=> Len(t) = 0)
  BY PlaygroundAssumption, TextIs
<1>2. CASE Len(t) <= M
  <2>1. truncateText(t) = t
    BY <1>2 DEF truncateText
  <2> QED BY <1>1, <2>1
<1>3. CASE ~(Len(t) <= M)
  <2> DEFINE j == M - 1
             p == Part(t, 0, j)
  <2>1. j \in 0 .. Len(t) /\ 0 \in 0 .. j /\ j < Len(t) /\ j \in Nat /\ j - 0 = j
        /\ j + 1 <= Len(t) /\ Len(t) # 1 /\ t # <<>> /\ j \in 0 .. j + 1
    <3> DEFINE n == Len(t)
    <3>1. n \in Nat /\ ~(n <= M) /\ (t = <<>> <=> n = 0)
      BY <1>1, <1>3
    <3> HIDE DEF n, M
    <3>2. n # 0 /\ n # 1 /\ j \in Nat /\ j < n /\ j + 1 <= n
      BY <1>1, <3>1
    <3> HIDE DEF j
    <3> QED BY <3>1, <3>2 DEF n
  <2>2. u = p \o TRUNCATED_CONTENT_SUFFIX
    <3>1. 0 + 1 = 1
      OBVIOUS
    <3>2. p = SubSeq(t, 1, M - 1)
      BY <3>1 DEF Part
    <3> HIDE DEF p
    <3> QED BY <1>3, <3>2 DEF truncateText
  <2> HIDE DEF j
  <2>3. p \in Text /\ Len(p) = j
    BY <2>1, PartIs
  <2>4. /\ TRUNCATED_CONTENT_SUFFIX \in Text /\ Len(TRUNCATED_CONTENT_SUFFIX) = 1
        /\ TRUNCATED_CONTENT_SUFFIX[1] = Mark
    BY FixedTexts DEF TRUNCATED_CONTENT_SUFFIX, Mark
  <2>5. /\ u \in Text /\ Len(u) = j + 1 /\ u[j + 1] = Mark
        /\ \A x \in 1 .. j : u[x] = p[x]
    <3> HIDE DEF p
    <3> DEFINE z == TRUNCATED_CONTENT_SUFFIX
               v == p \o z
    <3>1. z \in Text /\ Len(z) = 1 /\ z[1] = Mark
      BY <2>4
    <3> HIDE DEF z
    <3>2. /\ v \in Text /\ Len(v) = Len(p) + Len(z)
          /\ \A i \in 1 .. Len(p) + Len(z) :
                v[i] = IF i <= Len(p) THEN p[i] ELSE z[i - Len(p)]
      BY <2>3, <3>1, TextCat
    <3> HIDE DEF v
    <3>3. Len(p) + Len(z) = j + 1 /\ Len(p) = j
      BY <2>3, <3>1
    <3>4. \A i \in 1 .. j + 1 : v[i] = IF i <= j THEN p[i] ELSE z[i - j]
      BY <3>2, <3>3
    <3>5. j + 1 \in 1 .. j + 1 /\ ~(j + 1 <= j) /\ (j + 1) - j = 1
      BY <2>1
    <3>6. v[j + 1] = Mark
      BY <3>1, <3>4, <3>5
    <3>7. \A x \in 1 .. j : x \in 1 .. j + 1 /\ x <= j
      BY <2>1
    <3>8. \A x \in 1 .. j : v[x] = p[x]
      BY <3>4, <3>7
    <3> QED BY <2>2, <3>2, <3>3, <3>6, <3>8 DEF v, z
  <2> HIDE DEF p, u
  <2>6. u # <<>> /\ u[Len(u)] = Mark
    BY <2>1, <2>5, TextIs
  <2>7. \A w \in Text : EndIsKept(t, w) => EndIsKept(u, w)
    BY <2>1, <2>5, <2>6, EndIs
  <2>8. Unmarked(u) = p
    <3>1. PICK n \in 0 .. Len(u) : Unmarked(u) = Part(u, 0, n) /\ n = Len(u) - 1
      BY <2>5, <2>6, UnmarkedIs
    <3>2. n = j
      BY <2>1, <2>5, <3>1
    <3>3. j \in 0 .. Len(u)
      BY <2>1, <2>5
    <3>4. Part(u, 0, j) \in Text /\ Len(Part(u, 0, j)) = j
      BY <2>1, <2>5, <3>3, PartIs
    <3>5. ASSUME NEW x \in 1 .. j PROVE Part(u, 0, j)[x] = p[x]
      <4>1. x \in 1 .. j - 0 /\ 0 + x = x
        BY <2>1
      <4>2. Part(u, 0, j)[x] = u[0 + x]
        BY <2>1, <2>5, <3>3, <4>1, PartAt
      <4> QED BY <2>5, <4>1, <4>2
    <3> DEFINE q == Part(u, 0, j)
    <3> HIDE DEF q
    <3>6. q = p
      BY <2>3, <3>4, <3>5, SameText DEF q
    <3> QED BY <3>1, <3>2, <3>6 DEF q
  <2>9. \A s : \A a, b \in Int : Within(Unmarked(t), s, a, b) =>
                 Within(Unmarked(u), s, a, b)
    BY <2>1, <2>8, UnmarkedStart DEF p
  <2>10. Len(u) <= Len(t)
    BY <2>1, <2>5
  <2> QED BY <2>1, <2>5, <2>6, <2>7, <2>9, <2>10 DEF u
<1> QED BY <1>2, <1>3

\* What is loaded of a text.
LEMMA LoadedIs ==
    ASSUME NEW t \in Text
    PROVE  /\ LoadedText(t) \in Text /\ Len(LoadedText(t)) <= Len(t)
           /\ LoadedText(t) = <<>> <=> t = <<>>
           /\ \A w \in Text : EndIsKept(t, w) => EndIsKept(LoadedText(t), w)
           /\ Len(t) = 1 => LoadedText(t) = t
           /\ \A s : \A a, b \in Int : Within(Unmarked(t), s, a, b) =>
                 Within(Unmarked(LoadedText(t)), s, a, b)
<1> DEFINE c == collapseRepeatedSectionSnapshots(t)
           u == truncateText(c)
<1>1. /\ c \in Text /\ Len(c) <= Len(t) /\ (c = <<>> <=> t = <<>>)
      /\ \A w \in Text : EndIsKept(t, w) => EndIsKept(c, w)
      /\ Len(t) = 1 => c = t
  BY CollapsedText
<1>2. \A s : \A a, b \in Int : Within(Unmarked(t), s, a, b) =>
         Within(Unmarked(c), s, a, b)
  <2>1. PICK i \in 0 .. Len(t) : c = Part(t, i, Len(t))
    BY CollapsedIs
  <2> QED BY <2>1, UnmarkedEnd
<1> HIDE DEF c
<1>3. /\ u \in Text /\ Len(u) <= Len(c) /\ (u = <<>> <=> c = <<>>)
      /\ \A w \in Text : EndIsKept(c, w) => EndIsKept(u, w)
      /\ Len(c) = 1 => u = c
      /\ \A s : \A a, b \in Int : Within(Unmarked(c), s, a, b) =>
            Within(Unmarked(u), s, a, b)
  BY <1>1, TruncatedText
<1>4. LoadedText(t) = u
  BY DEF LoadedText, c
<1> HIDE DEF u
<1>5. Len(u) \in Nat /\ Len(c) \in Nat /\ Len(t) \in Nat
  BY <1>1, <1>3, TextIs
<1>6. Len(u) <= Len(t)
  BY <1>1, <1>3, <1>5
<1> QED BY <1>1, <1>2, <1>3, <1>4, <1>6

\* The counter and the controller move together; a call that holds the
\* controller belongs to the current generation, and later generations have
\* made no call.
ControlInv ==
    /\ acts \in 0 .. MaxActs /\ gen \in 0 .. acts
    /\ control \in [gen : Nat, source : Int] /\ control.gen = gen
    /\ calls \in [Gens -> Call]
    /\ \A g \in Gens :
          /\ calls[g].control <= gen
          /\ g > gen => calls[g].pc = "none"
          /\ calls[g].pc \in {"headers", "stream", "closed"}
               /\ calls[g].control = gen => g = gen

\* The page waits for generation g, in vain when its connection was closed.
Awaited(g) == Live(g) \/ Hanging(g)

\* isRequesting holds while the current generation is awaited, isStreaming
\* while its source is open.
FlagInv ==
    /\ requesting \in BOOLEAN /\ streaming \in BOOLEAN
    /\ requesting <=> Awaited(gen)
    /\ streaming <=> isCurrent(gen)

\* The part of the invariant that is about the generation.
GenInv == ControlInv /\ FlagInv

\* A generation that exists has a number in range, and fields to read.
LEMMA GenTypes ==
    ASSUME ControlInv
    PROVE  /\ gen \in Gens /\ gen \in Int /\ Gens \subseteq Int
           /\ NoGen \notin Gens /\ NoGen \in Int
           /\ \A g \in Gens : /\ calls[g] \in Call
                              /\ calls[g].control \in Gens
                              /\ calls[g].sent \in Text
                              /\ Len(calls[g].sent) <= MaxPieces
                              /\ calls[g].ends \subseteq 0 .. MaxPieces
                              /\ g # NoGen
<1>1. /\ gen \in Gens /\ gen \in Int /\ Gens \subseteq Int
      /\ NoGen \notin Gens /\ NoGen \in Int
  BY PlaygroundAssumption DEF ControlInv, Gens, NoGen
<1>2. \A c \in Call : /\ c.control \in Gens /\ c.sent \in Text
                      /\ Len(c.sent) <= MaxPieces /\ c.ends \subseteq 0 .. MaxPieces
  BY DEF Call
<1>3. calls \in [Gens -> Call]
  BY DEF ControlInv
<1> QED BY <1>1, <1>2, <1>3

\* A call for which nothing was sent yet.
LEMMA NoTextYet ==
    <<>> \in {t \in Text : Len(t) <= MaxPieces} /\ {0} \in SUBSET (0 .. MaxPieces)
<1>1. MaxPieces \in Nat /\ Len(<<>>) = 0 /\ <<>> \in Text
  BY PlaygroundAssumption, FixedTexts
<1> QED BY <1>1

\* A call for which a text was sent.
LEMMA GrownIs ==
    ASSUME NEW c \in Call, NEW t \in Text, Len(t) <= MaxPieces
    PROVE  /\ Grown(c, t) \in Call /\ Grown(c, t).pc = c.pc
           /\ Grown(c, t).control = c.control /\ Grown(c, t).sent = t
           /\ Grown(c, t).ends = c.ends \cup {Len(t)}
<1>1. MaxPieces \in Nat /\ Len(t) \in Nat
  BY PlaygroundAssumption, TextIs
<1>2. Len(t) \in 0 .. MaxPieces
  BY <1>1
<1>3. Grown(c, t) \in Call
  BY <1>2 DEF Grown, Call
<1>4. Grown(c, t).pc = c.pc /\ Grown(c, t).control = c.control
  BY DEF Grown, Call
<1>5. Grown(c, t).sent = t
  BY DEF Grown, Call
<1>6. Grown(c, t).ends = c.ends \cup {Len(t)}
  BY DEF Grown, Call
<1> QED BY <1>3, <1>4, <1>5, <1>6

\* Nothing about the generation changes.
LEMMA QuietStep ==
    ASSUME GenInv, UNCHANGED <<gen, control, calls, requesting, streaming>>,
           acts' = acts \/ (acts < MaxActs /\ acts' = acts + 1)
    PROVE  GenInv'
<1>1. ControlInv'
  BY PlaygroundAssumption DEF GenInv, ControlInv
<1>2. FlagInv'
  BY DEF GenInv, FlagInv, Awaited, Live, Hanging, isCurrent
<1> QED BY <1>1, <1>2 DEF GenInv

\* A new generation sends its request: the calls before it have lost the
\* controller.
LEMMA SendStep ==
    ASSUME GenInv, NEW stream \in BOOLEAN, Act, SendChat(stream)
    PROVE  GenInv'
<1>1. ControlInv /\ acts < MaxActs /\ acts' = acts + 1
  BY DEF GenInv, Act
<1>2. gen' = gen + 1 /\ gen' \in Gens /\ gen' \in 0 .. acts'
  BY <1>1, PlaygroundAssumption DEF SendChat, ControlInv, Gens
<1> DEFINE c == [pc |-> IF stream THEN "headers" ELSE "chat",
                 control |-> gen + 1, sent |-> <<>>, ends |-> {0}]
<1>3. c \in Call /\ c.control = gen' /\ c.pc \in {"headers", "chat"}
  BY <1>2, NoTextYet DEF Call
<1>4. calls' = [calls EXCEPT ![gen'] = c]
  BY <1>1, <1>2 DEF SendChat, ControlInv
<1>5. /\ control' = [gen |-> gen', source |-> NoGen]
      /\ requesting' = TRUE /\ streaming' = FALSE
  BY <1>1, <1>2 DEF SendChat, CancelStream, ControlInv
<1> HIDE DEF c
<1>6. calls'[gen'] = c /\ \A g \in Gens \ {gen'} : calls'[g] = calls[g]
  BY <1>1, <1>2, <1>4 DEF ControlInv
<1>7. ControlInv'
  <2>1. calls' \in [Gens -> Call]
    BY <1>1, <1>3, <1>4 DEF ControlInv
  <2>2. control' \in [gen : Nat, source : Int] /\ control'.gen = gen'
    BY <1>1, <1>2, <1>5 DEF NoGen, ControlInv
  <2>3. acts' \in 0 .. MaxActs
    BY <1>1, PlaygroundAssumption DEF ControlInv
  <2>4. ASSUME NEW g \in Gens
        PROVE  /\ calls'[g].control <= gen'
               /\ g > gen' => calls'[g].pc = "none"
               /\ calls'[g].pc \in {"headers", "stream", "closed"}
                    /\ calls'[g].control = gen' => g = gen'
    <3>1. CASE g = gen'
      BY <1>1, <1>2, <1>3, <1>6, <3>1 DEF ControlInv
    <3>2. CASE g # gen'
      <4>1. /\ calls'[g] = calls[g] /\ calls[g].control <= gen
            /\ g > gen => calls[g].pc = "none"
        BY <1>1, <1>6, <3>2 DEF ControlInv
      <4>2. gen \in Int /\ g \in Int /\ calls[g].control \in Int
        BY <1>1, GenTypes
      <4> QED BY <1>2, <4>1, <4>2
    <3> QED BY <3>1, <3>2
  <2> QED BY <1>2, <2>1, <2>2, <2>3, <2>4 DEF ControlInv
<1>8. FlagInv'
  <2>1. ~isCurrent(gen)'
    BY <1>3, <1>6 DEF isCurrent
  <2>2. Awaited(gen)'
    BY <1>3, <1>5, <1>6 DEF Awaited, Live, Hanging
  <2> QED BY <1>5, <2>1, <2>2 DEF FlagInv
<1> QED BY <1>7, <1>8 DEF GenInv

\* The generation is given up: the next one has no call, and no call holds the
\* controller.
LEMMA GiveUpStep ==
    ASSUME GenInv, Act, gen' = gen + 1, CancelStream, UNCHANGED calls,
           requesting' = FALSE, streaming' = FALSE
    PROVE  GenInv'
<1>1. ControlInv /\ acts < MaxActs /\ acts' = acts + 1
  BY DEF GenInv, Act
<1>2. gen' \in Gens /\ gen' \in 0 .. acts'
  BY <1>1, PlaygroundAssumption DEF ControlInv, Gens
<1>3. control' = [gen |-> gen', source |-> NoGen]
  BY <1>1 DEF CancelStream, ControlInv
<1>4. ControlInv'
  <2>1. acts' \in 0 .. MaxActs
    BY <1>1, PlaygroundAssumption DEF ControlInv
  <2>2. control' \in [gen : Nat, source : Int] /\ control'.gen = gen'
    BY <1>1, <1>3 DEF NoGen, ControlInv
  <2>3. ASSUME NEW g \in Gens
        PROVE  /\ calls[g].control <= gen' /\ calls[g].control # gen'
               /\ g > gen' => calls[g].pc = "none"
    BY <1>1, GenTypes DEF ControlInv
  <2> QED BY <1>1, <1>2, <2>1, <2>2, <2>3 DEF ControlInv
<1>5. calls[gen'].pc = "none"
  BY <1>1, <1>2 DEF ControlInv
<1>6. ~Awaited(gen)' /\ ~isCurrent(gen)'
  BY <1>5 DEF Awaited, Live, Hanging, isCurrent
<1>7. FlagInv'
  BY <1>6 DEF FlagInv
<1> QED BY <1>4, <1>7 DEF GenInv

\* A call that holds the controller is that of the current generation.
LEMMA HolderIsCurrent ==
    ASSUME ControlInv, NEW g \in Gens,
           calls[g].pc \in {"headers", "stream", "closed"},
           control.gen = calls[g].control
    PROVE  g = gen
BY DEF ControlInv

\* Only the call of the current generation moves on.
LEMMA CallStep ==
    ASSUME ControlInv, NEW c \in Call, c.control = calls[gen].control,
           calls' = [calls EXCEPT ![gen] = c], UNCHANGED <<acts, gen>>,
           control' \in [gen : Nat, source : Int], control'.gen = gen
    PROVE  ControlInv'
<1>1. gen \in Gens
  BY GenTypes
<1>2. calls'[gen] = c /\ \A g \in Gens \ {gen} : calls'[g] = calls[g]
  BY <1>1 DEF ControlInv
<1> QED BY <1>1, <1>2 DEF ControlInv

\* The headers of a request arrive, or fail: only those of the current
\* generation are still listened to.
LEMMA HeadersStep ==
    ASSUME GenInv, NEW g \in Gens, HeadersReady(g) \/ HeadersFail(g)
    PROVE  GenInv'
<1>1. ControlInv /\ FlagInv /\ gen \in Gens
  BY GenTypes DEF GenInv
<1>2. calls[g].pc = "headers" /\ g = gen /\ calls[gen].control = gen
  BY <1>1, HolderIsCurrent DEF HeadersReady, HeadersFail, ControlInv
<1> DEFINE With(p) == [calls[gen] EXCEPT !.pc = p]
<1>3. \A p \in {"stream", "over"} :
         With(p) \in Call /\ With(p).control = gen /\ With(p).pc = p
  BY <1>1, <1>2, GenTypes DEF Call
<1> HIDE DEF With
<1>4. CASE HeadersReady(g)
  <2>1. /\ control' = [gen |-> gen, source |-> gen]
        /\ calls' = [calls EXCEPT ![gen] = With("stream")]
        /\ streaming' = TRUE /\ UNCHANGED <<requesting, gen, acts>>
    BY <1>1, <1>2, <1>4 DEF HeadersReady, ControlInv, With
  <2>2. control' \in [gen : Nat, source : Int] /\ control'.gen = gen
    BY <1>1, <2>1 DEF ControlInv
  <2>3. ControlInv'
    BY <1>1, <1>2, <1>3, <2>1, <2>2, CallStep
  <2>4. calls'[gen'] = With("stream")
    BY <1>1, <2>1 DEF ControlInv
  <2>5. isCurrent(gen)'
    BY <1>3, <2>1, <2>4 DEF isCurrent
  <2>6. requesting
    BY <1>1, <1>2 DEF FlagInv, Awaited, Live, Hanging, ControlInv
  <2>7. FlagInv'
    BY <1>3, <2>1, <2>4, <2>5, <2>6 DEF FlagInv, Awaited, Live, Hanging
  <2> QED BY <2>3, <2>7 DEF GenInv
<1>5. CASE HeadersFail(g)
  <2>1. /\ calls' = [calls EXCEPT ![gen] = With("over")]
        /\ requesting' = FALSE /\ UNCHANGED <<streaming, gen, acts, control>>
    BY <1>2, <1>5 DEF HeadersFail, handleStreamError, With
  <2>2. ControlInv'
    BY <1>1, <1>2, <1>3, <2>1, CallStep DEF ControlInv
  <2>3. calls'[gen'].pc = "over"
    BY <1>1, <1>3, <2>1 DEF ControlInv
  <2>4. ~streaming
    BY <1>1, <1>2 DEF FlagInv, isCurrent
  <2>5. FlagInv'
    BY <1>1, <2>1, <2>3, <2>4 DEF FlagInv, Awaited, Live, Hanging, isCurrent
  <2> QED BY <2>2, <2>5 DEF GenInv
<1> QED BY <1>4, <1>5

\* What is sent of an answer is a text.
LEMMA NextIs ==
    ASSUME NEW g \in Gens, NEW r \in Replies, NEW n \in 1 .. Len(r)
    PROVE  /\ Part(Answer(g, r), 0, n) \in Text
           /\ Len(Part(Answer(g, r), 0, n)) = n /\ n <= MaxPieces
<1>1. Answer(g, r) \in Text /\ Len(Answer(g, r)) = Len(r) /\ Len(r) \in Nat
      /\ Len(r) <= MaxPieces
  BY AnswerIs
<1>2. n \in 0 .. Len(Answer(g, r)) /\ 0 \in 0 .. n /\ n - 0 = n /\ n <= MaxPieces
  BY <1>1, PlaygroundAssumption
<1>3. /\ Part(Answer(g, r), 0, n) \in Text
      /\ Len(Part(Answer(g, r), 0, n)) = n - 0
  BY <1>1, <1>2, PartIs
<1> QED BY <1>2, <1>3

\* Chunks, the end and the failure of the stream that holds the controller.
LEMMA StreamStep ==
    ASSUME GenInv, NEW g \in Gens,
           StreamChunk(g) \/ StreamDone(g) \/ StreamFails(g) \/ StreamCloses(g)
    PROVE  GenInv'
<1>1. ControlInv /\ FlagInv /\ gen \in Gens
  BY GenTypes DEF GenInv
<1>2. isCurrent(g) /\ calls[g].pc = "stream"
  BY DEF StreamChunk, StreamDone, StreamFails, StreamCloses
<1>3. g = gen /\ control = [gen |-> gen, source |-> gen]
      /\ calls[gen].control = gen
  <2>1. control = [gen |-> calls[g].control, source |-> g]
    BY <1>2 DEF isCurrent
  <2>2. control.gen = calls[g].control
    BY <2>1
  <2>3. g = gen
    BY <1>1, <1>2, <2>2, HolderIsCurrent
  <2> QED BY <1>1, <2>1, <2>2, <2>3 DEF ControlInv
<1>4. requesting /\ streaming
  BY <1>1, <1>2, <1>3 DEF FlagInv, Awaited, Live, Hanging
<1> DEFINE With(p) == [calls[gen] EXCEPT !.pc = p]
<1>5. \A p \in {"closed", "over"} :
         With(p) \in Call /\ With(p).control = gen /\ With(p).pc = p
  BY <1>1, <1>3, GenTypes DEF Call
<1> HIDE DEF With
<1>6. CASE StreamChunk(g)
  <2>1. PICK r \in Replies : \E n \in 1 .. Len(r) :
          calls' = [calls EXCEPT ![gen] = Grown(calls[gen], Part(Answer(gen, r), 0, n))]
    <3>1. 0 + 1 = 1
      OBVIOUS
    <3> QED BY <1>3, <1>6, <3>1 DEF StreamChunk, Part
  <2>2. PICK n \in 1 .. Len(r) :
          calls' = [calls EXCEPT ![gen] = Grown(calls[gen], Part(Answer(gen, r), 0, n))]
    BY <2>1
  <2> DEFINE t == Part(Answer(gen, r), 0, n)
             c == Grown(calls[gen], t)
  <2>3. c \in Call /\ c.control = gen /\ c.pc = "stream"
    <3>1. t \in Text /\ Len(t) <= MaxPieces
      BY <1>1, NextIs
    <3> HIDE DEF t
    <3>2. calls[gen] \in Call
      BY <1>1, GenTypes
    <3> QED BY <1>2, <1>3, <3>1, <3>2, GrownIs
  <2>4. /\ calls' = [calls EXCEPT ![gen] = c]
        /\ UNCHANGED <<requesting, streaming, gen, acts, control>>
    BY <1>3, <1>6, <2>2 DEF StreamChunk, chatVars
  <2> HIDE DEF c
  <2>5. ControlInv'
    BY <1>1, <1>3, <2>3, <2>4, CallStep DEF ControlInv
  <2>6. calls'[gen'] = c
    BY <1>1, <2>4 DEF ControlInv
  <2>7. isCurrent(gen)'
    BY <1>3, <2>3, <2>4, <2>6 DEF isCurrent
  <2>8. FlagInv'
    BY <1>1, <1>4, <2>3, <2>4, <2>6, <2>7 DEF FlagInv, Awaited, Live, Hanging
  <2> QED BY <2>5, <2>8 DEF GenInv
<1>7. CASE StreamDone(g) \/ StreamFails(g)
  <2>1. /\ calls' = [calls EXCEPT ![gen] = With("over")]
        /\ control' = [gen |-> gen, source |-> NoGen]
        /\ requesting' = FALSE /\ streaming' = FALSE /\ UNCHANGED <<gen, acts>>
    BY <1>3, <1>7 DEF StreamDone, StreamFails, handleStreamComplete,
       handleStreamError, With
  <2>2. control' \in [gen : Nat, source : Int] /\ control'.gen = gen
    BY <1>1, <2>1 DEF ControlInv, NoGen
  <2>3. ControlInv'
    BY <1>1, <1>3, <1>5, <2>1, <2>2, CallStep
  <2>4. calls'[gen'].pc = "over"
    BY <1>1, <1>5, <2>1 DEF ControlInv
  <2>5. FlagInv'
    BY <2>1, <2>4 DEF FlagInv, Awaited, Live, Hanging, isCurrent
  <2> QED BY <2>3, <2>5 DEF GenInv
<1>8. CASE StreamCloses(g)
  <2>1. /\ calls' = [calls EXCEPT ![gen] = With("closed")]
        /\ UNCHANGED <<requesting, streaming, gen, acts, control>>
    BY <1>3, <1>8 DEF StreamCloses, chatVars, With
  <2>2. ControlInv'
    BY <1>1, <1>3, <1>5, <2>1, CallStep DEF ControlInv
  <2>3. calls'[gen'] = With("closed")
    BY <1>1, <2>1 DEF ControlInv
  <2>4. isCurrent(gen)'
    BY <1>3, <1>5, <2>1, <2>3 DEF isCurrent
  <2>5. FlagInv'
    BY <1>4, <1>5, <2>1, <2>3, <2>4 DEF FlagInv, Awaited, Live, Hanging
  <2> QED BY <2>2, <2>5 DEF GenInv
<1> QED BY <1>6, <1>7, <1>8

\* The http call of a generation without a stream ends.
LEMMA ChatStep ==
    ASSUME GenInv, NEW g \in Gens, ChatAnswers(g) \/ ChatFails(g)
    PROVE  GenInv'
<1>1. ControlInv /\ FlagInv /\ gen \in Gens
  BY GenTypes DEF GenInv
<1>2. g = gen /\ calls[gen].pc = "chat"
  BY DEF ChatAnswers, ChatFails, handleStreamError
<1>3. PICK c \in Call : /\ c.control = calls[gen].control /\ c.pc = "over"
                        /\ calls' = [calls EXCEPT ![gen] = c]
  <2> DEFINE Over(c) == [c EXCEPT !.pc = "over"]
  <2>1. \A c \in Call : /\ Over(c) \in Call /\ Over(c).control = c.control
                        /\ Over(c).pc = "over"
    BY DEF Call
  <2>2. calls[gen] \in Call
    BY <1>1, GenTypes
  <2>3. CASE ChatAnswers(g)
    <3>1. PICK r \in Replies :
            calls' = [calls EXCEPT ![gen] = Over(Grown(calls[gen], Answer(gen, r)))]
      BY <1>2, <2>3 DEF ChatAnswers
    <3> HIDE DEF Over
    <3>2. Answer(gen, r) \in Text /\ Len(Answer(gen, r)) <= MaxPieces
      BY <1>1, AnswerIs
    <3>3. /\ Grown(calls[gen], Answer(gen, r)) \in Call
          /\ Grown(calls[gen], Answer(gen, r)).control = calls[gen].control
      BY <2>2, <3>2, GrownIs
    <3> QED BY <2>1, <3>1, <3>3
  <2>4. CASE ChatFails(g)
    <3>1. calls' = [calls EXCEPT ![gen] = Over(calls[gen])]
      BY <1>2, <2>4 DEF ChatFails
    <3> HIDE DEF Over
    <3> QED BY <2>1, <2>2, <3>1
  <2> QED BY <2>3, <2>4
<1>4. requesting' = FALSE /\ UNCHANGED <<streaming, gen, acts, control>>
  BY <1>2 DEF ChatAnswers, ChatFails, handleStreamError
<1>5. ControlInv'
  BY <1>1, <1>3, <1>4, CallStep DEF ControlInv
<1>6. calls'[gen'].pc = "over"
  BY <1>1, <1>3, <1>4 DEF ControlInv
<1>7. ~streaming
  BY <1>1, <1>2 DEF FlagInv, isCurrent
<1>8. FlagInv'
  BY <1>1, <1>4, <1>6, <1>7 DEF FlagInv, Awaited, Live, Hanging, isCurrent
<1> QED BY <1>5, <1>8 DEF GenInv

\* Every task of the page keeps the invariant.
LEMMA GenNext == GenInv /\ [Next]_vars => GenInv'
<1> SUFFICES ASSUME GenInv, [Next]_vars PROVE GenInv'
  OBVIOUS
<1>1. CASE Tasks
  <2>1. UNCHANGED <<gen, control, calls, requesting, streaming, acts>>
    BY <1>1 DEF Tasks, Render, FlushFires, SaveFires, chatVars, genVars
  <2> QED BY <2>1, QuietStep
<1>2. CASE Network
  BY <1>2, HeadersStep, StreamStep, ChatStep DEF Network
<1>3. CASE User
  <2>1. ASSUME NEW stream \in BOOLEAN, Send(stream)
        PROVE  GenInv'
    BY <2>1, SendStep DEF Send
  <2>2. ASSUME NEW i \in DOMAIN msgs, NEW stream \in BOOLEAN,
               Regenerate(i, stream)
        PROVE  GenInv'
    BY <2>2, SendStep DEF Regenerate
  <2>3. ASSUME NEW i \in DOMAIN msgs, NEW submit \in BOOLEAN,
               NEW stream \in BOOLEAN, ApplyEdit(i, submit, stream)
        PROVE  GenInv'
    <3>1. CASE SendChat(stream)
      BY <2>3, <3>1, SendStep DEF ApplyEdit
    <3>2. CASE UNCHANGED <<requesting, streaming, genVars>>
      BY <2>3, <3>2, QuietStep DEF ApplyEdit, Act, genVars
    <3> QED BY <2>3, <3>1, <3>2 DEF ApplyEdit
  <2>4. ASSUME NEW i \in DOMAIN msgs, Delete(i) \/ EditMessage(i)
        PROVE  GenInv'
    BY <2>4, QuietStep DEF Delete, EditMessage, Act, genVars, chatVars
  <2>5. CASE Clear \/ CancelEdit
    BY <2>5, QuietStep DEF Clear, CancelEdit, Act, genVars, chatVars
  <2>6. CASE StopGeneration
    BY <2>6, GiveUpStep DEF StopGeneration, StopWith
  <2>7. CASE Leave \/ Unload
    BY <2>7, GiveUpStep DEF Leave, Unload, Unmounted
  <2>8. CASE Open
    BY <2>8, QuietStep DEF Open, genVars
  <2> QED BY <1>3, <2>1, <2>2, <2>3, <2>4, <2>5, <2>6, <2>7, <2>8 DEF User
<1>4. CASE UNCHANGED vars
  BY <1>4, QuietStep DEF vars, genVars, chatVars
<1> QED BY <1>1, <1>2, <1>3, <1>4 DEF Next

\* The page is opened and generates nothing.
LEMMA GenInit == Init => GenInv
<1> SUFFICES ASSUME Init PROVE GenInv
  OBVIOUS
<1>1. NoCall \in Call /\ NoCall.pc = "none" /\ NoCall.control = 0
  BY NoTextYet, PlaygroundAssumption DEF NoCall, Call, Gens
<1>2. 0 \in Gens /\ calls \in [Gens -> Call] /\ \A g \in Gens : calls[g] = NoCall
  BY <1>1, PlaygroundAssumption DEF Init, Gens
<1>3. ControlInv
  BY <1>1, <1>2, PlaygroundAssumption DEF Init, ControlInv, NoGen, Gens
<1>4. FlagInv
  BY <1>1, <1>2 DEF Init, FlagInv, Awaited, Live, Hanging, isCurrent
<1> QED BY <1>3, <1>4 DEF GenInv

-----------------------------------------------------------------------------
(* The reply being generated.                                              *)

\* The updaters that may wait in the queue.
Updater == [op : {"chunk", "complete", "fail", "answer", "eager"},
            gen : Gens \cup {NoGen}, text : Text, ms : Seq(Message)]

\* The conversation once the queue is rendered.
Coming == Applied(queue, msgs, gen)

\* React has run the first queued updater already.
EagerFirst == queue # <<>> /\ queue[1].op = "eager"

\* ms with another last message.
WithLast(ms, m) == [ms EXCEPT ![Len(ms)] = m]

\* The ends of the parts of call c are places in the text it was sent.
Parted(c) ==
    /\ c.sent \in Text /\ Len(c.sent) <= MaxPieces
    /\ 0 \in c.ends /\ Len(c.sent) \in c.ends /\ c.ends \subseteq 0 .. Len(c.sent)

\* While more may come for call c, the last reply is pending and has what was
\* sent before what waits to be flushed.
Arriving(m, c, wait, snap) ==
    /\ isAssistantMessagePending(m)
    /\ IF snap THEN IsPrefix(m.text, c.sent)
       ELSE \E k \in 0 .. Len(c.sent) : /\ Within(m.text, c.sent, 0, k)
                                        /\ Within(wait, c.sent, k, Len(c.sent))

\* The text t and what waits end like the text s that was sent.
EndArrives(t, wait, s) ==
    IF s = <<>> THEN t = <<>> /\ wait = <<>>
    ELSE IF wait = <<>> THEN t # <<>> /\ Last(t) = Last(s)
    ELSE Last(wait) = Last(s)

\* The text t of a reply and what waits to be flushed are what was sent, one
\* part after the other, if the parts can be told from snapshots.
Exact(t, c, wait, snap) ==
    /\ EndArrives(t, wait, c.sent)
    /\ snap \/ ~Echoes(c) =>
         \E k \in c.ends :
            /\ t = Part(c.sent, 0, k)
            /\ wait = IF ~snap THEN Part(c.sent, k, Len(c.sent))
                      ELSE IF k = Len(c.sent) THEN <<>> ELSE c.sent

\* What is not flushed is the last snapshot.
Waiting(c, wait, snap) == snap => wait \in {<<>>, c.sent}

\* A part does not change when more is sent.
LEMMA PartGrows ==
    ASSUME NEW s \in Text, NEW u \in Text, IsPrefix(s, u),
           NEW j \in 0 .. Len(s), NEW i \in 0 .. j
    PROVE  Part(s, i, j) = Part(u, i, j)
<1> DEFINE n == Len(s)
<1>1. s = Part(u, 0, n) /\ n \in 0 .. Len(u) /\ n \in Nat /\ Len(u) \in Nat
  BY PrefixIsPart, TextIs
<1>2. 0 \in 0 .. n /\ j \in 0 .. n - 0 /\ 0 + i = i /\ 0 + j = j
  BY <1>1
<1> HIDE DEF n
<1>3. Part(Part(u, 0, n), i, j) = Part(u, 0 + i, 0 + j)
  BY <1>1, <1>2, PartOfPart
<1> QED BY <1>1, <1>2, <1>3

\* Parts that cannot be told from snapshots stay so.
LEMMA EchoesStay ==
    ASSUME NEW c, NEW d, Parted(c), d.sent \in Text, IsPrefix(c.sent, d.sent),
           c.ends \subseteq d.ends, Echoes(c)
    PROVE  Echoes(d)
<1>1. PICK i \in c.ends, j \in c.ends, k \in c.ends :
        i < j /\ j < k /\ IsPrefix(Part(c.sent, i, j), Part(c.sent, j, k))
  BY DEF Echoes, Part
<1>2. /\ c.sent \in Text /\ Len(c.sent) \in Nat
      /\ i \in 0 .. Len(c.sent) /\ j \in 0 .. Len(c.sent) /\ k \in 0 .. Len(c.sent)
  BY TextIs DEF Parted
<1>3. i \in 0 .. j /\ j \in 0 .. k
  BY <1>1, <1>2
<1>4. Part(c.sent, i, j) = Part(d.sent, i, j)
  BY <1>2, <1>3, PartGrows
<1>5. Part(c.sent, j, k) = Part(d.sent, j, k)
  BY <1>2, <1>3, PartGrows
<1>6. IsPrefix(Part(d.sent, i, j), Part(d.sent, j, k))
  BY <1>1, <1>4, <1>5
<1> QED BY <1>1, <1>6 DEF Echoes, Part

\* Nothing waits: the text has the end of what was sent, or all of it.
LEMMA ExactIsWhole ==
    ASSUME NEW c, Parted(c), NEW snap \in BOOLEAN, NEW t \in Text,
           Exact(t, c, <<>>, snap)
    PROVE  EndIsKept(t, c.sent) /\ (snap \/ ~Echoes(c) => t = c.sent)
<1>1. EndIsKept(t, c.sent)
  BY DEF Exact, EndArrives, EndIsKept
<1>2. ASSUME snap \/ ~Echoes(c) PROVE t = c.sent
  <2> DEFINE s == c.sent
             n == Len(s)
  <2>1. PICK k \in c.ends :
          /\ t = Part(s, 0, k)
          /\ <<>> = IF ~snap THEN Part(s, k, n) ELSE IF k = n THEN <<>> ELSE s
    BY <1>2 DEF Exact
  <2>2. s \in Text /\ n \in Nat /\ k \in 0 .. n /\ n = Len(s) /\ n \in 0 .. Len(s)
        /\ (s = <<>> <=> n = 0)
    BY TextIs DEF Parted
  <2> HIDE DEF s, n
  <2>3. k = n
    <3>1. CASE ~snap
      BY <2>1, <2>2, <3>1, PartEmpty
    <3>2. CASE snap
      BY <2>1, <2>2, <3>2
    <3> QED BY <3>1, <3>2
  <2>4. t = s
    BY <2>1, <2>2, <2>3, PartWhole
  <2> QED BY <2>4 DEF s
<1> QED BY <1>1, <1>2

\* A reply has pieces of what was sent only.
LEMMA ArrivingIsWithin ==
    ASSUME NEW m \in Message, NEW c, Parted(c), NEW wait, NEW snap \in BOOLEAN,
           Arriving(m, c, wait, snap)
    PROVE  Within(m.text, c.sent, 0, Len(c.sent))
<1>1. m.text \in Text /\ c.sent \in Text /\ Len(c.sent) \in Nat
  BY TextIs DEF Parted, Message
<1>2. CASE snap
  BY <1>1, <1>2, PrefixIsPart DEF Arriving
<1>3. CASE ~snap
  <2>1. PICK k \in 0 .. Len(c.sent) : Within(m.text, c.sent, 0, k)
    BY <1>3 DEF Arriving
  <2>2. k \in Int /\ k <= Len(c.sent)
    BY <1>1
  <2> QED BY <1>1, <2>1, <2>2, WithinWider
<1> QED BY <1>2, <1>3

\* What a message may be.
Statuses == {"none", "loading", "streaming", "complete", "error"}

-----------------------------------------------------------------------------
(* Messages.                                                               *)

\* A message is its four fields.
LEMMA MessageIs ==
    ASSUME NEW m \in Message
    PROVE  /\ m.from \in {"user", "assistant"} /\ m.key \in Gens
           /\ m.status \in Statuses /\ m.text \in Text
           /\ m = [from |-> m.from, key |-> m.key, status |-> m.status,
                   text |-> m.text]
BY DEF Message, Statuses

\* m with status x and text t.
As(m, x, t) ==
    [from |-> m.from, key |-> m.key, status |-> x, text |-> t]

\* It is a message, and the same one.
LEMMA AsIs ==
    ASSUME NEW m \in Message, NEW x \in Statuses, NEW t \in Text
    PROVE  /\ As(m, x, t) \in Message
           /\ As(m, x, t).text = t /\ As(m, x, t).status = x
           /\ As(m, x, t).from = m.from /\ As(m, x, t).key = m.key
           /\ Id(As(m, x, t)) = Id(m)
BY DEF Message, Statuses, Id, As

\* What the updaters make of a message.
LEMMA UpdateIs ==
    ASSUME NEW m \in Message, NEW g, NEW t
    PROVE  /\ isAssistantMessagePending(m) =>
                UpdateMessage(Complete(g), m) = As(m, "complete", m.text)
           /\ UpdateMessage(Stopped(g), m) =
                IF isAssistantMessagePending(m) THEN As(m, "complete", m.text)
                ELSE m
           /\ UpdateMessage(Failed(g), m) = As(m, "error", ErrorText)
           /\ UpdateMessage(Answered(g, t), m) = As(m, "complete", t)
           /\ UpdateMessage(Chunk(g, t), m) = applyStreamingChunk(m, t)
<1>1. UpdateMessage(Chunk(g, t), m) = applyStreamingChunk(m, t)
  BY DEF UpdateMessage, Chunk, Update
<1>2. UpdateMessage(Failed(g), m) = As(m, "error", ErrorText)
  BY DEF UpdateMessage, Failed, Update, As, Message
<1>3. UpdateMessage(Answered(g, t), m) = As(m, "complete", t)
  BY DEF UpdateMessage, Answered, Update, As, Message
<1>4. completeAssistantMessage(m) = As(m, "complete", m.text)
  BY DEF completeAssistantMessage, As, Message
<1>5. isAssistantMessagePending(m) => ~isAssistantMessageFinal(m)
  BY DEF isAssistantMessagePending, isAssistantMessageFinal
<1>6. UpdateMessage(Complete(g), m) =
        IF isAssistantMessageFinal(m) THEN m ELSE completeAssistantMessage(m)
  BY DEF UpdateMessage, Complete, Update
<1>7. UpdateMessage(Stopped(g), m) =
        IF isAssistantMessagePending(m) THEN completeAssistantMessage(m) ELSE m
  BY DEF UpdateMessage, Stopped, Update
<1> QED BY <1>1, <1>2, <1>3, <1>4, <1>5, <1>6, <1>7

\* New messages.
LEMMA NewMessages ==
    ASSUME NEW g \in Gens
    PROVE  /\ createUserMessage(g) \in Message
           /\ createLoadingAssistantMessage(g) \in Message
BY FixedTexts DEF createUserMessage, createLoadingAssistantMessage, Message

\* Flushing what waits.
LEMMA ChunkMessage ==
    ASSUME NEW m \in Message, NEW c, Parted(c),
           NEW wait \in Text, NEW snap \in BOOLEAN, wait # <<>>,
           Arriving(m, c, wait, snap), Waiting(c, wait, snap)
    PROVE  /\ applyStreamingChunk(m, wait) \in Message
           /\ Id(applyStreamingChunk(m, wait)) = Id(m)
           /\ Arriving(applyStreamingChunk(m, wait), c, <<>>, snap)
           /\ Exact(m.text, c, wait, snap) =>
                Exact(applyStreamingChunk(m, wait).text, c, <<>>, snap)
<1> DEFINE t == mergePendingStreamChunk(m.text, wait)
           e == [m EXCEPT !.text = t, !.status = "streaming"]
           s == c.sent
           n == Len(s)
<1>1. m.text \in Text /\ t \in Text /\ t # <<>> /\ Last(t) = Last(wait)
  BY MessageIs, MergeIs, MergeEnd
<1>2. applyStreamingChunk(m, wait) = e
  <2>1. m.status # "error"
    BY DEF Arriving, isAssistantMessagePending
  <2> QED BY <2>1 DEF applyStreamingChunk
<1>3. /\ s \in Text /\ n \in Nat /\ n \in 0 .. n /\ 0 \in c.ends /\ n \in c.ends
      /\ c.ends \subseteq 0 .. n /\ n = Len(s) /\ (s = <<>> <=> n = 0)
  BY TextIs DEF Parted
<1>4. t = mergePendingStreamChunk(m.text, wait) /\ s = c.sent
  OBVIOUS
<1> HIDE DEF t, s, n
<1>5. e \in Message /\ Id(e) = Id(m) /\ e.text = t /\ e.status = "streaming"
  <2>1. "streaming" \in Statuses
    BY DEF Statuses
  <2>2. e = [m EXCEPT !.text = t, !.status = "streaming"]
    OBVIOUS
  <2> QED BY <1>1, <2>1, <2>2 DEF Message, Statuses, Id
<1> HIDE DEF e
<1>6. isAssistantMessagePending(e)
  BY <1>5 DEF isAssistantMessagePending
<1>7. Within(<<>>, s, n, n)
  BY <1>3, WithinEmpty
<1>8. Part(s, 0, n) = s /\ Part(s, n, n) = <<>>
  BY <1>3, PartWhole, PartEmpty
<1>9. ASSUME EndArrives(m.text, wait, s) PROVE EndArrives(t, <<>>, s)
  BY <1>1, <1>9 DEF EndArrives
<1>10. CASE snap
  <2>1. IsPrefix(m.text, s) /\ wait = s
    BY <1>4, <1>10 DEF Arriving, Waiting
  <2>2. t = s
    BY <1>1, <1>3, <1>4, <2>1, MergeSnapshot
  <2>3. Arriving(e, c, <<>>, snap)
    BY <1>3, <1>4, <1>5, <1>6, <1>10, <2>2, PrefixOfItself DEF Arriving
  <2>4. ASSUME Exact(m.text, c, wait, snap) PROVE Exact(t, c, <<>>, snap)
    <3>1. EndArrives(t, <<>>, s)
      BY <1>4, <1>9, <2>4 DEF Exact
    <3> QED BY <1>3, <1>4, <1>8, <1>10, <2>2, <3>1 DEF Exact
  <2> QED BY <1>2, <1>5, <2>3, <2>4
<1>11. CASE ~snap
  <2>1. PICK k \in 0 .. n : Within(m.text, s, 0, k) /\ Within(wait, s, k, n)
    BY <1>3, <1>4, <1>11 DEF Arriving
  <2>2. k \in Int /\ 0 <= k /\ k <= n /\ n \in Int
    BY <1>3
  <2>3. Within(t, s, 0, n)
    BY <1>1, <1>4, <2>1, <2>2, WithinMerge
  <2>4. Arriving(e, c, <<>>, snap)
    BY <1>3, <1>4, <1>5, <1>6, <1>7, <1>11, <2>3 DEF Arriving
  <2>5. ASSUME Exact(m.text, c, wait, snap) PROVE Exact(t, c, <<>>, snap)
    <3>1. EndArrives(t, <<>>, s)
      BY <1>4, <1>9, <2>5 DEF Exact
    <3>2. ASSUME ~Echoes(c) PROVE t = s
      <4>1. PICK x \in c.ends : m.text = Part(s, 0, x) /\ wait = Part(s, x, n)
        BY <1>3, <1>4, <1>11, <2>5, <3>2 DEF Exact
      <4>2. x \in 0 .. n /\ 0 \in 0 .. x
        BY <1>3
      <4>3. ~(0 < x /\ x < n /\ IsPrefix(Part(s, 0, x), Part(s, x, n)))
        BY <1>3, <1>4, <3>2 DEF Echoes, Part
      <4>4. mergePendingStreamChunk(Part(s, 0, x), Part(s, x, n)) = Part(s, 0, n)
        BY <1>3, <4>2, <4>3, MergeParts
      <4> QED BY <1>4, <1>8, <4>1, <4>4
    <3> QED BY <1>3, <1>4, <1>8, <1>11, <3>1, <3>2 DEF Exact
  <2> QED BY <1>2, <1>5, <2>4, <2>5
<1> QED BY <1>10, <1>11

\* What upstream sends when it has sent s and goes on to u.
NextChunk(s, u, snap) == IF snap THEN u ELSE Part(u, Len(s), Len(u))

\* More is sent, and waits.
LEMMA ChunkWaits ==
    ASSUME NEW m \in Message, NEW c, Parted(c), NEW d, Parted(d),
           IsPrefix(c.sent, d.sent), Len(c.sent) < Len(d.sent),
           d.ends = c.ends \cup {Len(d.sent)},
           NEW wait \in Text, NEW snap \in BOOLEAN,
           Arriving(m, c, wait, snap), Waiting(c, wait, snap)
    PROVE  LET more == mergePendingStreamChunk(wait, NextChunk(c.sent, d.sent, snap))
           IN  /\ more \in Text
               /\ Arriving(m, d, more, snap)
               /\ Waiting(d, more, snap)
               /\ Exact(m.text, c, wait, snap) => Exact(m.text, d, more, snap)
<1> DEFINE s == c.sent
           u == d.sent
           n == Len(s)
           p == Len(u)
           next == NextChunk(s, u, snap)
           more == mergePendingStreamChunk(wait, next)
<1>1. /\ s \in Text /\ n \in Nat /\ 0 \in c.ends /\ n \in c.ends /\ c.ends \subseteq 0 .. n
      /\ u \in Text /\ p \in Nat /\ n < p /\ IsPrefix(s, u) /\ d.ends = c.ends \cup {p}
  BY TextIs DEF Parted
<1>2. s = c.sent /\ u = d.sent /\ n = Len(s) /\ p = Len(u)
      /\ more = mergePendingStreamChunk(wait, next) /\ next = NextChunk(s, u, snap)
  OBVIOUS
<1>3. m.text \in Text
  BY MessageIs
<1> HIDE DEF s, u, n, p, next, more
<1>4. /\ n \in 0 .. p /\ p \in 0 .. p /\ n \in Int /\ p \in Int /\ p \in 0 .. Len(u)
      /\ u # <<>> /\ n \in 0 .. Len(s) /\ 0 <= n
  BY <1>1, <1>2, TextIs
<1>5. next \in Text /\ next # <<>> /\ Last(next) = Last(u)
  <2>1. CASE snap
    BY <1>1, <1>2, <1>4, <2>1 DEF NextChunk
  <2>2. CASE ~snap
    <3>1. next = Part(u, n, p)
      BY <1>2, <2>2 DEF NextChunk
    <3>2. Part(u, n, p) \in Text /\ Len(Part(u, n, p)) = p - n
      BY <1>1, <1>4, PartIs
    <3>3. p - n \in 1 .. p - n /\ n + (p - n) = p /\ p - n # 0
      BY <1>1
    <3>4. Part(u, n, p)[p - n] = u[n + (p - n)]
      BY <1>1, <1>4, <3>3, PartAt
    <3>5. next # <<>>
      BY <3>1, <3>2, <3>3, TextIs
    <3>6. next[Len(next)] = u[p]
      BY <3>1, <3>2, <3>3, <3>4
    <3> QED BY <1>2, <3>1, <3>2, <3>5, <3>6 DEF Last
  <2> QED BY <2>1, <2>2
<1>6. more \in Text /\ more # <<>> /\ Last(more) = Last(u)
  BY <1>2, <1>5, MergeIs, MergeEnd
<1>7. EndArrives(m.text, more, u)
  BY <1>4, <1>6 DEF EndArrives
<1>8. \A k \in c.ends : k \in d.ends /\ k # p /\ k \in 0 .. n
  BY <1>1
<1>9. \A k \in 0 .. n : Part(s, 0, k) = Part(u, 0, k) /\ Part(s, k, n) = Part(u, k, n)
  <2> TAKE k \in 0 .. n
  <2>1. k \in 0 .. Len(s) /\ 0 \in 0 .. k
    BY <1>1, <1>2
  <2> QED BY <1>1, <1>4, <2>1, PartGrows
<1>10. CASE snap
  <2>1. next = u
    BY <1>2, <1>10 DEF NextChunk
  <2>2. more = u
    <3>1. CASE wait = <<>>
      BY <1>2, <1>5, <2>1, <3>1, MergeIs
    <3>2. CASE wait = s
      BY <1>1, <1>2, <2>1, <3>2, MergeSnapshot
    <3> QED BY <1>2, <1>10, <3>1, <3>2 DEF Waiting
  <2>3. IsPrefix(m.text, u)
    BY <1>1, <1>2, <1>3, <1>10, PrefixOfPrefix DEF Arriving
  <2>4. Arriving(m, d, more, snap)
    BY <1>2, <1>10, <2>3 DEF Arriving
  <2>5. Waiting(d, more, snap)
    BY <1>2, <2>2 DEF Waiting
  <2>6. ASSUME Exact(m.text, c, wait, snap) PROVE Exact(m.text, d, more, snap)
    <3>1. PICK k \in c.ends : m.text = Part(s, 0, k)
      BY <1>2, <1>10, <2>6 DEF Exact
    <3>2. m.text = Part(u, 0, k)
      BY <1>8, <1>9, <3>1
    <3> QED BY <1>2, <1>7, <1>8, <1>10, <2>2, <3>2 DEF Exact
  <2> QED BY <1>2, <1>6, <2>4, <2>5, <2>6
<1>11. CASE ~snap
  <2>1. next = Part(u, n, p)
    BY <1>2, <1>11 DEF NextChunk
  <2>2. PICK k \in 0 .. n : Within(m.text, s, 0, k) /\ Within(wait, s, k, n)
    BY <1>2, <1>11 DEF Arriving
  <2>3. k \in Int /\ 0 <= k /\ k <= n /\ k \in 0 .. p /\ n <= Len(s) /\ k <= Len(s)
        /\ n <= p
    BY <1>1, <1>2
  <2>4. Within(m.text, u, 0, k) /\ Within(wait, u, k, n)
    BY <1>1, <1>4, <2>2, <2>3, WithinLonger
  <2>5. Within(next, u, n, p)
    BY <1>1, <1>4, <2>1, WithinPart
  <2>6. Within(more, u, k, p)
    BY <1>2, <1>4, <1>5, <2>3, <2>4, <2>5, WithinMerge
  <2>7. Arriving(m, d, more, snap)
    BY <1>2, <1>11, <2>3, <2>4, <2>6 DEF Arriving
  <2>8. Waiting(d, more, snap)
    BY <1>11 DEF Waiting
  <2>9. ASSUME Exact(m.text, c, wait, snap) PROVE Exact(m.text, d, more, snap)
    <3>1. ASSUME ~Echoes(d)
          PROVE  \E x \in d.ends : m.text = Part(u, 0, x) /\ more = Part(u, x, p)
      <4>1. ~Echoes(c)
        BY <1>1, <1>2, <3>1, EchoesStay
      <4>2. PICK x \in c.ends : m.text = Part(s, 0, x) /\ wait = Part(s, x, n)
        BY <1>2, <1>11, <2>9, <4>1 DEF Exact
      <4>3. m.text = Part(u, 0, x) /\ wait = Part(u, x, n) /\ x \in d.ends
        BY <1>8, <1>9, <4>2
      <4>4. x \in 0 .. n /\ n \in d.ends /\ p \in d.ends
        BY <1>1, <1>8
      <4>5. ~(x < n /\ n < p /\ IsPrefix(Part(u, x, n), Part(u, n, p)))
        BY <1>2, <3>1, <4>3, <4>4 DEF Echoes, Part
      <4>6. mergePendingStreamChunk(Part(u, x, n), Part(u, n, p)) = Part(u, x, p)
        BY <1>1, <1>4, <4>4, <4>5, MergeParts
      <4> QED BY <1>2, <2>1, <4>3, <4>6
    <3> QED BY <1>2, <1>7, <1>11, <3>1 DEF Exact
  <2> QED BY <1>2, <1>6, <2>7, <2>8, <2>9
<1> QED BY <1>10, <1>11

\* What a message may have of call c: all of it in order, or pieces of it if the
\* parts cannot be told from snapshots, or the storage shortened the message.
ToldOf(c, snap, short) ==
    [sent |-> c.sent,
     kind |-> IF short \/ (~snap /\ Echoes(c)) THEN "loose" ELSE "exact"]

\* The same for every generation.
Told == [k \in Gens |-> ToldOf(calls[k], snapshots, k \in shortened)]

\* Later, more was sent.
Extends(c, d) ==
    /\ c.sent \in Text /\ d.sent \in Text /\ IsPrefix(c.sent, d.sent)
    /\ c.kind = "loose" => d.kind = "loose"

\* The text t of generation k has what was sent in order, and from the start
\* without a gap unless c is loose or an edit was saved over k.
Copied(t, c, k, cut) ==
    /\ Within(Unmarked(t), c.sent, 0, Len(c.sent))
    /\ k \in cut \/ c.kind = "loose" \/ IsPrefix(t, c.sent)

\* A message of a page whose generation is g, cs being what was sent, and edits
\* saved over the generations in cut.
MessageOK(m, g, cs, cut) ==
    /\ m.key <= g /\ Len(m.text) <= MaxPieces
    /\ m.from = "user" => m.status = "none"
    /\ \/ m.from = "user" \/ m.text \in {EditedText, ErrorText}
       \/ Copied(m.text, cs[m.key], m.key, cut)

\* No two messages share a key.
UniqueKeys(ms) ==
    \A i, j \in 1 .. Len(ms) : Id(ms[i]) = Id(ms[j]) => i = j

\* No message is pending, edits saved over replies aside.
Settled(ms, cut) ==
    \A i \in 1 .. Len(ms) : isAssistantMessagePending(ms[i]) => ms[i].key \in cut

\* No message but the last is.
SettledButLast(ms, cut) ==
    \A i \in 1 .. Len(ms) :
        isAssistantMessagePending(ms[i]) => i = Len(ms) \/ ms[i].key \in cut

\* A conversation of such a page.
ConversationOK(ms, g, cs, cut) ==
    /\ ms \in Seq(Message)
    /\ \A i \in 1 .. Len(ms) : MessageOK(ms[i], g, cs, cut)
    /\ UniqueKeys(ms) /\ SettledButLast(ms, cut)

\* A reply that is shown in full, or with its end.
WholeMessage(m, cs) ==
    /\ m.status = "complete"
    /\ \/ m.text = EditedText
       \/ IF cs[m.key].kind = "loose" THEN EndIsKept(m.text, cs[m.key].sent)
          ELSE m.text = cs[m.key].sent

\* The replies to the generations G are.
Whole(ms, G, cs) ==
    \A i \in 1 .. Len(ms) :
        ms[i].from = "assistant" /\ ms[i].key \in G => WholeMessage(ms[i], cs)

\* ms is the conversation ns, but perhaps for its last reply.
SameButLast(ms, ns) ==
    /\ Len(ms) = Len(ns)
    /\ \A i \in 1 .. Len(ms) : Id(ms[i]) = Id(ns[i])
    /\ \A i \in 1 .. Len(ms) : i # Len(ms) => ms[i] = ns[i]

\* The replies before generation g that ns has, ms has too, with the same
\* status, and the same text unless it was edited.
Kept(ms, ns, g) ==
    \A j \in 1 .. Len(ns) : ns[j].from = "assistant" /\ ns[j].key < g =>
        \E i \in 1 .. Len(ms) :
            /\ Id(ms[i]) = Id(ns[j]) /\ ns[j].status = ms[i].status
            /\ ns[j].text \in {ms[i].text, EditedText}

-----------------------------------------------------------------------------
(* Conversations.                                                          *)

\* A conversation is a function on the numbers up to its length.
LEMMA ConversationIs ==
    ASSUME NEW ms \in Seq(Message)
    PROVE  /\ Len(ms) \in Nat /\ DOMAIN ms = 1 .. Len(ms)
           /\ \A i \in 1 .. Len(ms) : ms[i] \in Message
           /\ ms = <<>> <=> Len(ms) = 0
           /\ ms # <<>> => /\ Len(ms) \in 1 .. Len(ms) /\ Last(ms) = ms[Len(ms)]
                           /\ Last(ms) \in Message
BY DEF Last

\* A text copied from what was sent is one later.
LEMMA CopiedGrows ==
    ASSUME NEW t \in Text, NEW c, NEW d, Extends(c, d), NEW k, NEW cut, NEW more,
           cut \subseteq more, Copied(t, c, k, cut)
    PROVE  Copied(t, d, k, more)
<1> DEFINE s == c.sent
           u == d.sent
<1>1. s \in Text /\ u \in Text /\ IsPrefix(s, u) /\ (c.kind = "loose" => d.kind = "loose")
  BY DEF Extends
<1>2. Len(s) \in Nat /\ Len(u) \in Nat /\ Len(s) <= Len(u)
  BY <1>1, TextIs, PrefixIs
<1>3. Unmarked(t) \in Text
  BY UnmarkedIs
<1>4. Within(Unmarked(t), s, 0, Len(s))
  BY DEF Copied
<1> HIDE DEF s, u
<1>5. Within(Unmarked(t), u, 0, Len(s))
  BY <1>1, <1>2, <1>4, WithinLonger
<1>6. Within(Unmarked(t), u, 0, Len(u))
  BY <1>2, <1>3, <1>5, WithinWider
<1>7. IsPrefix(t, s) => IsPrefix(t, u)
  BY <1>1, PrefixOfPrefix
<1> QED BY <1>1, <1>6, <1>7 DEF Copied, s, u

\* Later, with more sent and more cut, it is still one.
LEMMA ConversationGrows ==
    ASSUME NEW ms, NEW g \in Int, NEW h \in Int, NEW cs, NEW ds, NEW cut, NEW more,
           ConversationOK(ms, g, cs, cut), g <= h, cut \subseteq more,
           \A k \in Gens : k <= g => Extends(cs[k], ds[k])
    PROVE  ConversationOK(ms, h, ds, more)
<1>1. ms \in Seq(Message) /\ UniqueKeys(ms)
  BY DEF ConversationOK
<1>2. ASSUME NEW i \in 1 .. Len(ms) PROVE MessageOK(ms[i], h, ds, more)
  <2> DEFINE m == ms[i]
  <2>1. m \in Message /\ m.key \in Gens /\ m.key \in Int
    BY <1>1, MessageIs, ConversationIs, PlaygroundAssumption DEF Gens
  <2>2. MessageOK(m, g, cs, cut)
    BY DEF ConversationOK
  <2> HIDE DEF m
  <2>3. m.key <= g
    BY <2>2 DEF MessageOK
  <2>4. m.key <= h
    BY <2>1, <2>3
  <2>5. m.text \in Text /\ Extends(cs[m.key], ds[m.key])
    BY <2>1, <2>3, MessageIs
  <2>6. Copied(m.text, cs[m.key], m.key, cut) =>
          Copied(m.text, ds[m.key], m.key, more)
    BY <2>5, CopiedGrows
  <2>7. MessageOK(m, h, ds, more)
    BY <2>2, <2>4, <2>6 DEF MessageOK
  <2> QED BY <2>7 DEF m
<1>3. SettledButLast(ms, more)
  BY DEF ConversationOK, SettledButLast
<1> QED BY <1>1, <1>2, <1>3 DEF ConversationOK

\* Nothing sent for the generations G: they are as whole as before.
LEMMA WholeGrows ==
    ASSUME NEW ms \in Seq(Message), NEW G, NEW H, NEW cs, NEW ds, Whole(ms, G, cs),
           \A i \in 1 .. Len(ms) : ms[i].from = "assistant" /\ ms[i].key \in H =>
              ms[i].key \in G /\ cs[ms[i].key] = ds[ms[i].key]
    PROVE  Whole(ms, H, ds)
BY DEF Whole, WholeMessage

\* A conversation with another last message.
LEMMA WithLastIs ==
    ASSUME NEW ms \in Seq(Message), ms # <<>>, NEW m \in Message
    PROVE  /\ WithLast(ms, m) \in Seq(Message) /\ WithLast(ms, m) # <<>>
           /\ Len(WithLast(ms, m)) = Len(ms)
           /\ WithLast(ms, m)[Len(ms)] = m /\ Last(WithLast(ms, m)) = m
           /\ \A i \in 1 .. Len(ms) : i # Len(ms) => WithLast(ms, m)[i] = ms[i]
<1> DEFINE ns == WithLast(ms, m)
<1>1. /\ ns \in Seq(Message) /\ Len(ns) = Len(ms) /\ ns[Len(ms)] = m
      /\ \A i \in 1 .. Len(ms) : i # Len(ms) => ns[i] = ms[i]
  BY DEF WithLast
<1> HIDE DEF ns
<1>2. ns # <<>>
  BY <1>1
<1>3. Last(ns) = m
  BY <1>1 DEF Last
<1> QED BY <1>1, <1>2, <1>3 DEF ns

\* It is one, if the message is right.
LEMMA ConversationWithLast ==
    ASSUME NEW ms, NEW g, NEW cs, NEW cut, ConversationOK(ms, g, cs, cut),
           ms # <<>>, NEW m \in Message, MessageOK(m, g, cs, cut),
           Id(m) = Id(Last(ms))
    PROVE  /\ ConversationOK(WithLast(ms, m), g, cs, cut)
           /\ SameButLast(WithLast(ms, m), ms)
<1>1. ms \in Seq(Message)
  BY DEF ConversationOK
<1> DEFINE ns == WithLast(ms, m)
<1>2. /\ ns \in Seq(Message) /\ ns # <<>> /\ Len(ns) = Len(ms)
      /\ ns[Len(ms)] = m /\ Last(ns) = m
      /\ \A i \in 1 .. Len(ms) : i # Len(ms) => ns[i] = ms[i]
  BY <1>1, WithLastIs
<1> HIDE DEF ns
<1>3. Last(ms) = ms[Len(ms)]
  BY <1>1, ConversationIs
<1>4. \A i \in 1 .. Len(ms) : Id(ns[i]) = Id(ms[i])
  BY <1>2, <1>3
<1>5. SameButLast(ns, ms)
  BY <1>2, <1>4 DEF SameButLast
<1>6. \A i \in 1 .. Len(ns) : MessageOK(ns[i], g, cs, cut)
  BY <1>2 DEF ConversationOK
<1>7. UniqueKeys(ns)
  BY <1>2, <1>4 DEF ConversationOK, UniqueKeys
<1>8. SettledButLast(ns, cut)
  BY <1>2 DEF ConversationOK, SettledButLast
<1> QED BY <1>2, <1>5, <1>6, <1>7, <1>8 DEF ConversationOK, ns

\* It is settled when that message is.
LEMMA SettledWithLast ==
    ASSUME NEW ns, NEW cut, SettledButLast(ns, cut),
           isAssistantMessagePending(ns[Len(ns)]) => ns[Len(ns)].key \in cut
    PROVE  Settled(ns, cut)
BY DEF Settled, SettledButLast

\* What is the same but for the last reply, of generation g, is whole but for
\* that reply.
LEMMA WholeButLast ==
    ASSUME NEW ms \in Seq(Message), NEW ns \in Seq(Message), ms # <<>>,
           SameButLast(ns, ms), UniqueKeys(ms), NEW G, NEW H, NEW cs, NEW ds,
           Last(ms).from = "assistant", Whole(ms, G, cs),
           H \ {Last(ms).key} \subseteq G,
           \A k \in H : k # Last(ms).key => cs[k] = ds[k],
           Last(ms).key \in H => WholeMessage(Last(ns), ds)
    PROVE  Whole(ns, H, ds)
<1>1. /\ Len(ms) \in Nat /\ Len(ms) \in 1 .. Len(ms) /\ Last(ms) = ms[Len(ms)]
      /\ Len(ns) = Len(ms) /\ ns # <<>> /\ Last(ns) = ns[Len(ns)]
  BY ConversationIs DEF SameButLast
<1> SUFFICES ASSUME NEW i \in 1 .. Len(ns), ns[i].from = "assistant", ns[i].key \in H
             PROVE  WholeMessage(ns[i], ds)
  BY DEF Whole
<1>2. CASE i = Len(ns)
  <2>1. ns[i].key = Last(ms).key
    BY <1>1, <1>2 DEF SameButLast, Id
  <2> QED BY <1>1, <1>2, <2>1
<1>3. CASE i # Len(ns)
  <2>1. ns[i] = ms[i]
    BY <1>3 DEF SameButLast
  <2>2. ms[i].key # Last(ms).key
    <3>1. Id(ms[i]) # Id(ms[Len(ms)])
      BY <1>1, <1>3 DEF UniqueKeys
    <3> QED BY <1>1, <2>1, <3>1 DEF Id
  <2>3. WholeMessage(ms[i], cs) /\ cs[ms[i].key] = ds[ms[i].key]
    BY <1>1, <2>1, <2>2 DEF Whole
  <2> QED BY <2>1, <2>3 DEF WholeMessage
<1> QED BY <1>2, <1>3

\* Replies that were shown in full still have their end.
LEMMA WholeLoosens ==
    ASSUME NEW ms \in Seq(Message), NEW G, NEW cs, NEW ds, Whole(ms, G, cs),
           \A i \in 1 .. Len(ms) :
              /\ cs[ms[i].key].sent \in Text
              /\ ds[ms[i].key].sent = cs[ms[i].key].sent
              /\ cs[ms[i].key].kind = "loose" => ds[ms[i].key].kind = "loose"
    PROVE  Whole(ms, G, ds)
<1> SUFFICES ASSUME NEW i \in 1 .. Len(ms), ms[i].from = "assistant", ms[i].key \in G
             PROVE  WholeMessage(ms[i], ds)
  BY DEF Whole
<1> DEFINE m == ms[i]
           c == cs[m.key]
           d == ds[m.key]
<1>1. WholeMessage(m, cs)
  BY DEF Whole
<1>2. c.sent \in Text /\ d.sent = c.sent /\ (c.kind = "loose" => d.kind = "loose")
  OBVIOUS
<1>3. /\ m.status = "complete"
      /\ \/ m.text = EditedText
         \/ IF c.kind = "loose" THEN EndIsKept(m.text, c.sent) ELSE m.text = c.sent
  BY <1>1 DEF WholeMessage
<1>4. EndIsKept(c.sent, c.sent)
  BY DEF EndIsKept
<1> HIDE DEF m, c, d
<1>5. \/ m.text = EditedText
      \/ IF d.kind = "loose" THEN EndIsKept(m.text, d.sent) ELSE m.text = d.sent
  BY <1>2, <1>3, <1>4
<1>6. WholeMessage(m, ds)
  BY <1>3, <1>5 DEF WholeMessage, d
<1> QED BY <1>6 DEF m

\* Every message of ns is a message of ms, f says which.
PartOf(ns, ms, f) ==
    /\ \A i \in 1 .. Len(ns) : f[i] \in 1 .. Len(ms) /\ ns[i] = ms[f[i]]
    /\ \A i, j \in 1 .. Len(ns) : f[i] = f[j] => i = j

\* Some messages of a conversation.
LEMMA PartConversation ==
    ASSUME NEW ms, NEW ns \in Seq(Message), NEW f, PartOf(ns, ms, f),
           NEW g, NEW cs, NEW cut, ConversationOK(ms, g, cs, cut),
           SettledButLast(ns, cut)
    PROVE  /\ ConversationOK(ns, g, cs, cut)
           /\ \A G : Whole(ms, G, cs) => Whole(ns, G, cs)
           /\ \A h : Kept(ms, ns, h)
<1>1. \A i \in 1 .. Len(ns) : MessageOK(ns[i], g, cs, cut)
  BY DEF ConversationOK, PartOf
<1>2. UniqueKeys(ns)
  <2> SUFFICES ASSUME NEW i \in 1 .. Len(ns), NEW j \in 1 .. Len(ns),
                      Id(ns[i]) = Id(ns[j])
               PROVE  i = j
    BY DEF UniqueKeys
  <2>1. f[i] \in 1 .. Len(ms) /\ f[j] \in 1 .. Len(ms)
        /\ Id(ms[f[i]]) = Id(ms[f[j]])
    BY DEF PartOf
  <2>2. f[i] = f[j]
    BY <2>1 DEF ConversationOK, UniqueKeys
  <2> QED BY <2>2 DEF PartOf
<1>3. ASSUME NEW G, Whole(ms, G, cs) PROVE Whole(ns, G, cs)
  BY <1>3 DEF Whole, PartOf
<1>4. ASSUME NEW h PROVE Kept(ms, ns, h)
  BY DEF Kept, PartOf
<1> QED BY <1>1, <1>2, <1>3, <1>4 DEF ConversationOK

\* The first messages.
LEMMA FirstMessages ==
    ASSUME NEW ms \in Seq(Message), NEW n \in 0 .. Len(ms)
    PROVE  /\ SubSeq(ms, 1, n) \in Seq(Message) /\ Len(SubSeq(ms, 1, n)) = n
           /\ \A i \in 1 .. n : SubSeq(ms, 1, n)[i] = ms[i]
           /\ \E f : PartOf(SubSeq(ms, 1, n), ms, f)
<1> DEFINE ns == SubSeq(ms, 1, n)
           f == [i \in 1 .. n |-> i]
<1>1. n \in Nat /\ n <= Len(ms) /\ Len(ms) \in Nat
  BY ConversationIs
<1>2. ns \in Seq(Message) /\ Len(ns) = n /\ \A i \in 1 .. n : ns[i] = ms[i]
  BY <1>1
<1>3. \A i \in 1 .. n : i \in 1 .. Len(ms)
  BY <1>1
<1> HIDE DEF ns
<1>4. PartOf(ns, ms, f)
  BY <1>2, <1>3 DEF PartOf
<1> HIDE DEF f
<1> QED BY <1>2, <1>4 DEF ns

\* The last messages.
LEMMA TailMessages ==
    ASSUME NEW ms, NEW g, NEW cs, NEW cut, ConversationOK(ms, g, cs, cut),
           NEW d \in 0 .. Len(ms)
    PROVE  LET ns == SubSeq(ms, d + 1, Len(ms))
           IN  /\ ConversationOK(ns, g, cs, cut)
               /\ \A G : Whole(ms, G, cs) => Whole(ns, G, cs)
               /\ Settled(ms, cut) => Settled(ns, cut)
<1> DEFINE n == Len(ms) - d
           ns == SubSeq(ms, d + 1, Len(ms))
           f == [i \in 1 .. n |-> i + d]
<1>1. ms \in Seq(Message) /\ SettledButLast(ms, cut)
  BY DEF ConversationOK
<1>2. Len(ms) \in Nat /\ d \in Nat /\ n \in Nat /\ d + n = Len(ms)
  BY <1>1, ConversationIs
<1>3. ns \in Seq(Message) /\ Len(ns) = n /\ \A i \in 1 .. n : ns[i] = ms[i + d]
  <2> DEFINE k == d + 1
  <2>1. /\ k \in 1 .. Len(ms) + 1 /\ Len(ms) \in k - 1 .. Len(ms)
        /\ Len(ms) - k + 1 = n /\ \A i \in 1 .. n : k + i - 1 = i + d
    BY <1>2
  <2> HIDE DEF k, n
  <2>2. /\ SubSeq(ms, k, Len(ms)) \in Seq(Message)
        /\ Len(SubSeq(ms, k, Len(ms))) = Len(ms) - k + 1
        /\ \A i \in 1 .. Len(ms) - k + 1 : SubSeq(ms, k, Len(ms))[i] = ms[k + i - 1]
    BY <1>1, <2>1, SubSeqProperties
  <2> QED BY <2>1, <2>2 DEF k
<1> HIDE DEF n, ns
<1>4. \A i \in 1 .. n : f[i] = i + d /\ f[i] \in 1 .. Len(ms)
                        /\ (f[i] = Len(ms) => i = n)
  BY <1>2
<1>5. \A i, j \in 1 .. n : f[i] = f[j] => i = j
  BY <1>2
<1> HIDE DEF f
<1>6. PartOf(ns, ms, f)
  BY <1>3, <1>4, <1>5 DEF PartOf
<1>7. SettledButLast(ns, cut)
  BY <1>1, <1>3, <1>4 DEF SettledButLast
<1>8. Settled(ms, cut) => Settled(ns, cut)
  BY <1>3, <1>4 DEF Settled
<1>9. ConversationOK(ns, g, cs, cut) /\ \A G : Whole(ms, G, cs) => Whole(ns, G, cs)
  BY <1>3, <1>6, <1>7, PartConversation
<1> QED BY <1>8, <1>9 DEF ns

\* What saveMessages keeps.
LEMMA LastMessages ==
    ASSUME NEW ms, NEW g, NEW cs, NEW cut, ConversationOK(ms, g, cs, cut)
    PROVE  /\ ConversationOK(trimMessages(ms), g, cs, cut)
           /\ \A G : Whole(ms, G, cs) => Whole(trimMessages(ms), G, cs)
           /\ Settled(ms, cut) => Settled(trimMessages(ms), cut)
<1>1. Len(ms) \in Nat /\ MaxStored \in Nat
  BY ConversationIs, PlaygroundAssumption DEF ConversationOK
<1>2. CASE Len(ms) <= MaxStored
  BY <1>2 DEF trimMessages
<1>3. CASE ~(Len(ms) <= MaxStored)
  <2> DEFINE d == Len(ms) - MaxStored
  <2>1. d \in 0 .. Len(ms)
    BY <1>1, <1>3
  <2>2. trimMessages(ms) = SubSeq(ms, d + 1, Len(ms))
    BY <1>3 DEF trimMessages
  <2> HIDE DEF d
  <2> QED BY <2>1, <2>2, TailMessages
<1> QED BY <1>2, <1>3

\* What is kept of what is too long.
LEMMA SizedMessages ==
    ASSUME NEW ms, NEW g, NEW cs, NEW cut, ConversationOK(ms, g, cs, cut)
    PROVE  /\ ConversationOK(trimMessagesByContentSize(ms), g, cs, cut)
           /\ \A G : Whole(ms, G, cs) => Whole(trimMessagesByContentSize(ms), G, cs)
<1> DEFINE From(k) == SubSeq(ms, k, Len(ms))
           fits == {k \in DOMAIN ms :
                      MessagesSize(From(k)) <= MAX_LOADED_MESSAGES_CHARS}
           S == fits \cup {Len(ms)}
<1>1. Len(ms) \in Nat /\ DOMAIN ms = 1 .. Len(ms) /\ (ms = <<>> <=> Len(ms) = 0)
  BY ConversationIs DEF ConversationOK
<1>2. CASE ms = <<>>
  BY <1>2 DEF trimMessagesByContentSize
<1>3. CASE ms # <<>>
  <2>1. S \in SUBSET (1 .. Len(ms)) /\ S # {}
    BY <1>1, <1>3
  <2>2. trimMessagesByContentSize(ms) = SubSeq(ms, Min(S), Len(ms))
    BY <1>3 DEF trimMessagesByContentSize
  <2> HIDE DEF S
  <2>3. Min(S) \in 1 .. Len(ms)
    BY <1>1, <2>1, MinOf
  <2> DEFINE d == Min(S) - 1
  <2>4. d \in 0 .. Len(ms) /\ d + 1 = Min(S)
    BY <1>1, <2>3
  <2> HIDE DEF d
  <2>5. trimMessagesByContentSize(ms) = SubSeq(ms, d + 1, Len(ms))
    BY <2>2, <2>4
  <2> QED BY <2>4, <2>5, TailMessages
<1> QED BY <1>2, <1>3

\* Some messages of a settled conversation are settled.
LEMMA SettledPart ==
    ASSUME NEW ms, NEW ns, NEW f, PartOf(ns, ms, f), NEW cut, Settled(ms, cut)
    PROVE  Settled(ns, cut) /\ SettledButLast(ns, cut)
BY DEF PartOf, Settled, SettledButLast

\* The conversation without one message.
LEMMA RemoveAtIsPart ==
    ASSUME NEW ms \in Seq(Message), NEW n \in 1 .. Len(ms)
    PROVE  RemoveAt(ms, n) \in Seq(Message) /\ \E f : PartOf(RemoveAt(ms, n), ms, f)
<1> DEFINE a == SubSeq(ms, 1, n - 1)
           b == SubSeq(ms, n + 1, Len(ms))
           ns == a \o b
           f == [i \in 1 .. Len(ms) - 1 |-> IF i <= n - 1 THEN i ELSE i + 1]
<1>1. Len(ms) \in Nat /\ n \in Nat /\ 1 <= n /\ n <= Len(ms)
  BY ConversationIs
<1>2. a \in Seq(Message) /\ Len(a) = n - 1 /\ \A i \in 1 .. n - 1 : a[i] = ms[i]
  <2>1. n - 1 \in 0 .. Len(ms)
    BY <1>1
  <2> QED BY <2>1, FirstMessages
<1>3. /\ b \in Seq(Message) /\ Len(b) = Len(ms) - n
      /\ \A i \in 1 .. Len(ms) - n : b[i] = ms[n + i]
  <2>1. \A i \in n + 1 .. Len(ms) : ms[i] \in Message
    BY <1>1, ConversationIs
  <2>2. b \in Seq(Message)
    BY <1>1, <2>1, SubSeqProperties
  <2>3. Len(b) = Len(ms) - n
    BY <1>1
  <2>4. \A i \in 1 .. Len(ms) - n : b[i] = ms[n + i]
    BY <1>1
  <2> QED BY <2>2, <2>3, <2>4
<1> HIDE DEF a, b
<1>4. /\ ns \in Seq(Message) /\ Len(ns) = Len(ms) - 1
      /\ \A i \in 1 .. Len(ms) - 1 :
            ns[i] = IF i <= n - 1 THEN a[i] ELSE b[i - (n - 1)]
  <2>1. Len(a) + Len(b) = Len(ms) - 1
    BY <1>1, <1>2, <1>3
  <2>2. /\ ns \in Seq(Message) /\ Len(ns) = Len(a) + Len(b)
        /\ \A i \in 1 .. Len(a) + Len(b) :
              ns[i] = IF i <= Len(a) THEN a[i] ELSE b[i - Len(a)]
    BY <1>2, <1>3, ConcatProperties
  <2> HIDE DEF ns
  <2> QED BY <1>2, <2>1, <2>2
<1> HIDE DEF ns
<1>5. ASSUME NEW i \in 1 .. Len(ms) - 1
      PROVE  f[i] \in 1 .. Len(ms) /\ ns[i] = ms[f[i]]
  <2>1. CASE i <= n - 1
    BY <1>1, <1>2, <1>4, <2>1
  <2>2. CASE ~(i <= n - 1)
    <3>1. i - (n - 1) \in 1 .. Len(ms) - n /\ n + (i - (n - 1)) = i + 1
      BY <1>1, <2>2
    <3>2. ns[i] = ms[i + 1]
      BY <1>3, <1>4, <2>2, <3>1
    <3> QED BY <1>1, <2>2, <3>2
  <2> QED BY <2>1, <2>2, Zenon
<1>6. \A i, j \in 1 .. Len(ms) - 1 : f[i] = f[j] => i = j
  BY <1>1
<1> HIDE DEF f
<1>7. PartOf(ns, ms, f)
  BY <1>4, <1>5, <1>6 DEF PartOf
<1>8. RemoveAt(ms, n) = ns
  BY DEF RemoveAt, ns, a, b
<1> QED BY <1>4, <1>7, <1>8

\* A message is deleted.
LEMMA RemoveMessage ==
    ASSUME NEW ms, NEW g, NEW cs, NEW cut, ConversationOK(ms, g, cs, cut),
           Settled(ms, cut), NEW id
    PROVE  /\ ConversationOK(removeMessage(ms, id), g, cs, cut)
           /\ Settled(removeMessage(ms, id), cut)
           /\ \A G : Whole(ms, G, cs) => Whole(removeMessage(ms, id), G, cs)
           /\ \A h : Kept(ms, removeMessage(ms, id), h)
<1>1. ms \in Seq(Message) /\ DOMAIN ms = 1 .. Len(ms)
  BY ConversationIs DEF ConversationOK
<1>2. CASE \E i \in DOMAIN ms : Id(ms[i]) = id
  <2> DEFINE n == CHOOSE i \in DOMAIN ms : Id(ms[i]) = id
             ns == RemoveAt(ms, n)
  <2>1. n \in 1 .. Len(ms)
    BY <1>1, <1>2
  <2>2. removeMessage(ms, id) = ns
    BY <1>2 DEF removeMessage
  <2> HIDE DEF n
  <2>3. ns \in Seq(Message) /\ \E f : PartOf(ns, ms, f)
    BY <1>1, <2>1, RemoveAtIsPart
  <2> HIDE DEF ns
  <2>4. PICK f : PartOf(ns, ms, f)
    BY <2>3
  <2>5. Settled(ns, cut) /\ SettledButLast(ns, cut)
    BY <2>4, SettledPart
  <2> QED BY <2>2, <2>3, <2>4, <2>5, PartConversation
<1>3. CASE ~\E i \in DOMAIN ms : Id(ms[i]) = id
  <2>1. removeMessage(ms, id) = ms
    BY <1>3 DEF removeMessage
  <2>2. \A h : Kept(ms, ms, h)
    BY DEF Kept
  <2> QED BY <2>1, <2>2
<1> QED BY <1>2, <1>3

\* What is kept twice is kept.
LEMMA KeptTwice ==
    ASSUME NEW ms, NEW ns, NEW os, NEW h, Kept(ms, ns, h), Kept(ns, os, h)
    PROVE  Kept(ms, os, h)
<1> SUFFICES ASSUME NEW j \in 1 .. Len(os), os[j].from = "assistant", os[j].key < h
             PROVE  \E i \in 1 .. Len(ms) :
                       /\ Id(ms[i]) = Id(os[j]) /\ os[j].status = ms[i].status
                       /\ os[j].text \in {ms[i].text, EditedText}
  BY DEF Kept
<1>1. PICK k \in 1 .. Len(ns) :
        /\ Id(ns[k]) = Id(os[j]) /\ os[j].status = ns[k].status
        /\ os[j].text \in {ns[k].text, EditedText}
  BY DEF Kept
<1>2. ns[k].from = "assistant" /\ ns[k].key < h
  BY <1>1 DEF Id
<1>3. PICK i \in 1 .. Len(ms) :
        /\ Id(ms[i]) = Id(ns[k]) /\ ns[k].status = ms[i].status
        /\ ns[k].text \in {ms[i].text, EditedText}
  BY <1>2 DEF Kept
<1> QED BY <1>1, <1>3

\* A message is appended.
LEMMA AppendMessage ==
    ASSUME NEW ms, NEW g, NEW cs, NEW cut, ConversationOK(ms, g, cs, cut),
           Settled(ms, cut), NEW m \in Message, MessageOK(m, g, cs, cut),
           \A i \in 1 .. Len(ms) : Id(ms[i]) # Id(m)
    PROVE  /\ ConversationOK(ms \o <<m>>, g, cs, cut)
           /\ ms \o <<m>> # <<>> /\ Last(ms \o <<m>>) = m
           /\ Len(ms \o <<m>>) = Len(ms) + 1
           /\ \A i \in 1 .. Len(ms) : (ms \o <<m>>)[i] = ms[i]
           /\ (ms \o <<m>>)[Len(ms) + 1] = m
           /\ ~isAssistantMessagePending(m) => Settled(ms \o <<m>>, cut)
           /\ \A G : Whole(ms, G, cs) /\ m.key \notin G => Whole(ms \o <<m>>, G, cs)
           /\ \A h : ~(m.from = "assistant" /\ m.key < h) => Kept(ms, ms \o <<m>>, h)
<1> DEFINE ns == ms \o <<m>>
           n == Len(ms) + 1
<1>1. ms \in Seq(Message) /\ Len(ms) \in Nat
  BY ConversationIs DEF ConversationOK
<1>2. /\ ns \in Seq(Message) /\ Len(ns) = n
      /\ \A i \in 1 .. Len(ms) : ns[i] = ms[i]
      /\ ns[n] = m
  <2>1. <<m>> \in Seq(Message) /\ Len(<<m>>) = 1 /\ <<m>>[1] = m
    OBVIOUS
  <2> QED BY <1>1, <2>1, ConcatProperties
<1> HIDE DEF ns
<1>3. n \in 1 .. n /\ \A i \in 1 .. n : i \in 1 .. Len(ms) \/ i = n
  BY <1>1
<1>4. n \notin 1 .. Len(ms)
  BY <1>1
<1>5. ns # <<>> /\ Last(ns) = m
  BY <1>1, <1>2, ConversationIs
<1> HIDE DEF n
<1>6. \A i \in 1 .. n : MessageOK(ns[i], g, cs, cut)
  BY <1>2, <1>3 DEF ConversationOK
<1>7. UniqueKeys(ns)
  BY <1>2, <1>3 DEF ConversationOK, UniqueKeys
<1>8. SettledButLast(ns, cut) /\ (~isAssistantMessagePending(m) => Settled(ns, cut))
  BY <1>2, <1>3 DEF Settled, SettledButLast
<1>9. ConversationOK(ns, g, cs, cut)
  BY <1>2, <1>6, <1>7, <1>8 DEF ConversationOK
<1>10. \A G : Whole(ms, G, cs) /\ m.key \notin G => Whole(ns, G, cs)
  BY <1>2, <1>3 DEF Whole
<1>11. \A h : ~(m.from = "assistant" /\ m.key < h) => Kept(ms, ns, h)
  BY <1>2, <1>3 DEF Kept
<1> QED BY <1>2, <1>5, <1>8, <1>9, <1>10, <1>11 DEF ns, n

\* A message is edited.
Edited(ms, n) == [ms EXCEPT ![n].text = EditedText]

\* The conversation, its keys and what it keeps stay.
LEMMA EditedMessage ==
    ASSUME NEW ms, NEW g, NEW cs, NEW cut, ConversationOK(ms, g, cs, cut),
           NEW n \in 1 .. Len(ms)
    PROVE  LET ns == Edited(ms, n)
           IN  /\ ConversationOK(ns, g, cs, cut) /\ Len(ns) = Len(ms)
               /\ \A i \in 1 .. Len(ms) :
                     /\ Id(ns[i]) = Id(ms[i]) /\ ns[i].status = ms[i].status
                     /\ i # n => ns[i] = ms[i]
               /\ Settled(ms, cut) => Settled(ns, cut)
               /\ \A G : Whole(ms, G, cs) => Whole(ns, G, cs)
               /\ \A h : Kept(ms, ns, h)
<1>1. ms \in Seq(Message) /\ ms[n] \in Message
  BY ConversationIs DEF ConversationOK
<1> DEFINE c == [ms[n] EXCEPT !.text = EditedText]
           ns == [ms EXCEPT ![n] = c]
<1>2. /\ c \in Message /\ c.text = EditedText /\ c.status = ms[n].status
      /\ c.from = ms[n].from /\ c.key = ms[n].key /\ Id(c) = Id(ms[n])
  BY <1>1, FixedTexts DEF Message, Id
<1>3. Edited(ms, n) = ns
  BY DEF Edited
<1> HIDE DEF c
<1>4. /\ ns \in Seq(Message) /\ Len(ns) = Len(ms) /\ ns[n] = c
      /\ \A i \in 1 .. Len(ms) : i # n => ns[i] = ms[i]
  BY <1>1, <1>2
<1> HIDE DEF ns
<1>5. \A i \in 1 .. Len(ms) :
         /\ Id(ns[i]) = Id(ms[i]) /\ ns[i].status = ms[i].status
         /\ ns[i].from = ms[i].from /\ ns[i].key = ms[i].key
         /\ ns[i].text \in {ms[i].text, EditedText}
  BY <1>2, <1>4
<1>6. MessageOK(c, g, cs, cut)
  <2>1. MessageOK(ms[n], g, cs, cut)
    BY DEF ConversationOK
  <2> QED BY <1>2, <2>1, FixedTexts, PlaygroundAssumption DEF MessageOK
<1>7. \A i \in 1 .. Len(ms) : MessageOK(ns[i], g, cs, cut)
  BY <1>4, <1>6 DEF ConversationOK
<1>8. UniqueKeys(ns)
  BY <1>4, <1>5 DEF ConversationOK, UniqueKeys
<1>9. SettledButLast(ns, cut) /\ (Settled(ms, cut) => Settled(ns, cut))
  BY <1>4, <1>5 DEF ConversationOK, Settled, SettledButLast, isAssistantMessagePending
<1>10. \A G : Whole(ms, G, cs) => Whole(ns, G, cs)
  BY <1>4, <1>5 DEF Whole, WholeMessage
<1>11. \A h : Kept(ms, ns, h)
  BY <1>4, <1>5 DEF Kept
<1>12. ConversationOK(ns, g, cs, cut)
  BY <1>4, <1>7, <1>8, <1>9 DEF ConversationOK
<1> QED BY <1>3, <1>4, <1>5, <1>9, <1>10, <1>11, <1>12

-----------------------------------------------------------------------------
(* What loadMessages repairs.                                              *)

\* A pending message that was completed, or that failed.
Repaired(n, m) ==
    isAssistantMessagePending(m)
    /\ n \in {As(m, "complete", m.text), As(m, "error", ErrorText)}

\* Some pending messages of a conversation are repaired.
LEMMA RepairedMessages ==
    ASSUME NEW ms, NEW g, NEW cs, NEW cut, ConversationOK(ms, g, cs, cut),
           NEW ns \in Seq(Message), Len(ns) = Len(ms),
           \A i \in 1 .. Len(ms) : ns[i] = ms[i] \/ Repaired(ns[i], ms[i])
    PROVE  /\ ConversationOK(ns, g, cs, cut)
           /\ \A G : Whole(ms, G, cs) => Whole(ns, G, cs)
<1>1. ms \in Seq(Message) /\ \A i \in 1 .. Len(ms) : ms[i] \in Message
  BY ConversationIs DEF ConversationOK
<1>2. ASSUME NEW i \in 1 .. Len(ms)
      PROVE  /\ Id(ns[i]) = Id(ms[i]) /\ MessageOK(ns[i], g, cs, cut)
             /\ isAssistantMessagePending(ns[i]) => ns[i] = ms[i]
             /\ ns[i] = ms[i] \/ isAssistantMessagePending(ms[i])
             /\ ns[i].from = ms[i].from /\ ns[i].key = ms[i].key
  <2>1. MessageOK(ms[i], g, cs, cut) /\ ms[i] \in Message
    BY <1>1 DEF ConversationOK
  <2>2. CASE ns[i] = ms[i]
    BY <2>1, <2>2
  <2>3. CASE Repaired(ns[i], ms[i])
    <3> DEFINE m == ms[i]
               n == ns[i]
    <3>1. isAssistantMessagePending(m)
          /\ n \in {As(m, "complete", m.text), As(m, "error", ErrorText)}
      BY <2>3 DEF Repaired
    <3>2. m \in Message /\ m.text \in Text /\ MessageOK(m, g, cs, cut)
          /\ "complete" \in Statuses /\ "error" \in Statuses /\ ErrorText \in Text
      BY <2>1, MessageIs, FixedTexts DEF Statuses
    <3> HIDE DEF m, n
    <3>3. /\ n \in Message /\ n.from = m.from /\ n.key = m.key /\ Id(n) = Id(m)
          /\ n.status \in {"complete", "error"} /\ n.text \in {m.text, ErrorText}
      BY <3>1, <3>2, AsIs
    <3>4. m.from # "user"
      BY <3>1, <3>2 DEF MessageOK, isAssistantMessagePending
    <3>5. MessageOK(n, g, cs, cut)
      <4>1. CASE n.text = m.text
        BY <3>2, <3>3, <3>4, <4>1 DEF MessageOK
      <4>2. CASE n.text = ErrorText
        BY <3>2, <3>3, <3>4, <4>2, FixedTexts, PlaygroundAssumption DEF MessageOK
      <4> QED BY <3>3, <4>1, <4>2
    <3>6. ~isAssistantMessagePending(n)
      BY <3>3 DEF isAssistantMessagePending
    <3> QED BY <3>1, <3>3, <3>5, <3>6 DEF m, n
  <2> QED BY <2>2, <2>3
<1>3. UniqueKeys(ns)
  BY <1>2 DEF ConversationOK, UniqueKeys
<1>4. SettledButLast(ns, cut)
  BY <1>2 DEF ConversationOK, SettledButLast
<1>5. ASSUME NEW G, Whole(ms, G, cs) PROVE Whole(ns, G, cs)
  BY <1>2, <1>5 DEF Whole, WholeMessage, isAssistantMessagePending
<1> QED BY <1>2, <1>3, <1>4, <1>5 DEF ConversationOK

\* An empty conversation.
LEMMA EmptyConversation ==
    ASSUME NEW g, NEW cs, NEW cut
    PROVE  /\ ConversationOK(<<>>, g, cs, cut) /\ Settled(<<>>, cut)
           /\ \A G : Whole(<<>>, G, cs)
           /\ \A ms, h : Kept(ms, <<>>, h)
<1>1. <<>> \in Seq(Message) /\ \A i \in 1 .. Len(<<>>) : FALSE
  OBVIOUS
<1> QED BY <1>1 DEF ConversationOK, UniqueKeys, SettledButLast, Settled, Whole, Kept

\* What is loaded of a message.
Shortened(m) == As(m, m.status, LoadedText(m.text))

\* Replies that lose a piece of their text are loose.
Announced(ms, cs) ==
    \A i \in 1 .. Len(ms) :
        /\ cs[ms[i].key].sent \in Text
        /\ ms[i].from = "assistant" /\ LoadedText(ms[i].text) # ms[i].text =>
             cs[ms[i].key].kind = "loose"

\* The texts of a conversation are shortened.
LEMMA ShortenedMessages ==
    ASSUME NEW ms, NEW g, NEW cs, NEW cut, ConversationOK(ms, g, cs, cut),
           Announced(ms, cs), NEW ns \in Seq(Message), Len(ns) = Len(ms),
           \A i \in 1 .. Len(ms) : ns[i] = Shortened(ms[i])
    PROVE  /\ ConversationOK(ns, g, cs, cut)
           /\ \A G : Whole(ms, G, cs) => Whole(ns, G, cs)
<1>1. ms \in Seq(Message) /\ \A i \in 1 .. Len(ms) : ms[i] \in Message
  BY ConversationIs DEF ConversationOK
<1>2. ASSUME NEW i \in 1 .. Len(ms)
      PROVE  /\ Id(ns[i]) = Id(ms[i]) /\ MessageOK(ns[i], g, cs, cut)
             /\ ns[i].status = ms[i].status
             /\ ns[i].from = ms[i].from /\ ns[i].key = ms[i].key
             /\ ms[i].from = "assistant" /\ WholeMessage(ms[i], cs) =>
                  WholeMessage(ns[i], cs)
  <2> DEFINE m == ms[i]
             n == ns[i]
             t == LoadedText(m.text)
             c == cs[m.key]
  <2>1. /\ m \in Message /\ MessageOK(m, g, cs, cut) /\ n = As(m, m.status, t)
        /\ c.sent \in Text
        /\ (m.from = "assistant" /\ t # m.text => c.kind = "loose")
    BY <1>1 DEF ConversationOK, Shortened, Announced
  <2>2. m.text \in Text /\ m.status \in Statuses /\ m.from \in {"user", "assistant"}
    BY <2>1, MessageIs
  <2>3. /\ t \in Text /\ Len(t) <= Len(m.text) /\ Len(m.text) \in Nat /\ Len(t) \in Nat
        /\ \A w \in Text : EndIsKept(m.text, w) => EndIsKept(t, w)
        /\ Len(m.text) = 1 => t = m.text
        /\ \A s : \A a, b \in Int : Within(Unmarked(m.text), s, a, b) =>
              Within(Unmarked(t), s, a, b)
    BY <2>2, LoadedIs, TextIs
  <2>4. c = cs[m.key]
    OBVIOUS
  <2> HIDE DEF m, n, t, c
  <2>5. /\ n.from = m.from /\ n.key = m.key /\ n.status = m.status /\ n.text = t
        /\ Id(n) = Id(m)
    BY <2>1, <2>2, <2>3, AsIs
  <2>6. /\ m.key <= g /\ Len(m.text) <= MaxPieces /\ (m.from = "user" => m.status = "none")
        /\ \/ m.from = "user" \/ m.text \in {EditedText, ErrorText}
           \/ Copied(m.text, c, m.key, cut)
    BY <2>1, <2>4 DEF MessageOK
  <2>7. Len(t) <= MaxPieces
    BY <2>3, <2>6, PlaygroundAssumption
  <2>8. m.text \in {EditedText, ErrorText} => t = m.text
    BY <2>3, FixedTexts
  <2>9. ASSUME m.from # "user", Copied(m.text, c, m.key, cut)
        PROVE  Copied(t, c, m.key, cut)
    <3>1. 0 \in Int /\ Len(c.sent) \in Int
      BY <2>1, TextIs
    <3>2. Within(Unmarked(t), c.sent, 0, Len(c.sent))
      BY <2>3, <2>9, <3>1 DEF Copied
    <3>3. m.key \in cut \/ c.kind = "loose" \/ IsPrefix(t, c.sent)
      BY <2>1, <2>2, <2>9 DEF Copied
    <3> QED BY <3>2, <3>3 DEF Copied
  <2>10. MessageOK(n, g, cs, cut)
    BY <2>4, <2>5, <2>6, <2>7, <2>8, <2>9 DEF MessageOK
  <2>11. ASSUME m.from = "assistant", WholeMessage(m, cs) PROVE WholeMessage(n, cs)
    <3>1. /\ m.status = "complete"
          /\ \/ m.text = EditedText
             \/ IF c.kind = "loose" THEN EndIsKept(m.text, c.sent) ELSE m.text = c.sent
      BY <2>4, <2>11 DEF WholeMessage
    <3>2. \/ t = EditedText
          \/ IF c.kind = "loose" THEN EndIsKept(t, c.sent) ELSE t = c.sent
      BY <2>1, <2>3, <2>8, <2>11, <3>1
    <3> QED BY <2>4, <2>5, <3>1, <3>2 DEF WholeMessage
  <2> QED BY <2>5, <2>10, <2>11 DEF m, n
<1>3. UniqueKeys(ns)
  BY <1>2 DEF ConversationOK, UniqueKeys
<1>4. SettledButLast(ns, cut)
  BY <1>2 DEF ConversationOK, SettledButLast, isAssistantMessagePending
<1>5. ASSUME NEW G, Whole(ms, G, cs) PROVE Whole(ns, G, cs)
  BY <1>2, <1>5 DEF Whole
<1> QED BY <1>2, <1>3, <1>4, <1>5 DEF ConversationOK

\* What normalizeStoredMessageForLoad makes of a message.
LEMMA NormalizedMessage ==
    ASSUME NEW m \in Message
    PROVE  /\ Shortened(m) \in Message
           /\ normalizeStoredMessageForLoad(m) \in Message
           /\ \/ normalizeStoredMessageForLoad(m) = Shortened(m)
              \/ Repaired(normalizeStoredMessageForLoad(m), Shortened(m))
<1> DEFINE n == Shortened(m)
           t == LoadedText(m.text)
<1>1. m.text \in Text /\ m.status \in Statuses /\ t \in Text
  BY MessageIs, LoadedIs
<1>2. n \in Message /\ n.status = m.status /\ n.text = t
  BY <1>1, AsIs DEF Shortened
<1>3. [m EXCEPT !.text = LoadedText(@)] = n
  BY DEF Shortened, As, Message
<1> HIDE DEF n, t
<1>4. completeAssistantMessage(n) = As(n, "complete", n.text)
  BY <1>2 DEF completeAssistantMessage, As, Message
<1>5. As(n, "complete", n.text) \in Message
  BY <1>2, AsIs, MessageIs DEF Statuses
<1>6. normalizeStoredMessageForLoad(m) =
        IF isAssistantMessagePending(m) /\ hasMessageContent(n)
        THEN completeAssistantMessage(n) ELSE n
  BY <1>3 DEF normalizeStoredMessageForLoad
<1>7. isAssistantMessagePending(m) => isAssistantMessagePending(n)
  BY <1>2 DEF isAssistantMessagePending
<1> QED BY <1>2, <1>4, <1>5, <1>6, <1>7 DEF Repaired, n

\* A message for every message of a conversation.
LEMMA MappedMessages ==
    ASSUME NEW ms \in Seq(Message), NEW F(_), \A m \in Message : F(m) \in Message
    PROVE  LET ns == [i \in DOMAIN ms |-> F(ms[i])]
           IN  /\ ns \in Seq(Message) /\ Len(ns) = Len(ms)
               /\ \A i \in 1 .. Len(ms) : ns[i] = F(ms[i])
<1> DEFINE ns == [i \in DOMAIN ms |-> F(ms[i])]
<1>1. /\ Len(ms) \in Nat /\ DOMAIN ms = 1 .. Len(ms)
      /\ \A i \in 1 .. Len(ms) : ms[i] \in Message
  BY ConversationIs
<1>2. \A i \in 1 .. Len(ms) : ns[i] = F(ms[i]) /\ ns[i] \in Message
  BY <1>1
<1>3. ns \in Seq(Message) /\ Len(ns) = Len(ms)
  <2>1. ns = [i \in 1 .. Len(ms) |-> ns[i]]
    BY <1>1
  <2> HIDE DEF ns
  <2>2. [i \in 1 .. Len(ms) |-> ns[i]] \in Seq(Message)
    BY <1>1, <1>2, IsASeq
  <2>3. DOMAIN ns = 1 .. Len(ms)
    BY <2>1
  <2> QED BY <1>1, <2>1, <2>2, <2>3, LenProperties
<1> QED BY <1>2, <1>3

\* normalizeStoredMessageForLoad, on every message.
LEMMA Normalized ==
    ASSUME NEW ms, NEW g, NEW cs, NEW cut, ConversationOK(ms, g, cs, cut),
           Announced(ms, cs)
    PROVE  LET ns == [i \in DOMAIN ms |-> normalizeStoredMessageForLoad(ms[i])]
           IN  /\ ConversationOK(ns, g, cs, cut)
               /\ \A G : Whole(ms, G, cs) => Whole(ns, G, cs)
<1> DEFINE as == [i \in DOMAIN ms |-> Shortened(ms[i])]
           ns == [i \in DOMAIN ms |-> normalizeStoredMessageForLoad(ms[i])]
<1>1. ms \in Seq(Message) /\ \A i \in 1 .. Len(ms) : ms[i] \in Message
  BY ConversationIs DEF ConversationOK
<1>2. /\ as \in Seq(Message) /\ Len(as) = Len(ms)
      /\ \A i \in 1 .. Len(ms) : as[i] = Shortened(ms[i])
  BY <1>1, NormalizedMessage, MappedMessages
<1>3. /\ ns \in Seq(Message) /\ Len(ns) = Len(ms)
      /\ \A i \in 1 .. Len(ms) : ns[i] = normalizeStoredMessageForLoad(ms[i])
  BY <1>1, NormalizedMessage, MappedMessages
<1> HIDE DEF as, ns
<1>4. /\ ConversationOK(as, g, cs, cut)
      /\ \A G : Whole(ms, G, cs) => Whole(as, G, cs)
  BY <1>2, ShortenedMessages
<1>5. \A i \in 1 .. Len(as) : ns[i] = as[i] \/ Repaired(ns[i], as[i])
  BY <1>1, <1>2, <1>3, NormalizedMessage
<1>6. /\ ConversationOK(ns, g, cs, cut)
      /\ \A G : Whole(as, G, cs) => Whole(ns, G, cs)
  BY <1>2, <1>3, <1>4, <1>5, RepairedMessages
<1> QED BY <1>4, <1>6 DEF ns

\* sanitizeMessagesOnLoad repairs the last pending message: none is left.
LEMMA Sanitized ==
    ASSUME NEW ms, NEW g, NEW cs, NEW cut, ConversationOK(ms, g, cs, cut)
    PROVE  /\ ConversationOK(sanitizeMessagesOnLoad(ms), g, cs, cut)
           /\ Settled(sanitizeMessagesOnLoad(ms), cut)
           /\ \A G : Whole(ms, G, cs) => Whole(sanitizeMessagesOnLoad(ms), G, cs)
<1> DEFINE I == {i \in 1 .. Len(ms) : isAssistantMessagePending(ms[i])}
           last == IF I # {} THEN Max(I) ELSE 0
           m == ms[last]
           c == IF hasMessageContent(m) THEN completeAssistantMessage(m)
                ELSE [m EXCEPT !.text = ErrorText, !.status = "error"]
           ns == [ms EXCEPT ![last] = c]
<1>1. /\ ms \in Seq(Message) /\ Len(ms) \in Nat
      /\ \A i \in 1 .. Len(ms) : ms[i] \in Message
  BY ConversationIs DEF ConversationOK
<1>2. sanitizeMessagesOnLoad(ms) = IF last = 0 THEN ms ELSE ns
  BY DEF sanitizeMessagesOnLoad, SelectLastInSeq
<1>3. CASE I = {}
  <2>1. last = 0
    BY <1>3
  <2>2. Settled(ms, cut)
    BY <1>3 DEF Settled
  <2> QED BY <1>2, <2>1, <2>2
<1>4. CASE I # {}
  <2>1. last \in I /\ \A i \in I : i <= last
    <3>1. I \in SUBSET (1 .. Len(ms))
      OBVIOUS
    <3> HIDE DEF I
    <3>2. Max(I) \in I /\ \A i \in I : i <= Max(I)
      BY <1>1, <1>4, <3>1, MaxOf
    <3> QED BY <1>4, <3>2
  <2>2. last \in 1 .. Len(ms) /\ m \in Message /\ isAssistantMessagePending(m)
    BY <1>1, <2>1
  <2>3. \A i \in 1 .. Len(ms) : isAssistantMessagePending(ms[i]) => i <= last
    BY <2>1
  <2>4. last # 0
    BY <1>1, <2>2
  <2> HIDE DEF last, I
  <2>5. c \in {As(m, "complete", m.text), As(m, "error", ErrorText)}
    BY <2>2 DEF completeAssistantMessage, As, Message
  <2>6. c \in Message /\ c.status \in {"complete", "error"}
    <3>1. m.text \in Text /\ ErrorText \in Text
      BY <2>2, MessageIs, FixedTexts
    <3>2. "complete" \in Statuses /\ "error" \in Statuses
      BY DEF Statuses
    <3>3. m \in Message
      BY <2>2
    <3> HIDE DEF c, m
    <3>4. /\ As(m, "complete", m.text) \in Message
          /\ As(m, "complete", m.text).status = "complete"
      BY <3>1, <3>2, <3>3, AsIs
    <3>5. /\ As(m, "error", ErrorText) \in Message
          /\ As(m, "error", ErrorText).status = "error"
      BY <3>1, <3>2, <3>3, AsIs
    <3> QED BY <2>5, <3>4, <3>5
  <2>7. Repaired(c, m) /\ ~isAssistantMessagePending(c)
    BY <2>2, <2>5, <2>6 DEF Repaired, isAssistantMessagePending
  <2> HIDE DEF c
  <2>8. /\ ns \in Seq(Message) /\ Len(ns) = Len(ms) /\ ns[last] = c
        /\ \A i \in 1 .. Len(ms) : i # last => ns[i] = ms[i]
    BY <1>1, <2>2, <2>6
  <2> HIDE DEF ns
  <2>9. \A i \in 1 .. Len(ms) : ns[i] = ms[i] \/ Repaired(ns[i], ms[i])
    BY <2>7, <2>8
  <2>10. /\ ConversationOK(ns, g, cs, cut)
         /\ \A G : Whole(ms, G, cs) => Whole(ns, G, cs)
    BY <2>8, <2>9, RepairedMessages
  <2>11. Settled(ns, cut)
    <3> SUFFICES ASSUME NEW i \in 1 .. Len(ns), isAssistantMessagePending(ns[i])
                 PROVE  ns[i].key \in cut
      BY DEF Settled
    <3>1. i # last /\ ns[i] = ms[i] /\ i <= last
      BY <2>3, <2>7, <2>8
    <3>2. i # Len(ms)
      BY <1>1, <2>2, <3>1
    <3> QED BY <2>8, <3>1, <3>2 DEF ConversationOK, SettledButLast
  <2> QED BY <1>2, <2>4, <2>10, <2>11
<1> QED BY <1>3, <1>4

\* The conversation that is loaded.
LEMMA Loaded ==
    ASSUME NEW g, NEW cs, NEW cut, ConversationOK(stored, g, cs, cut),
           Announced(stored, cs)
    PROVE  /\ ConversationOK(loadMessages, g, cs, cut)
           /\ Settled(loadMessages, cut)
           /\ \A G : Whole(stored, G, cs) => Whole(loadMessages, G, cs)
<1> DEFINE a == [i \in DOMAIN stored |-> normalizeStoredMessageForLoad(stored[i])]
           b == trimMessages(a)
           c == trimMessagesByContentSize(b)
           d == sanitizeMessagesOnLoad(c)
<1>1. /\ ConversationOK(a, g, cs, cut)
      /\ \A G : Whole(stored, G, cs) => Whole(a, G, cs)
  BY Normalized
<1>2. loadMessages = <<>> \/ loadMessages = d
  BY DEF loadMessages
<1> HIDE DEF a
<1>3. /\ ConversationOK(b, g, cs, cut)
      /\ \A G : Whole(a, G, cs) => Whole(b, G, cs)
  BY <1>1, LastMessages
<1> HIDE DEF b
<1>4. /\ ConversationOK(c, g, cs, cut)
      /\ \A G : Whole(b, G, cs) => Whole(c, G, cs)
  BY <1>3, SizedMessages
<1> HIDE DEF c
<1>5. /\ ConversationOK(d, g, cs, cut) /\ Settled(d, cut)
      /\ \A G : Whole(c, G, cs) => Whole(d, G, cs)
  BY <1>4, Sanitized
<1> HIDE DEF d
<1>6. CASE loadMessages = <<>>
  BY <1>6, EmptyConversation
<1>7. CASE loadMessages = d
  BY <1>1, <1>3, <1>4, <1>5, <1>7
<1> QED BY <1>2, <1>6, <1>7

-----------------------------------------------------------------------------
(* The invariant.                                                          *)

\* Types of what is not a conversation.
PlainInv ==
    /\ page \in {"open", "away"} /\ shown \in BOOLEAN
    /\ pending \in [gen : Gens, text : Text]
    /\ flushTimer \in Gens \cup {NoGen} /\ control.source \in Gens \cup {NoGen}
    /\ editing \in [from : {"user", "assistant", "none"}, key : Gens]
    /\ snapshots \in BOOLEAN /\ saveTimer \in BOOLEAN
    /\ finished \subseteq Gens /\ overwritten \subseteq Gens

\* What the page keeps while it is away, while it generates, and of what waits.
PageInv ==
    /\ page = "away" => /\ ~shown /\ ~saveTimer /\ msgs = <<>>
                        /\ editing.from = "none"
    /\ requesting \/ streaming \/ queue # <<>> => shown
    /\ editing.key <= gen
    /\ shown => editing.from = "none" \/ editing.key < gen
    /\ pending.gen = gen
    /\ pending.text # <<>> => streaming
    /\ stopped \subseteq 0 .. gen - 1

\* Updates that wait are of the current generation, but for a first one that
\* React has run; latest is what that one returned, and is to be saved.
QueueInv ==
    /\ queue \in Seq(Updater)
    /\ \A i \in 1 .. Len(queue) :
          IF queue[i].op = "eager" THEN i = 1 ELSE queue[i].gen = gen
    /\ latest = IF EagerFirst THEN queue[1].ms ELSE msgs
    /\ page = "open" /\ ~saveTimer => stored \in {latest, trimMessages(latest)}

\* ms is a conversation of the page as it is.
OK(ms) == ConversationOK(ms, gen, Told, overwritten)

\* The conversation, as rendered, as it will be, as persisted and as stored.
ConvsInv ==
    /\ OK(msgs) /\ OK(Coming) /\ OK(latest) /\ OK(stored)
    /\ SameButLast(Coming, msgs) /\ SameButLast(latest, msgs)

\* The last message is the reply that is generated, as far as it was sent.
ReplyInv ==
    /\ shown => /\ msgs # <<>>
                /\ Last(msgs).from = "assistant" /\ Last(msgs).key = gen
    /\ \A g \in Gens : Parted(calls[g])
    /\ Waiting(calls[gen], pending.text, snapshots)
    /\ requesting =>
          /\ Arriving(Last(msgs), calls[gen], pending.text, snapshots)
          /\ Arriving(Last(Coming), calls[gen], pending.text, snapshots)
          /\ gen \notin overwritten =>
                Exact(Last(Coming).text, calls[gen], pending.text, snapshots)
    /\ ~requesting => Settled(Coming, overwritten)
    /\ calls[gen].pc = "chat" => calls[gen].sent = <<>>

\* A reply that was finished is there in full once the queue is rendered.
WholeInv ==
    /\ \A g \in finished : calls[g].pc = "over"
    /\ Whole(Coming, finished \ overwritten, Told)
    /\ Whole(msgs, finished \ (overwritten \cup {gen}), Told)
    /\ page = "away" => Whole(stored, finished \ overwritten, Told)

\* The inductive invariant.
IInv == GenInv /\ PlainInv /\ PageInv /\ QueueInv /\ ConvsInv /\ ReplyInv /\ WholeInv

-----------------------------------------------------------------------------
(* What the invariant says of a state.                                     *)

\* Nothing waits: what comes is what is shown.
LEMMA ComingIsShown == queue = <<>> => Coming = msgs
BY AppliedNone DEF Coming

\* The same after a step.
LEMMA ComingIsShownNext == queue' = <<>> => Coming' = msgs'
BY AppliedNone DEF Coming

\* Facts about the flags and the queue.
LEMMA FlagFacts ==
    ASSUME IInv
    PROVE  /\ gen \in Gens /\ gen \in Nat
           /\ requesting \in BOOLEAN /\ streaming \in BOOLEAN
           /\ snapshots \in BOOLEAN
           /\ pending.text \in Text
           /\ streaming => requesting
           /\ ~shown => queue = <<>> /\ ~requesting /\ ~streaming
           /\ queue = <<>> => Coming = msgs /\ latest = msgs
           /\ \A g \in Gens : calls[g].sent \in Text /\ Parted(calls[g])
<1>1. ControlInv /\ FlagInv /\ PlainInv /\ PageInv /\ QueueInv /\ ReplyInv
  BY DEF IInv, GenInv
<1>2. gen \in Gens /\ \A g \in Gens : calls[g].sent \in Text
  BY <1>1, GenTypes
<1>3. gen \in Nat
  BY <1>2, PlaygroundAssumption DEF Gens
<1>4. streaming => requesting
  BY <1>1 DEF FlagInv, Awaited, Live, Hanging, isCurrent
<1>5. queue = <<>> => latest = msgs
  BY <1>1 DEF QueueInv, EagerFirst
<1>6. \A g \in Gens : Parted(calls[g])
  BY <1>1 DEF ReplyInv
<1> QED BY <1>1, <1>2, <1>3, <1>4, <1>5, <1>6, ComingIsShown
      DEF FlagInv, PlainInv, PageInv

\* What was sent to a generation, and how much of it can be relied upon.
LEMMA ToldIs ==
    ASSUME NEW k \in Gens
    PROVE  /\ Told[k] = ToldOf(calls[k], snapshots, k \in shortened)
           /\ Told[k].sent = calls[k].sent
           /\ Told[k].kind = IF k \in shortened \/ (~snapshots /\ Echoes(calls[k]))
                             THEN "loose" ELSE "exact"
BY DEF Told, ToldOf

\* The same after a step.
LEMMA ToldIsNext ==
    ASSUME NEW k \in Gens
    PROVE  /\ Told'[k] = ToldOf(calls'[k], snapshots', k \in shortened')
           /\ Told'[k].sent = calls'[k].sent
           /\ Told'[k].kind = IF k \in shortened' \/ (~snapshots' /\ Echoes(calls'[k]))
                              THEN "loose" ELSE "exact"
BY DEF Told, ToldOf

\* Nothing was sent: it is what it was.
LEMMA SameTold ==
    ASSUME NEW k \in Gens, calls'[k].sent = calls[k].sent,
           calls'[k].ends = calls[k].ends, snapshots' = snapshots,
           shortened' = shortened
    PROVE  Told'[k] = Told[k]
<1>1. Echoes(calls'[k]) <=> Echoes(calls[k])
  BY DEF Echoes
<1>2. ToldOf(calls'[k], snapshots', k \in shortened') =
        ToldOf(calls[k], snapshots, k \in shortened)
  BY <1>1 DEF ToldOf
<1> QED BY <1>2, ToldIs, ToldIsNext

\* It extends itself.
LEMMA ExtendsItself ==
    ASSUME NEW c, c.sent \in Text
    PROVE  Extends(c, c)
BY PrefixOfItself DEF Extends

\* More may have been sent.
LEMMA ToldGrows ==
    ASSUME IInv, NEW k \in Gens, calls'[k].sent \in Text,
           IsPrefix(calls[k].sent, calls'[k].sent), calls[k].ends \subseteq calls'[k].ends,
           snapshots' = snapshots, shortened \subseteq shortened'
    PROVE  Extends(Told[k], Told'[k])
<1>1. Parted(calls[k]) /\ calls[k].sent \in Text
  BY FlagFacts
<1>2. Echoes(calls[k]) => Echoes(calls'[k])
  BY <1>1, EchoesStay
<1>3. Told[k].kind = "loose" => Told'[k].kind = "loose"
  <2>1. k \in shortened => k \in shortened'
    OBVIOUS
  <2> QED BY <1>2, <2>1, ToldIs, ToldIsNext
<1> QED BY <1>1, <1>3, ToldIs, ToldIsNext DEF Extends

\* Nothing was sent to any.
LEMMA NothingTold ==
    ASSUME IInv, \A k \in Gens : /\ calls'[k].sent = calls[k].sent
                                 /\ calls'[k].ends = calls[k].ends,
           snapshots' = snapshots, shortened' = shortened
    PROVE  \A k \in Gens : Told'[k] = Told[k] /\ Extends(Told[k], Told'[k])
<1> TAKE k \in Gens
<1>1. Told'[k] = Told[k]
  BY SameTold
<1>2. Told[k].sent \in Text
  BY FlagFacts, ToldIs
<1> QED BY <1>1, <1>2, ExtendsItself

\* A reply to which all that was sent has been flushed is one of the page.
LEMMA ExactIsCopied ==
    ASSUME IInv, NEW g \in Gens, NEW m \in Message,
           Arriving(m, calls[g], <<>>, snapshots),
           g \notin overwritten => Exact(m.text, calls[g], <<>>, snapshots)
    PROVE  Copied(m.text, Told[g], g, overwritten) /\ Len(m.text) <= MaxPieces
<1> DEFINE s == calls[g].sent
           t == m.text
<1>1. /\ Parted(calls[g]) /\ s \in Text /\ t \in Text /\ snapshots \in BOOLEAN
      /\ Len(s) \in Nat /\ Len(t) \in Nat
  BY FlagFacts, MessageIs, TextIs
<1>2. Within(t, s, 0, Len(s))
  BY <1>1, ArrivingIsWithin
<1>3. g \in overwritten \/ Told[g].kind = "loose" \/ IsPrefix(t, s)
  BY <1>1, ExactIsWhole, ToldIs, PrefixOfItself
<1>4. Len(s) <= MaxPieces
  BY <1>1 DEF Parted
<1>5. Told[g].sent = s
  BY ToldIs
<1> HIDE DEF s, t
<1>6. Within(Unmarked(t), s, 0, Len(s))
  BY <1>1, <1>2, WithinUnmarked
<1>7. Len(t) <= Len(s)
  BY <1>2 DEF Within
<1>8. Len(t) <= MaxPieces
  BY <1>1, <1>4, <1>7, PlaygroundAssumption
<1>9. Copied(t, Told[g], g, overwritten)
  BY <1>3, <1>5, <1>6 DEF Copied
<1> QED BY <1>8, <1>9 DEF t

\* Once it is complete it is whole.
LEMMA ExactIsShown ==
    ASSUME IInv, NEW g \in Gens, NEW m \in Message, m.key = g, m.status = "complete",
           Exact(m.text, calls[g], <<>>, snapshots)
    PROVE  WholeMessage(m, Told)
<1>1. Parted(calls[g]) /\ snapshots \in BOOLEAN /\ m.text \in Text
  BY FlagFacts, MessageIs
<1>2. /\ EndIsKept(m.text, calls[g].sent)
      /\ snapshots \/ ~Echoes(calls[g]) => m.text = calls[g].sent
  BY <1>1, ExactIsWhole
<1>3. IF Told[g].kind = "loose" THEN EndIsKept(m.text, Told[g].sent)
      ELSE m.text = Told[g].sent
  BY <1>2, ToldIs
<1> QED BY <1>3 DEF WholeMessage

\* Facts about the conversations.
LEMMA ConvFacts ==
    ASSUME IInv
    PROVE  /\ msgs \in Seq(Message) /\ Coming \in Seq(Message)
           /\ latest \in Seq(Message) /\ stored \in Seq(Message)
           /\ UniqueKeys(msgs) /\ UniqueKeys(Coming)
           /\ Len(Coming) = Len(msgs) /\ Len(latest) = Len(msgs)
           /\ shown => /\ msgs # <<>> /\ Coming # <<>> /\ latest # <<>>
                       /\ Last(msgs) \in Message /\ Last(Coming) \in Message
                       /\ Last(msgs).from = "assistant" /\ Last(msgs).key = gen
                       /\ Last(Coming).from = "assistant" /\ Last(Coming).key = gen
                       /\ Id(Last(Coming)) = Id(Last(msgs))
                       /\ Id(Last(latest)) = Id(Last(msgs))
<1>1. ConvsInv /\ ReplyInv
  BY DEF IInv
<1>2. /\ msgs \in Seq(Message) /\ Coming \in Seq(Message)
      /\ latest \in Seq(Message) /\ stored \in Seq(Message)
      /\ UniqueKeys(msgs) /\ UniqueKeys(Coming)
      /\ Len(Coming) = Len(msgs) /\ Len(latest) = Len(msgs)
  BY <1>1 DEF ConvsInv, OK, ConversationOK, SameButLast
<1>3. ASSUME shown
      PROVE  /\ msgs # <<>> /\ Coming # <<>> /\ latest # <<>>
             /\ Last(msgs) \in Message /\ Last(Coming) \in Message
             /\ Last(msgs).from = "assistant" /\ Last(msgs).key = gen
             /\ Last(Coming).from = "assistant" /\ Last(Coming).key = gen
             /\ Id(Last(Coming)) = Id(Last(msgs))
             /\ Id(Last(latest)) = Id(Last(msgs))
  <2>1. msgs # <<>> /\ Last(msgs).from = "assistant" /\ Last(msgs).key = gen
    BY <1>1, <1>3 DEF ReplyInv
  <2>2. /\ Len(msgs) \in 1 .. Len(msgs) /\ Last(msgs) = msgs[Len(msgs)]
        /\ Coming # <<>> /\ latest # <<>>
        /\ Last(msgs) \in Message /\ Last(Coming) \in Message
        /\ Last(Coming) = Coming[Len(msgs)] /\ Last(latest) = latest[Len(msgs)]
    BY <1>2, <2>1, ConversationIs
  <2>3. Id(Last(Coming)) = Id(Last(msgs)) /\ Id(Last(latest)) = Id(Last(msgs))
    BY <1>1, <1>2, <2>2 DEF ConvsInv, SameButLast
  <2> QED BY <2>1, <2>2, <2>3 DEF Id
<1> QED BY <1>2, <1>3

-----------------------------------------------------------------------------
(* How a step gets to the next conversations.                              *)

\* The same update on another conversation.
LEMMA LastIsUpdated ==
    ASSUME NEW ms \in Seq(Message), ms # <<>>, Last(ms).from = "assistant",
           NEW u, u.op \in {"chunk", "complete", "stop", "fail", "answer"}
    PROVE  applyMessageStateUpdate(u, ms, u.gen) =
             WithLast(ms, UpdateMessage(u, Last(ms)))
<1>1. updateLastAssistantMessage(ms, u) = WithLast(ms, UpdateMessage(u, Last(ms)))
  <2>1. Last(ms) = ms[Len(ms)]
    BY ConversationIs
  <2> QED BY <2>1 DEF updateLastAssistantMessage, WithLast
<1> QED BY <1>1 DEF applyMessageStateUpdate

\* An update of another generation does nothing.
LEMMA StaleUpdate ==
    ASSUME NEW u, u.op \in {"chunk", "complete", "stop", "fail", "answer"},
           NEW ms, NEW c, c # u.gen
    PROVE  applyMessageStateUpdate(u, ms, c) = ms
BY DEF applyMessageStateUpdate

\* A step that ends with a render, or with the page unmounted.
LEMMA RenderedStep ==
    ASSUME queue' = <<>>, latest' = msgs', OK(msgs)', OK(stored)',
           page' = "open" /\ ~saveTimer' =>
              stored' \in {latest', trimMessages(latest')}
    PROVE  QueueInv' /\ ConvsInv' /\ Coming' = msgs'
<1>1. Coming' = msgs'
  BY ComingIsShownNext
<1>2. QueueInv'
  <2>1. queue' \in Seq(Updater) /\ Len(queue') = 0
    OBVIOUS
  <2> QED BY <2>1 DEF QueueInv, EagerFirst
<1>3. SameButLast(msgs', msgs')
  BY DEF SameButLast
<1> QED BY <1>1, <1>2, <1>3 DEF ConvsInv, OK

\* A step that leaves the conversations alone.
LEMMA SameConversations ==
    ASSUME IInv, UNCHANGED <<queue, msgs, latest, stored>>, gen' = gen, page' = page,
           UNCHANGED saveTimer, overwritten' = overwritten,
           \A k \in Gens : Extends(Told[k], Told'[k])
    PROVE  QueueInv' /\ ConvsInv' /\ Coming' = Coming
<1>1. Coming' = Coming
  BY DEF Coming
<1>2. QueueInv'
  BY DEF IInv, QueueInv, EagerFirst
<1>3. gen \in Int
  BY FlagFacts
<1>4. ASSUME NEW ms, OK(ms) PROVE ConversationOK(ms, gen', Told', overwritten')
  <2>1. gen' \in Int /\ gen <= gen' /\ overwritten \subseteq overwritten'
    BY <1>3
  <2> QED BY <1>3, <1>4, <2>1, ConversationGrows DEF OK
<1>5. ConvsInv'
  BY <1>1, <1>4 DEF IInv, ConvsInv, OK
<1> QED BY <1>1, <1>2, <1>5

-----------------------------------------------------------------------------
(* Updates that arrive.                                                    *)

\* The updates us are queued.
QueuedPlain(us) ==
    queue' = queue \o us /\ UNCHANGED <<msgs, shown, latest, saveTimer>>

\* React ran u at once, and rest is queued.
QueuedEager(u, rest) ==
    /\ queue = <<>>
    /\ queue' = <<Eager(applyMessageStateUpdate(u, msgs, gen))>> \o rest
    /\ latest' = applyMessageStateUpdate(u, msgs, gen) /\ saveTimer' = TRUE
    /\ UNCHANGED <<msgs, shown>>

\* Updates of the last message of the current generation.
LastUpdates == {"chunk", "complete", "fail", "answer"}

\* One update is queued or run.
LEMMA EnqueueOne ==
    ASSUME QueueInv, NEW u \in Updater, u.op # "eager", Enqueue(<<u>>)
    PROVE  QueuedPlain(<<u>>) \/ QueuedEager(u, <<>>)
<1>1. PICK q \in Queued(<<u>>) :
        /\ queue' = q
        /\ UNCHANGED <<msgs, shown>>
        /\ IF queue = <<>> /\ q # <<>> /\ q[1].op = "eager"
           THEN persistMessages(q[1].ms)
           ELSE UNCHANGED <<latest, saveTimer>>
  BY DEF Enqueue
<1>2. CASE q = queue \o <<u>>
  <2>1. queue = <<>> => q[1] = u
    BY <1>2
  <2> QED BY <1>1, <1>2, <2>1 DEF QueuedPlain
<1>3. CASE q # queue \o <<u>>
  <2> DEFINE x == applyMessageStateUpdate(u, msgs, gen)
  <2>1. Head(<<u>>) = u /\ Tail(<<u>>) = <<>>
    OBVIOUS
  <2>2. queue = <<>> /\ q = <<Eager(x)>> \o <<>>
    BY <1>3, <2>1 DEF Queued
  <2> HIDE DEF x
  <2>3. q # <<>> /\ q[1] = Eager(x)
    BY <2>2
  <2>4. q[1].op = "eager" /\ q[1].ms = x
    BY <2>3 DEF Eager, Update
  <2> QED BY <1>1, <2>2, <2>3, <2>4 DEF QueuedEager, persistMessages, x
<1> QED BY <1>2, <1>3

\* Two sequences of one.
LEMMA TwoInOne ==
    ASSUME NEW S, NEW u \in S, NEW v \in S
    PROVE  <<u>> \o <<v>> = <<u, v>>
<1>1. <<u>> \o <<v>> \in Seq(S) /\ <<u, v>> \in Seq(S)
  OBVIOUS
<1>2. Len(<<u>> \o <<v>>) = 2 /\ Len(<<u, v>>) = 2
  OBVIOUS
<1>3. \A i \in 1 .. 2 : (<<u>> \o <<v>>)[i] = <<u, v>>[i]
  OBVIOUS
<1> DEFINE a == <<u>> \o <<v>>
           b == <<u, v>>
<1> HIDE DEF a, b
<1>4. a \in Seq(S) /\ b \in Seq(S) /\ Len(a) = Len(b)
      /\ \A i \in 1 .. Len(a) : a[i] = b[i]
  BY <1>1, <1>2, <1>3 DEF a, b
<1>5. a = b
  BY <1>4, SeqEqual
<1> QED BY <1>5 DEF a, b

\* Two updates are queued, or the first is run.
LEMMA EnqueueTwo ==
    ASSUME QueueInv, NEW u \in Updater, u.op # "eager", NEW v \in Updater,
           Enqueue(<<u>> \o <<v>>)
    PROVE  QueuedPlain(<<u>> \o <<v>>) \/ QueuedEager(u, <<v>>)
<1> DEFINE us == <<u>> \o <<v>>
<1>1. PICK q \in Queued(us) :
        /\ queue' = q
        /\ UNCHANGED <<msgs, shown>>
        /\ IF queue = <<>> /\ q # <<>> /\ q[1].op = "eager"
           THEN persistMessages(q[1].ms)
           ELSE UNCHANGED <<latest, saveTimer>>
  BY DEF Enqueue
<1>2. CASE q = queue \o us
  <2>1. queue = <<>> => q[1] = u
    BY <1>2
  <2> QED BY <1>1, <1>2, <2>1 DEF QueuedPlain
<1>3. CASE q # queue \o us
  <2> DEFINE x == applyMessageStateUpdate(u, msgs, gen)
  <2>1. Head(us) = u /\ Tail(us) = <<v>>
    <3>1. us = <<u, v>>
      BY TwoInOne
    <3>2. Head(<<u, v>>) = u /\ Tail(<<u, v>>) = <<v>>
      OBVIOUS
    <3> QED BY <3>1, <3>2
  <2>2. queue = <<>> /\ q = <<Eager(x)>> \o <<v>>
    BY <1>3, <2>1 DEF Queued
  <2> HIDE DEF x
  <2>3. q # <<>> /\ q[1] = Eager(x)
    BY <2>2
  <2>4. q[1].op = "eager" /\ q[1].ms = x
    BY <2>3 DEF Eager, Update
  <2> QED BY <1>1, <2>2, <2>3, <2>4 DEF QueuedEager, persistMessages, x
<1> QED BY <1>2, <1>3

\* Nothing is queued.
LEMMA EnqueueNone ==
    ASSUME QueueInv, Enqueue(<<>>)
    PROVE  UNCHANGED <<queue, msgs, shown, latest, saveTimer>>
<1>1. PICK q \in Queued(<<>>) :
        /\ queue' = q
        /\ UNCHANGED <<msgs, shown>>
        /\ IF queue = <<>> /\ q # <<>> /\ q[1].op = "eager"
           THEN persistMessages(q[1].ms)
           ELSE UNCHANGED <<latest, saveTimer>>
  BY DEF Enqueue
<1>2. q = queue \o <<>>
  BY DEF Queued
<1>3. q = queue
  BY <1>2, ConcatEmptySeq DEF QueueInv
<1> QED BY <1>1, <1>3

\* What is the same but for the last twice is so once.
LEMMA SameTwice ==
    ASSUME NEW ms, NEW ns, NEW os, SameButLast(os, ns), SameButLast(ns, ms)
    PROVE  SameButLast(os, ms)
BY DEF SameButLast

\* An update of the last message.
LEMMA UpdatedConversation ==
    ASSUME NEW ms, NEW g, NEW cs, NEW cut, ConversationOK(ms, g, cs, cut),
           ms # <<>>, Last(ms).from = "assistant",
           NEW u, u.op \in LastUpdates \cup {"stop"}, u.gen = g,
           UpdateMessage(u, Last(ms)) \in Message,
           MessageOK(UpdateMessage(u, Last(ms)), g, cs, cut),
           Id(UpdateMessage(u, Last(ms))) = Id(Last(ms))
    PROVE  LET ns == applyMessageStateUpdate(u, ms, g)
           IN  /\ ConversationOK(ns, g, cs, cut) /\ SameButLast(ns, ms)
               /\ ns # <<>> /\ Last(ns) = UpdateMessage(u, Last(ms))
<1>1. ms \in Seq(Message)
  BY DEF ConversationOK
<1> DEFINE m == UpdateMessage(u, Last(ms))
<1>2. applyMessageStateUpdate(u, ms, g) = WithLast(ms, m)
  BY <1>1, LastIsUpdated DEF LastUpdates
<1>3. m \in Message /\ MessageOK(m, g, cs, cut) /\ Id(m) = Id(Last(ms))
  OBVIOUS
<1> HIDE DEF m
<1>4. ConversationOK(WithLast(ms, m), g, cs, cut) /\ SameButLast(WithLast(ms, m), ms)
  BY <1>3, ConversationWithLast
<1>5. WithLast(ms, m) # <<>> /\ Last(WithLast(ms, m)) = m
  BY <1>1, <1>3, WithLastIs
<1> QED BY <1>2, <1>4, <1>5 DEF m

\* The first update of an empty queue that React has run.
LEMMA EagerIs ==
    ASSUME NEW x \in Seq(Message), NEW ms, NEW c
    PROVE  /\ Eager(x) \in Updater /\ Eager(x).op = "eager" /\ Eager(x).ms = x
           /\ Applied(<<Eager(x)>>, ms, c) = x
<1>1. Eager(x) \in Updater /\ Eager(x).op = "eager" /\ Eager(x).ms = x
  BY FixedTexts DEF Eager, Update, Updater
<1>2. applyMessageStateUpdate(Eager(x), ms, c) = x
  BY <1>1 DEF applyMessageStateUpdate
<1> DEFINE u == Eager(x)
           e == <<>>
<1> HIDE DEF u
<1>3. e \in Seq(Updater) /\ e \o <<u>> = <<u>> /\ e = <<>>
  OBVIOUS
<1> HIDE DEF e
<1>4. Applied(e \o <<u>>, ms, c) = applyMessageStateUpdate(u, Applied(e, ms, c), c)
  <2>1. e \in Seq(Updater)
    BY <1>3
  <2> QED BY <2>1, AppliedMore, ZenonT(60)
<1>5. Applied(<<u>>, ms, c) = applyMessageStateUpdate(u, ms, c)
  BY <1>3, <1>4, AppliedNone
<1> QED BY <1>1, <1>2, <1>5 DEF u, applyMessageStateUpdate

\* What a step of the network leaves alone while it queues updates.
Arrival ==
    /\ gen' = gen /\ page' = page /\ stored' = stored /\ overwritten' = overwritten
    /\ \A k \in Gens : Extends(Told[k], Told'[k])

\* The conversations are right under what was sent after the step.
LEMMA ArrivalKeeps ==
    ASSUME IInv, Arrival
    PROVE  /\ ConversationOK(msgs, gen, Told', overwritten)
           /\ ConversationOK(Coming, gen, Told', overwritten)
           /\ ConversationOK(latest, gen, Told', overwritten)
           /\ ConversationOK(stored, gen, Told', overwritten)
<1>1. gen \in Int
  BY FlagFacts
<1>2. ASSUME NEW ms, OK(ms) PROVE ConversationOK(ms, gen, Told', overwritten)
  <2>1. gen <= gen /\ overwritten \subseteq overwritten
    BY <1>1
  <2> QED BY <1>1, <1>2, <2>1, ConversationGrows DEF OK, Arrival
<1> QED BY <1>2 DEF IInv, ConvsInv

\* The queue after us, all of the current generation.
LEMMA QueueGrows ==
    ASSUME IInv, Arrival, NEW us \in Seq(Updater),
           \A i \in 1 .. Len(us) : us[i].op # "eager" /\ us[i].gen = gen,
           QueuedPlain(us)
    PROVE  QueueInv' /\ latest' = latest
<1>1. QueueInv /\ queue \in Seq(Updater) /\ Len(queue) \in Nat /\ Len(us) \in Nat
  BY LenProperties DEF IInv, QueueInv
<1> DEFINE q == queue \o us
<1>2. /\ q \in Seq(Updater) /\ Len(q) = Len(queue) + Len(us)
      /\ \A i \in 1 .. Len(queue) + Len(us) :
            q[i] = IF i <= Len(queue) THEN queue[i] ELSE us[i - Len(queue)]
  BY <1>1, ConcatProperties
<1> HIDE DEF q
<1>3. queue' = q /\ latest' = latest /\ msgs' = msgs /\ saveTimer' = saveTimer
  BY DEF QueuedPlain, q
<1>4. ASSUME NEW i \in 1 .. Len(q)
      PROVE  IF q[i].op = "eager" THEN i = 1 /\ queue # <<>> /\ q[1] = queue[1]
             ELSE q[i].gen = gen
  <2>1. CASE i <= Len(queue)
    <3>1. i \in 1 .. Len(queue) /\ q[i] = queue[i]
      BY <1>1, <1>2, <2>1
    <3>2. queue # <<>>
      BY <1>1, <3>1
    <3> QED BY <1>1, <3>1, <3>2 DEF QueueInv
  <2>2. CASE ~(i <= Len(queue))
    <3>1. i - Len(queue) \in 1 .. Len(us) /\ q[i] = us[i - Len(queue)]
      BY <1>1, <1>2, <2>2
    <3> QED BY <3>1
  <2> QED BY <2>1, <2>2
<1>5. latest = IF q # <<>> /\ q[1].op = "eager" THEN q[1].ms ELSE msgs
  <2>1. CASE EagerFirst
    <3>1. queue # <<>> /\ queue[1].op = "eager" /\ latest = queue[1].ms
      BY <1>1, <2>1 DEF EagerFirst, QueueInv
    <3>2. 1 <= Len(queue) /\ 1 \in 1 .. Len(queue) + Len(us)
      BY <1>1, <3>1
    <3>3. q[1] = queue[1] /\ q # <<>>
      BY <1>1, <1>2, <3>2
    <3> QED BY <3>1, <3>3
  <2>2. CASE ~EagerFirst
    <3>1. latest = msgs
      BY <1>1, <2>2 DEF QueueInv
    <3>2. ASSUME q # <<>>, q[1].op = "eager" PROVE FALSE
      <4>1. 1 \in 1 .. Len(q)
        BY <1>1, <1>2, <3>2
      <4>2. queue # <<>> /\ q[1] = queue[1]
        BY <1>4, <3>2, <4>1
      <4> QED BY <2>2, <3>2, <4>2 DEF EagerFirst
    <3> QED BY <3>1, <3>2
  <2> QED BY <2>1, <2>2
<1>6. page' = "open" /\ ~saveTimer' => stored' \in {latest', trimMessages(latest')}
  BY <1>1, <1>3 DEF QueueInv, Arrival
<1>7. \A i \in 1 .. Len(queue') :
         IF queue'[i].op = "eager" THEN i = 1 ELSE queue'[i].gen = gen'
  BY <1>3, <1>4 DEF Arrival
<1> QED BY <1>2, <1>3, <1>5, <1>6, <1>7 DEF QueueInv, EagerFirst

\* The queue after an update that React has run, and then rest.
LEMMA QueueStarts ==
    ASSUME IInv, Arrival, NEW u, NEW rest \in Seq(Updater), Len(rest) <= 1,
           \A i \in 1 .. Len(rest) : rest[i].op # "eager" /\ rest[i].gen = gen,
           applyMessageStateUpdate(u, msgs, gen) \in Seq(Message),
           QueuedEager(u, rest)
    PROVE  QueueInv'
<1> DEFINE x == applyMessageStateUpdate(u, msgs, gen)
           e == Eager(x)
           q == <<e>> \o rest
<1>1. queue' = q /\ latest' = x /\ msgs' = msgs /\ saveTimer' = TRUE /\ x \in Seq(Message)
  BY DEF QueuedEager
<1> HIDE DEF x
<1>2. e \in Updater /\ e.op = "eager" /\ e.ms = x
  BY <1>1, EagerIs
<1> HIDE DEF e
<1>3. Len(rest) \in Nat
  BY LenProperties
<1>4. /\ q \in Seq(Updater) /\ Len(q) = 1 + Len(rest) /\ q[1] = e
      /\ \A i \in 1 .. Len(rest) + 1 : i # 1 => q[i] = rest[i - 1]
  BY <1>2, <1>3, ConcatProperties
<1> HIDE DEF q
<1>5. q # <<>>
  BY <1>3, <1>4
<1>6. \A i \in 1 .. Len(q) : IF q[i].op = "eager" THEN i = 1 ELSE q[i].gen = gen
  <2> SUFFICES ASSUME NEW i \in 1 .. Len(q)
               PROVE  IF q[i].op = "eager" THEN i = 1 ELSE q[i].gen = gen
    OBVIOUS
  <2>1. CASE i = 1
    BY <1>2, <1>4, <2>1
  <2>2. CASE i # 1
    <3>1. i - 1 \in 1 .. Len(rest) /\ q[i] = rest[i - 1]
      BY <1>3, <1>4, <2>2
    <3> QED BY <3>1
  <2> QED BY <2>1, <2>2
<1> QED BY <1>1, <1>2, <1>4, <1>5, <1>6 DEF QueueInv, EagerFirst, Arrival

\* u may update the last message m while cs was sent.
MayUpdate(u, m, cs) ==
    /\ u \in Updater /\ u.op \in LastUpdates /\ u.gen = gen
    /\ UpdateMessage(u, m) \in Message /\ Id(UpdateMessage(u, m)) = Id(m)
    /\ MessageOK(UpdateMessage(u, m), gen, cs, overwritten)

\* What became of the conversations: m is the last message that comes.
Arrived(m) ==
    /\ QueueInv' /\ ConvsInv' /\ msgs' = msgs /\ shown' = shown
    /\ saveTimer' \in BOOLEAN
    /\ Coming' # <<>> /\ Last(Coming)' = m /\ SameButLast(Coming', Coming)

\* One update of the last message.
LEMMA UpdateOnce ==
    ASSUME IInv, shown, Arrival, NEW u, MayUpdate(u, Last(Coming), Told')
    PROVE  LET C == applyMessageStateUpdate(u, Coming, gen)
           IN  /\ ConversationOK(C, gen, Told', overwritten) /\ C \in Seq(Message)
               /\ C # <<>> /\ Last(C) = UpdateMessage(u, Last(Coming))
               /\ Last(C).from = "assistant"
               /\ SameButLast(C, Coming) /\ SameButLast(C, msgs)
<1> DEFINE C == applyMessageStateUpdate(u, Coming, gen)
<1>1. ConversationOK(Coming, gen, Told', overwritten)
  BY ArrivalKeeps
<1>2. Coming # <<>> /\ Last(Coming).from = "assistant"
  BY ConvFacts
<1>3. /\ ConversationOK(C, gen, Told', overwritten) /\ SameButLast(C, Coming)
      /\ C # <<>> /\ Last(C) = UpdateMessage(u, Last(Coming))
  BY <1>1, <1>2, UpdatedConversation DEF MayUpdate
<1> HIDE DEF C
<1>4. SameButLast(C, msgs)
  BY <1>3, SameTwice DEF IInv, ConvsInv
<1>5. Last(C).from = "assistant"
  BY <1>2, <1>3 DEF MayUpdate, Id
<1>6. C \in Seq(Message)
  BY <1>3 DEF ConversationOK
<1> QED BY <1>3, <1>4, <1>5, <1>6 DEF C

\* The conversations after the step, C being what comes.
LEMMA ArrivedConvs ==
    ASSUME IInv, Arrival, msgs' = msgs, NEW C, Coming' = C,
           ConversationOK(C, gen, Told', overwritten), SameButLast(C, msgs),
           NEW L, latest' = L, ConversationOK(L, gen, Told', overwritten),
           SameButLast(L, msgs)
    PROVE  ConvsInv'
BY ArrivalKeeps DEF ConvsInv, OK, Arrival

\* One update is queued, or run.
LEMMA ArriveOne ==
    ASSUME IInv, shown, Arrival, NEW u, MayUpdate(u, Last(Coming), Told'),
           QueuedPlain(<<u>>) \/ QueuedEager(u, <<>>)
    PROVE  Arrived(UpdateMessage(u, Last(Coming)))
<1> DEFINE C == applyMessageStateUpdate(u, Coming, gen)
<1>1. /\ ConversationOK(C, gen, Told', overwritten) /\ C \in Seq(Message)
      /\ C # <<>> /\ Last(C) = UpdateMessage(u, Last(Coming))
      /\ SameButLast(C, Coming) /\ SameButLast(C, msgs)
  BY UpdateOnce
<1>2. u \in Updater /\ u.op # "eager" /\ u.gen = gen
  BY DEF MayUpdate, LastUpdates
<1>3. queue \in Seq(Updater) /\ saveTimer \in BOOLEAN
  BY DEF IInv, QueueInv, PlainInv
<1>4. CASE QueuedPlain(<<u>>)
  <2>1. <<u>> \in Seq(Updater) /\ Len(<<u>>) = 1 /\ <<u>>[1] = u
    BY <1>2
  <2>2. QueueInv' /\ latest' = latest
    <3> DEFINE us == <<u>>
    <3>1. /\ us \in Seq(Updater) /\ QueuedPlain(us)
          /\ \A i \in 1 .. Len(us) : us[i].op # "eager" /\ us[i].gen = gen
      BY <1>2, <1>4, <2>1
    <3> HIDE DEF us
    <3> QED BY <3>1, QueueGrows
  <2>3. Applied(queue \o <<u>>, msgs, gen)
          = applyMessageStateUpdate(u, Applied(queue, msgs, gen), gen)
    BY <1>3, AppliedMore, ZenonT(60)
  <2>4. Coming' = C /\ msgs' = msgs /\ shown' = shown /\ saveTimer' = saveTimer
    BY <1>4, <2>3 DEF QueuedPlain, Coming, Arrival
  <2> HIDE DEF C
  <2>5. ConvsInv'
    <3>1. ConversationOK(latest, gen, Told', overwritten) /\ SameButLast(latest, msgs)
      BY ArrivalKeeps DEF IInv, ConvsInv
    <3> QED BY <1>1, <2>2, <2>4, <3>1, ArrivedConvs
  <2> QED BY <1>1, <1>3, <2>2, <2>4, <2>5 DEF Arrived
<1>5. CASE QueuedEager(u, <<>>)
  <2>1. queue = <<>> /\ Coming = msgs
    BY <1>5, ComingIsShown DEF QueuedEager
  <2>2. /\ queue' = <<Eager(C)>> \o <<>> /\ latest' = C /\ msgs' = msgs /\ shown' = shown
        /\ saveTimer' = TRUE
    BY <1>5, <2>1 DEF QueuedEager
  <2>3. QueueInv'
    <3> DEFINE rest == <<>>
    <3>1. rest \in Seq(Updater) /\ Len(rest) = 0 /\ QueuedEager(u, rest)
      BY <1>5
    <3>2. applyMessageStateUpdate(u, msgs, gen) \in Seq(Message)
      BY <1>1, <2>1
    <3> HIDE DEF rest, C
    <3>3. /\ Len(rest) <= 1
          /\ \A i \in 1 .. Len(rest) : rest[i].op # "eager" /\ rest[i].gen = gen
      BY <3>1
    <3> QED BY <3>1, <3>2, <3>3, QueueStarts
  <2> HIDE DEF C
  <2>4. <<Eager(C)>> \o <<>> = <<Eager(C)>>
    OBVIOUS
  <2>5. Coming' = C
    BY <1>1, <2>2, <2>4, EagerIs DEF Coming
  <2>6. ConvsInv'
    BY <1>1, <2>2, <2>5, ArrivedConvs
  <2> QED BY <1>1, <2>2, <2>3, <2>5, <2>6 DEF Arrived
<1> QED BY <1>4, <1>5

\* Two updates are queued, or the first is run.
LEMMA ArriveTwo ==
    ASSUME IInv, shown, Arrival, NEW u, MayUpdate(u, Last(Coming), Told'),
           NEW v, MayUpdate(v, UpdateMessage(u, Last(Coming)), Told'),
           QueuedPlain(<<u>> \o <<v>>) \/ QueuedEager(u, <<v>>)
    PROVE  Arrived(UpdateMessage(v, UpdateMessage(u, Last(Coming))))
<1> DEFINE B == applyMessageStateUpdate(u, Coming, gen)
           C == applyMessageStateUpdate(v, B, gen)
<1>1. /\ ConversationOK(B, gen, Told', overwritten) /\ B \in Seq(Message)
      /\ B # <<>> /\ Last(B) = UpdateMessage(u, Last(Coming))
      /\ Last(B).from = "assistant"
      /\ SameButLast(B, Coming) /\ SameButLast(B, msgs)
  BY UpdateOnce
<1>2. /\ u \in Updater /\ u.op # "eager" /\ u.gen = gen
      /\ v \in Updater /\ v.op # "eager" /\ v.gen = gen
  BY DEF MayUpdate, LastUpdates
<1>3. queue \in Seq(Updater) /\ saveTimer \in BOOLEAN
  BY DEF IInv, QueueInv, PlainInv
<1>4. Coming = Applied(queue, msgs, gen)
  BY DEF Coming
<1>5. B = applyMessageStateUpdate(u, Coming, gen)
  OBVIOUS
<1> HIDE DEF B
<1>6. /\ ConversationOK(C, gen, Told', overwritten) /\ SameButLast(C, B)
      /\ C # <<>> /\ Last(C) = UpdateMessage(v, UpdateMessage(u, Last(Coming)))
  BY <1>1, UpdatedConversation DEF MayUpdate
<1>7. C = applyMessageStateUpdate(v, B, gen)
  OBVIOUS
<1> HIDE DEF C
<1>8. SameButLast(C, Coming) /\ SameButLast(C, msgs)
  BY <1>1, <1>6, SameTwice
<1>9. CASE QueuedPlain(<<u>> \o <<v>>)
  <2> DEFINE us == <<u>> \o <<v>>
  <2>1. us \in Seq(Updater) /\ Len(us) = 2 /\ us[1] = u /\ us[2] = v
    BY <1>2
  <2>2. \A i \in 1 .. Len(us) : us[i].op # "eager" /\ us[i].gen = gen
    BY <1>2, <2>1
  <2>3. queue \o us = (queue \o <<u>>) \o <<v>>
    <3>1. <<u>> \in Seq(Updater) /\ <<v>> \in Seq(Updater)
      BY <1>2
    <3> QED BY <1>3, <3>1, ConcatAssociative
  <2> HIDE DEF us
  <2>4. QueuedPlain(us)
    BY <1>9 DEF us
  <2>5. QueueInv' /\ latest' = latest
    BY <2>1, <2>2, <2>4, QueueGrows
  <2>6. Applied(queue \o <<u>>, msgs, gen) = B
    <3>1. Applied(queue \o <<u>>, msgs, gen)
            = applyMessageStateUpdate(u, Applied(queue, msgs, gen), gen)
      BY <1>3, AppliedMore, ZenonT(60)
    <3> QED BY <1>4, <1>5, <3>1
  <2>7. Applied((queue \o <<u>>) \o <<v>>, msgs, gen) = C
    <3> DEFINE q == queue \o <<u>>
    <3>1. q \in Seq(Updater)
      BY <1>2, <1>3
    <3> HIDE DEF q
    <3>2. Applied(q \o <<v>>, msgs, gen)
            = applyMessageStateUpdate(v, Applied(q, msgs, gen), gen)
      BY <3>1, AppliedMore, ZenonT(60)
    <3> QED BY <1>7, <2>6, <3>2 DEF q
  <2>8. Coming' = C /\ msgs' = msgs /\ shown' = shown /\ saveTimer' = saveTimer
    BY <2>3, <2>4, <2>7 DEF QueuedPlain, Coming, Arrival
  <2>9. ConvsInv'
    <3>1. ConversationOK(latest, gen, Told', overwritten) /\ SameButLast(latest, msgs)
      BY ArrivalKeeps DEF IInv, ConvsInv
    <3> QED BY <1>6, <1>8, <2>5, <2>8, <3>1, ArrivedConvs
  <2> QED BY <1>3, <1>6, <1>8, <2>5, <2>8, <2>9 DEF Arrived
<1>10. CASE QueuedEager(u, <<v>>)
  <2>1. queue = <<>> /\ Coming = msgs
    BY <1>10, ComingIsShown DEF QueuedEager
  <2>2. /\ queue' = <<Eager(B)>> \o <<v>> /\ latest' = B /\ msgs' = msgs /\ shown' = shown
        /\ saveTimer' = TRUE
    BY <1>5, <1>10, <2>1 DEF QueuedEager
  <2>3. QueueInv'
    <3> DEFINE rest == <<v>>
    <3>1. /\ rest \in Seq(Updater) /\ Len(rest) = 1 /\ rest[1] = v
          /\ QueuedEager(u, rest)
      BY <1>2, <1>10
    <3>2. applyMessageStateUpdate(u, msgs, gen) \in Seq(Message)
      BY <1>1, <1>5, <2>1
    <3> HIDE DEF rest
    <3>3. /\ Len(rest) <= 1
          /\ \A i \in 1 .. Len(rest) : rest[i].op # "eager" /\ rest[i].gen = gen
      BY <1>2, <3>1
    <3> QED BY <3>1, <3>2, <3>3, QueueStarts
  <2>4. Coming' = C
    <3> DEFINE e == Eager(B)
               q == <<e>>
    <3>1. e \in Updater /\ Applied(q, msgs, gen) = B
      BY <1>1, EagerIs
    <3> HIDE DEF e
    <3>2. q \in Seq(Updater)
      BY <3>1
    <3> HIDE DEF q
    <3>3. Applied(q \o <<v>>, msgs, gen)
            = applyMessageStateUpdate(v, Applied(q, msgs, gen), gen)
      BY <3>2, AppliedMore, ZenonT(60)
    <3> QED BY <1>7, <2>2, <3>1, <3>3 DEF Coming, Arrival, q, e
  <2>5. ConvsInv'
    BY <1>1, <1>6, <1>8, <2>2, <2>4, ArrivedConvs
  <2> QED BY <1>6, <1>8, <2>2, <2>3, <2>4, <2>5 DEF Arrived
<1> QED BY <1>9, <1>10

-----------------------------------------------------------------------------
(* The page around the conversation: PlainInv and PageInv.                 *)

\* What a queued update and a render do to the page.
LEMMA EnqueueFrame ==
    ASSUME NEW us, Enqueue(us)
    PROVE  msgs' = msgs /\ shown' = shown /\ saveTimer' \in {saveTimer, TRUE}
BY DEF Enqueue, persistMessages

\* What a render leaves alone.
LEMMA RenderFrame ==
    ASSUME NEW us, RenderQueue(us)
    PROVE  /\ queue' = <<>> /\ shown' = (requesting' \/ streaming')
           /\ saveTimer' \in {saveTimer, TRUE}
BY DEF RenderQueue, persistMessages

\* Nothing that waits is handed over when nothing waits.
LEMMA FlushedIs ==
    ASSUME IInv, NEW g, g = gen
    PROVE  FlushedChunk(g) = IF pending.text = <<>> THEN <<>>
                             ELSE <<Chunk(gen, pending.text)>>
BY DEF FlushedChunk, IInv, PageInv

\* The request whose event arrives is the page's.
LEMMA LiveCall ==
    ASSUME IInv, NEW g \in Gens,
           \/ calls[g].pc = "headers" /\ control.gen = calls[g].control
           \/ calls[g].pc = "chat" /\ g = gen
           \/ isCurrent(g)
    PROVE  g = gen /\ requesting /\ shown /\ page = "open"
<1>1. ControlInv /\ FlagInv /\ PageInv /\ PlainInv
  BY DEF IInv, GenInv
<1>2. g = gen
  <2>1. CASE isCurrent(g)
    BY <1>1, <2>1, HolderIsCurrent DEF isCurrent
  <2>2. CASE calls[g].pc = "headers" /\ control.gen = calls[g].control
    BY <1>1, <2>2, HolderIsCurrent
  <2> QED BY <2>1, <2>2
<1>3. requesting
  BY <1>1, <1>2 DEF FlagInv, Awaited, Live, Hanging, isCurrent
<1>4. shown
  BY <1>1, <1>3 DEF PageInv
<1> QED BY <1>1, <1>2, <1>3, <1>4 DEF PageInv, PlainInv

\* A chunk arrives: t is what was sent with it.
LEMMA StreamChunkIs ==
    ASSUME IInv, NEW g \in Gens, StreamChunk(g)
    PROVE  \E t \in Text :
              /\ Len(calls[g].sent) < Len(t) /\ Len(t) <= MaxPieces
              /\ IsPrefix(calls[g].sent, t)
              /\ calls' = [calls EXCEPT ![g] = Grown(@, t)]
              /\ handleStreamUpdate(g, NextChunk(calls[g].sent, t, snapshots))
<1> DEFINE s == calls[g].sent
<1>1. PICK r \in Replies : \E n \in 1 .. Len(r) :
          LET next == SubSeq(Answer(g, r), 1, n)
          IN  /\ Len(s) < n /\ IsPrefix(s, next)
              /\ calls' = [calls EXCEPT ![g] = Grown(@, next)]
              /\ handleStreamUpdate(g, IF snapshots THEN next
                                       ELSE SubSeq(next, Len(s) + 1, n))
  BY DEF StreamChunk
<1>2. PICK n \in 1 .. Len(r) :
          LET next == SubSeq(Answer(g, r), 1, n)
          IN  /\ Len(s) < n /\ IsPrefix(s, next)
              /\ calls' = [calls EXCEPT ![g] = Grown(@, next)]
              /\ handleStreamUpdate(g, IF snapshots THEN next
                                       ELSE SubSeq(next, Len(s) + 1, n))
  BY <1>1
<1> DEFINE t == Part(Answer(g, r), 0, n)
<1>3. t \in Text /\ Len(t) = n /\ n <= MaxPieces
  BY NextIs
<1>4. t = SubSeq(Answer(g, r), 1, n)
  BY DEF Part
<1> HIDE DEF t
<1>5. NextChunk(s, t, snapshots) = IF snapshots THEN t ELSE SubSeq(t, Len(s) + 1, n)
  BY <1>3 DEF NextChunk, Part
<1>6. /\ Len(s) < Len(t) /\ Len(t) <= MaxPieces /\ IsPrefix(s, t)
      /\ calls' = [calls EXCEPT ![g] = Grown(@, t)]
      /\ handleStreamUpdate(g, NextChunk(s, t, snapshots))
  BY <1>2, <1>3, <1>4, <1>5
<1> QED BY <1>3, <1>6

\* The next chunk is a text.
LEMMA NextChunkIs ==
    ASSUME NEW s \in Text, NEW t \in Text, Len(s) < Len(t), NEW snap \in BOOLEAN
    PROVE  NextChunk(s, t, snap) \in Text
<1>1. Len(t) \in 0 .. Len(t) /\ Len(s) \in 0 .. Len(t)
  BY TextIs
<1> QED BY <1>1, PartIs DEF NextChunk

\* The tasks of the page.
LEMMA PageTasks ==
    ASSUME IInv, Tasks
    PROVE  PlainInv' /\ PageInv'
<1>1. /\ PlainInv /\ PageInv /\ QueueInv /\ gen \in Gens /\ <<>> \in Text
      /\ requesting \in BOOLEAN /\ streaming \in BOOLEAN /\ NoGen \in Int
  BY FlagFacts, FixedTexts DEF IInv, NoGen
<1>2. CASE Render
  <2>1. /\ queue' = <<>> /\ shown' = (requesting' \/ streaming')
        /\ saveTimer' \in {saveTimer, TRUE}
    BY <1>2, RenderFrame DEF Render
  <2>2. UNCHANGED <<page, requesting, streaming, gen, pending, flushTimer, control,
                    editing, snapshots, finished, stopped, overwritten>> /\ page = "open"
    BY <1>2 DEF Render, genVars, histVars
  <2> QED BY <1>1, <2>1, <2>2 DEF PlainInv, PageInv
<1>3. CASE FlushFires
  <2>1. msgs' = msgs /\ shown' = shown /\ saveTimer' \in {saveTimer, TRUE}
    BY <1>3, EnqueueFrame DEF FlushFires
  <2>2. UNCHANGED <<page, requesting, streaming, gen, control,
                    editing, snapshots, finished, stopped, overwritten>>
        /\ page = "open"
        /\ pending' = [gen |-> gen, text |-> <<>>] /\ flushTimer' = NoGen
    BY <1>3 DEF FlushFires, histVars, FlushStreamUpdates, discardPendingStreamUpdates
  <2>3. queue' # <<>> => shown
    <3> SUFFICES ASSUME ~shown PROVE queue' = <<>>
      OBVIOUS
    <3>1. queue = <<>> /\ pending.text = <<>>
      BY <1>1 DEF PageInv
    <3>2. FlushedChunk(gen) = <<>>
      BY <3>1, FlushedIs
    <3>3. queue' = queue
      BY <1>1, <1>3, <3>2, EnqueueNone DEF FlushFires
    <3> QED BY <3>1, <3>3
  <2> QED BY <1>1, <2>1, <2>2, <2>3 DEF PlainInv, PageInv
<1>4. CASE SaveFires
  BY <1>1, <1>4 DEF SaveFires, chatVars, genVars, histVars, PlainInv, PageInv
<1> QED BY <1>2, <1>3, <1>4 DEF Tasks

\* The events of the stream and of the http call.
LEMMA PageNetwork ==
    ASSUME IInv, Network
    PROVE  PlainInv' /\ PageInv'
<1>1. /\ PlainInv /\ PageInv /\ QueueInv /\ gen \in Gens /\ <<>> \in Text
      /\ requesting \in BOOLEAN /\ streaming \in BOOLEAN /\ GenInv
  BY FlagFacts, FixedTexts DEF IInv
<1>2. PICK g \in Gens :
        \/ HeadersReady(g) \/ HeadersFail(g)
        \/ StreamChunk(g) \/ StreamDone(g) \/ StreamFails(g) \/ StreamCloses(g)
        \/ ChatAnswers(g) \/ ChatFails(g)
  BY DEF Network
<1>3. g = gen /\ requesting /\ shown /\ page = "open"
  BY <1>2, LiveCall DEF HeadersReady, HeadersFail, StreamChunk, StreamDone, StreamFails,
     StreamCloses, ChatAnswers, ChatFails, handleStreamError
<1>4. control' = control \/ control' \in {[control EXCEPT !.source = NoGen],
                                          [control EXCEPT !.source = g]}
  BY <1>2 DEF HeadersReady, HeadersFail, StreamChunk, StreamDone, StreamFails,
     StreamCloses, ChatAnswers, ChatFails
<1>5. control'.source \in Gens \cup {NoGen}
  <2>1. control \in [gen : Nat, source : Int]
    BY <1>1 DEF GenInv, ControlInv
  <2> QED BY <1>1, <1>4, <2>1 DEF PlainInv
<1>6. /\ UNCHANGED <<page, gen, editing, snapshots, stopped, overwritten, msgs, shown>>
      /\ saveTimer' \in {saveTimer, TRUE}
      /\ finished' \in {finished, finished \cup {g}}
  BY <1>2, EnqueueFrame DEF HeadersReady, HeadersFail, StreamChunk, StreamDone, StreamFails,
     StreamCloses, ChatAnswers, ChatFails, handleStreamError, handleStreamComplete,
     EnqueueLater, histVars, chatVars, saveVars
<1>7. /\ pending' \in [gen : Gens, text : Text] /\ pending'.gen = gen
      /\ flushTimer' \in Gens \cup {NoGen}
      /\ pending'.text # <<>> => streaming'
  <2>1. CASE StreamChunk(g)
    <3>1. PICK t \in Text :
            /\ Len(calls[g].sent) < Len(t)
            /\ handleStreamUpdate(g, NextChunk(calls[g].sent, t, snapshots))
      BY <2>1, StreamChunkIs
    <3> DEFINE c == NextChunk(calls[g].sent, t, snapshots)
    <3>2. /\ pending' = [pending EXCEPT !.text = mergePendingStreamChunk(@, c)]
          /\ flushTimer' = IF flushTimer = NoGen THEN g ELSE flushTimer
          /\ streaming' = streaming /\ streaming
      BY <1>1, <1>3, <2>1, <3>1
         DEF StreamChunk, handleStreamUpdate, chatVars, GenInv, FlagInv
    <3>3. c \in Text
      BY <3>1, FlagFacts, NextChunkIs
    <3> HIDE DEF c
    <3>4. pending.text \in Text /\ mergePendingStreamChunk(pending.text, c) \in Text
      BY <1>1, <3>3, MergeIs DEF PlainInv
    <3> QED BY <1>1, <1>3, <3>2, <3>4 DEF PlainInv, PageInv
  <2>2. CASE ~StreamChunk(g)
    <3>1. \/ pending' = [gen |-> gen, text |-> <<>>] /\ flushTimer' = NoGen
          \/ pending' = pending /\ flushTimer' = flushTimer
             /\ (streaming => streaming')
      BY <1>2, <1>3, <2>2 DEF HeadersReady, HeadersFail, StreamDone, StreamFails, StreamCloses,
         ChatAnswers, ChatFails, handleStreamError, handleStreamComplete,
         FlushStreamUpdates, discardPendingStreamUpdates, chatVars
    <3>2. CASE pending' = [gen |-> gen, text |-> <<>>] /\ flushTimer' = NoGen
      BY <1>1, <3>2
    <3>3. CASE pending' = pending /\ flushTimer' = flushTimer
               /\ (streaming => streaming')
      BY <1>1, <3>3 DEF PlainInv, PageInv
    <3> QED BY <3>1, <3>2, <3>3
  <2> QED BY <2>1, <2>2
<1> QED BY <1>1, <1>3, <1>5, <1>6, <1>7 DEF PlainInv, PageInv

\* A message of the conversation has a key the editor can hold.
LEMMA EditableIs ==
    ASSUME IInv, NEW i \in DOMAIN msgs
    PROVE  /\ i \in 1 .. Len(msgs) /\ msgs[i] \in Message
           /\ Id(msgs[i]) \in [from : {"user", "assistant", "none"}, key : Gens]
           /\ Id(msgs[i]).from \in {"user", "assistant"} /\ Id(msgs[i]).key <= gen
<1>1. msgs \in Seq(Message) /\ OK(msgs)
  BY ConvFacts DEF IInv, ConvsInv
<1>2. i \in 1 .. Len(msgs) /\ msgs[i] \in Message
  BY <1>1, ConversationIs
<1>3. msgs[i].key <= gen
  BY <1>1, <1>2 DEF OK, ConversationOK, MessageOK
<1> QED BY <1>2, <1>3, MessageIs DEF Id

\* A new generation.
LEMMA PageSends ==
    ASSUME IInv, NEW stream \in BOOLEAN, Act, SendChat(stream), NEW us, RenderQueue(us),
           editing' \in {editing, NoId}, UNCHANGED <<page, snapshots, finished, stopped>>,
           overwritten' \in {overwritten, overwritten \cup {gen}}
    PROVE  PlainInv' /\ PageInv' /\ gen' \in Gens
<1>1. /\ PlainInv /\ PageInv /\ gen \in Gens /\ gen \in Nat /\ <<>> \in Text
      /\ GenInv' /\ 0 \in Gens
  BY FlagFacts, FixedTexts, SendStep, PlaygroundAssumption DEF IInv, Gens
<1>2. /\ gen' = gen + 1 /\ pending' = [gen |-> gen + 1, text |-> <<>>]
      /\ flushTimer' = NoGen /\ control' = [gen |-> control.gen + 1, source |-> NoGen]
      /\ streaming' = FALSE /\ requesting' = TRUE
  BY DEF SendChat, discardPendingStreamUpdates, CancelStream
<1>3. gen' \in Gens
  BY <1>1, PlaygroundAssumption DEF GenInv, ControlInv, Gens
<1>4. /\ queue' = <<>> /\ shown' = (requesting' \/ streaming')
      /\ saveTimer' \in {saveTimer, TRUE}
  BY RenderFrame
<1>5. page = "open"
  BY DEF Act
<1>6. /\ editing' \in [from : {"user", "assistant", "none"}, key : Gens]
      /\ editing'.key < gen' \/ editing'.from = "none"
      /\ editing'.key <= gen'
  BY <1>1, <1>2 DEF PlainInv, PageInv, NoId, Gens
<1>7. PlainInv'
  BY <1>1, <1>2, <1>3, <1>4, <1>6 DEF PlainInv
<1>8. 0 .. gen - 1 \subseteq 0 .. gen' - 1
  BY <1>1, <1>2
<1> QED BY <1>1, <1>2, <1>3, <1>4, <1>5, <1>6, <1>7, <1>8 DEF PageInv

\* No new generation.
LEMMA PageStays ==
    ASSUME IInv, Act, UNCHANGED <<requesting, streaming, genVars>>,
           NEW us, RenderQueue(us), editing' \in {editing, NoId},
           UNCHANGED <<page, snapshots, finished, stopped>>,
           overwritten' \in {overwritten, overwritten \cup {gen}}
    PROVE  PlainInv' /\ PageInv'
<1>1. /\ PlainInv /\ PageInv /\ gen \in Gens /\ gen \in Nat /\ 0 \in Gens
      /\ requesting \in BOOLEAN /\ streaming \in BOOLEAN
  BY FlagFacts, PlaygroundAssumption DEF IInv, Gens
<1>2. /\ queue' = <<>> /\ shown' = (requesting' \/ streaming')
      /\ saveTimer' \in {saveTimer, TRUE}
  BY RenderFrame
<1>3. page = "open" /\ UNCHANGED <<gen, pending, flushTimer, control>>
  BY DEF Act, genVars
<1>4. /\ editing' \in [from : {"user", "assistant", "none"}, key : Gens]
      /\ editing'.key <= gen'
      /\ shown => editing'.from = "none" \/ editing'.key < gen'
  BY <1>1, <1>3 DEF PlainInv, PageInv, NoId
<1>5. shown' => shown
  BY <1>1, <1>2 DEF PageInv
<1> QED BY <1>1, <1>2, <1>3, <1>4, <1>5 DEF PlainInv, PageInv

\* The generation ends: it is stopped, or the page is left.
LEMMA PageEnds ==
    ASSUME IInv, Act, gen' = gen + 1, CancelStream, discardPendingStreamUpdates(gen + 1),
           requesting' = FALSE, streaming' = FALSE, UNCHANGED <<calls, snapshots, overwritten>>,
           queue' = <<>>, shown' = FALSE, finished' \subseteq finished,
           stopped' \in {stopped, stopped \cup {gen}},
           \/ page' = page /\ saveTimer' \in {saveTimer, TRUE} /\ editing' = editing
           \/ page' = "away" /\ saveTimer' = FALSE /\ editing' = NoId /\ msgs' = <<>>
    PROVE  PlainInv' /\ PageInv' /\ gen' \in Gens
<1>1. /\ PlainInv /\ PageInv /\ gen \in Gens /\ gen \in Nat /\ <<>> \in Text
      /\ GenInv' /\ 0 \in Gens /\ page = "open"
  <2>1. GenInv' /\ page = "open"
    BY GiveUpStep DEF IInv, Act
  <2>2. 0 \in Gens
    BY PlaygroundAssumption DEF Gens
  <2> QED BY <2>1, <2>2, FlagFacts, FixedTexts DEF IInv
<1>2. gen' \in Gens
  BY <1>1, PlaygroundAssumption DEF GenInv, ControlInv, Gens
<1>3. /\ pending' = [gen |-> gen + 1, text |-> <<>>]
      /\ flushTimer' = NoGen /\ control' = [gen |-> control.gen + 1, source |-> NoGen]
  BY DEF discardPendingStreamUpdates, CancelStream
<1>4. /\ editing' \in [from : {"user", "assistant", "none"}, key : Gens]
      /\ editing'.key <= gen'
      /\ editing' = NoId => editing'.from = "none"
  <2>1. editing' \in {editing, NoId}
    OBVIOUS
  <2>2. /\ NoId \in [from : {"user", "assistant", "none"}, key : Gens]
        /\ NoId.key = 0 /\ NoId.from = "none"
    BY <1>1 DEF NoId
  <2>3. editing \in [from : {"user", "assistant", "none"}, key : Gens]
        /\ editing.key <= gen /\ editing.key \in Int
    BY <1>1, PlaygroundAssumption DEF PlainInv, PageInv, Gens
  <2> QED BY <1>1, <2>1, <2>2, <2>3
<1>5. PlainInv'
  BY <1>1, <1>2, <1>3, <1>4 DEF PlainInv
<1>6. stopped' \subseteq 0 .. gen' - 1
  BY <1>1 DEF PageInv
<1> QED BY <1>1, <1>2, <1>3, <1>4, <1>5, <1>6 DEF PageInv, PlainInv

\* What the user does.
LEMMA PageUser ==
    ASSUME IInv, User
    PROVE  PlainInv' /\ PageInv'
<1>1. CASE \E stream \in BOOLEAN : Send(stream)
  <2>1. PICK stream \in BOOLEAN : Send(stream)
    BY <1>1
  <2> QED BY <2>1, PageSends DEF Send, ToConversation, histVars
<1>2. CASE \E i \in DOMAIN msgs, stream \in BOOLEAN : Regenerate(i, stream)
  <2>1. PICK i \in DOMAIN msgs, stream \in BOOLEAN : Regenerate(i, stream)
    BY <1>2
  <2> QED BY <2>1, PageSends DEF Regenerate, ToConversation, histVars
<1>3. CASE \E i \in DOMAIN msgs, submit \in BOOLEAN, stream \in BOOLEAN :
              ApplyEdit(i, submit, stream)
  <2>1. PICK i \in DOMAIN msgs, submit \in BOOLEAN, stream \in BOOLEAN :
          ApplyEdit(i, submit, stream)
    BY <1>3
  <2>2. /\ Act /\ editing' \in {editing, NoId} /\ UNCHANGED <<finished, stopped>>
        /\ overwritten' \in {overwritten, overwritten \cup {gen}}
    BY <2>1 DEF ApplyEdit
  <2>3. CASE submit /\ msgs[i].from = "user"
    BY <2>1, <2>2, <2>3, PageSends DEF ApplyEdit, ToConversation
  <2>4. CASE ~(submit /\ msgs[i].from = "user")
    BY <2>1, <2>2, <2>4, PageStays DEF ApplyEdit, ToConversation
  <2> QED BY <2>3, <2>4
<1>4. CASE \E i \in DOMAIN msgs : Delete(i)
  <2>1. PICK i \in DOMAIN msgs : Delete(i)
    BY <1>4
  <2> QED BY <2>1, PageStays DEF Delete, ToConversation, histVars
<1>5. CASE \E i \in DOMAIN msgs : EditMessage(i)
  <2>1. PICK i \in DOMAIN msgs : EditMessage(i)
    BY <1>5
  <2>2. /\ ~shown /\ editing' = Id(msgs[i]) /\ page = "open"
        /\ UNCHANGED <<page, msgs, queue, shown, requesting, streaming, gen, pending,
                       flushTimer, control, saveTimer, snapshots, finished, stopped,
                       overwritten>>
    BY <2>1 DEF EditMessage, Act, chatVars, genVars, saveVars, histVars
  <2> QED BY <2>2, EditableIs DEF IInv, PlainInv, PageInv
<1>6. CASE Clear
  BY <1>6, PageStays DEF Clear, ToConversation, histVars
<1>7. CASE CancelEdit
  <2>1. /\ editing' = NoId /\ page = "open"
        /\ UNCHANGED <<page, msgs, queue, shown, requesting, streaming, gen, pending,
                       flushTimer, control, saveTimer, snapshots, finished, stopped,
                       overwritten>>
    BY <1>7 DEF CancelEdit, Act, chatVars, genVars, saveVars, histVars
  <2>2. 0 \in Gens /\ 0 <= gen
    BY FlagFacts, PlaygroundAssumption DEF Gens
  <2> QED BY <2>1, <2>2 DEF IInv, PlainInv, PageInv, NoId
<1>8. CASE StopGeneration
  <2>1. PICK q \in Queued(FlushedChunk(gen)) : RenderQueue(q \o <<Stopped(gen + 1)>>)
    BY <1>8 DEF StopGeneration, StopWith
  <2>2. /\ queue' = <<>> /\ shown' = (requesting' \/ streaming')
        /\ saveTimer' \in {saveTimer, TRUE}
    BY <2>1, RenderFrame
  <2> QED BY <1>8, <2>2, PageEnds DEF StopGeneration, StopWith
<1>9. CASE Leave
  <2>1. finished' \subseteq finished
    BY <1>9 DEF Leave
  <2> QED BY <1>9, <2>1, PageEnds DEF Leave, Unmounted
<1>10. CASE Unload
  <2>1. finished' \subseteq finished
    BY <1>10 DEF Unload
  <2> QED BY <1>10, <2>1, PageEnds DEF Unload, Unmounted
<1>11. CASE Open
  BY <1>11 DEF Open, IInv, PlainInv, PageInv, genVars, histVars
<1> QED BY <1>1, <1>2, <1>3, <1>4, <1>5, <1>6, <1>7, <1>8, <1>9, <1>10, <1>11 DEF User

\* Every step keeps what the page keeps.
LEMMA PageNext ==
    ASSUME IInv, [Next]_vars
    PROVE  PlainInv' /\ PageInv'
<1>1. CASE UNCHANGED vars
  BY <1>1 DEF vars, chatVars, genVars, saveVars, histVars, IInv, PlainInv, PageInv
<1> QED BY <1>1, PageTasks, PageNetwork, PageUser DEF Next

\* The part of the invariant that is about the conversations.
ChatInv == QueueInv /\ ConvsInv /\ ReplyInv /\ WholeInv

-----------------------------------------------------------------------------
(* Steps that leave the conversations alone.                               *)

\* A generation under way is not finished.
LEMMA NotFinished ==
    ASSUME IInv, requesting
    PROVE  gen \notin finished
BY DEF IInv, GenInv, FlagInv, WholeInv, Awaited, Live, Hanging, isCurrent

\* What is said of a call is about what was sent for it.
LEMMA SameSent ==
    ASSUME NEW c, NEW d, d.sent = c.sent, d.ends = c.ends,
           NEW m, NEW t, NEW wait, NEW snap \in BOOLEAN
    PROVE  /\ Parted(c) => Parted(d)
           /\ Waiting(c, wait, snap) => Waiting(d, wait, snap)
           /\ Arriving(m, c, wait, snap) => Arriving(m, d, wait, snap)
           /\ Exact(t, c, wait, snap) => Exact(t, d, wait, snap)
<1>1. Echoes(d) <=> Echoes(c)
  BY DEF Echoes
<1>2. Parted(c) => Parted(d)
  BY DEF Parted
<1>3. Waiting(c, wait, snap) => Waiting(d, wait, snap)
  BY DEF Waiting
<1>4. Arriving(m, c, wait, snap) => Arriving(m, d, wait, snap)
  BY DEF Arriving
<1>5. Exact(t, c, wait, snap) => Exact(t, d, wait, snap)
  BY <1>1 DEF Exact
<1> QED BY <1>2, <1>3, <1>4, <1>5

\* The calls have sent what they had.
LEMMA QuietReply ==
    ASSUME IInv, UNCHANGED <<page, msgs, queue, shown, requesting, gen, pending, latest,
                             saveTimer, stored, snapshots, finished, overwritten, shortened>>,
           \A k \in Gens : /\ calls'[k].sent = calls[k].sent
                           /\ calls'[k].ends = calls[k].ends
                           /\ calls[k].pc = "over" => calls'[k].pc = "over",
           calls'[gen].pc = "chat" => calls[gen].pc = "chat"
    PROVE  ChatInv'
<1>1. gen \in Gens /\ snapshots \in BOOLEAN
  BY FlagFacts
<1>2. \A k \in Gens : Told'[k] = Told[k] /\ Extends(Told[k], Told'[k])
  BY NothingTold
<1>3. QueueInv' /\ ConvsInv' /\ Coming' = Coming
  BY <1>2, SameConversations
<1>4. /\ ReplyInv /\ WholeInv /\ msgs \in Seq(Message) /\ Coming \in Seq(Message)
      /\ stored \in Seq(Message) /\ finished \subseteq Gens
  BY ConvFacts DEF IInv, PlainInv
<1>5. ReplyInv'
  <2>1. \A k \in Gens : Parted(calls'[k])
    BY <1>1, <1>4, SameSent DEF ReplyInv
  <2> DEFINE c == calls[gen]
             d == calls'[gen]
             w == pending.text
  <2>2. d.sent = c.sent /\ d.ends = c.ends
    BY <1>1
  <2>3. /\ Waiting(c, w, snapshots)
        /\ requesting => /\ Arriving(Last(msgs), c, w, snapshots)
                         /\ Arriving(Last(Coming), c, w, snapshots)
                         /\ gen \notin overwritten =>
                              Exact(Last(Coming).text, c, w, snapshots)
    BY <1>4 DEF ReplyInv
  <2>4. d = calls'[gen] /\ w = pending.text
    OBVIOUS
  <2> HIDE DEF c, d, w
  <2>5. Waiting(d, w, snapshots)
    BY <1>1, <2>2, <2>3, SameSent
  <2>6. ASSUME requesting
        PROVE  /\ Arriving(Last(msgs), d, w, snapshots)
               /\ Arriving(Last(Coming), d, w, snapshots)
               /\ gen \notin overwritten => Exact(Last(Coming).text, d, w, snapshots)
    BY <1>1, <2>2, <2>3, <2>6, SameSent
  <2>7. calls'[gen].pc = "chat" => calls'[gen].sent = <<>>
    BY <1>1, <1>4 DEF ReplyInv
  <2> QED BY <1>3, <1>4, <2>1, <2>4, <2>5, <2>6, <2>7 DEF ReplyInv
<1>6. ASSUME NEW ms \in Seq(Message), NEW G, G \subseteq Gens, Whole(ms, G, Told)
      PROVE  Whole(ms, G, Told')
  BY <1>2, <1>6, WholeGrows
<1>7. /\ finished \ overwritten \subseteq Gens
      /\ finished \ (overwritten \cup {gen}) \subseteq Gens
  BY <1>4
<1>8. \A g \in finished' : calls'[g].pc = "over"
  BY <1>4 DEF WholeInv
<1>9. WholeInv'
  BY <1>3, <1>4, <1>6, <1>7, <1>8 DEF WholeInv
<1> QED BY <1>3, <1>5, <1>9 DEF ChatInv

\* The save timer.
LEMMA SaveStep ==
    ASSUME IInv, SaveFires
    PROVE  ChatInv' /\ msgs' = msgs
<1>1. /\ page = "open" /\ saveTimer' = FALSE /\ stored' = trimMessages(latest)
      /\ UNCHANGED <<page, msgs, queue, shown, requesting, gen, pending, calls, latest,
                     snapshots, finished, overwritten, shortened>>
  BY DEF SaveFires, chatVars, genVars, histVars
<1>2. Coming' = Coming /\ Told' = Told
  BY <1>1 DEF Coming, Told
<1>3. QueueInv'
  BY <1>1 DEF IInv, QueueInv, EagerFirst
<1>4. ConversationOK(trimMessages(latest), gen, Told, overwritten)
  BY LastMessages DEF IInv, ConvsInv, OK
<1>5. ConvsInv'
  BY <1>1, <1>2, <1>4 DEF IInv, ConvsInv, OK
<1>6. ReplyInv' /\ WholeInv'
  BY <1>1, <1>2 DEF IInv, ReplyInv, WholeInv
<1> QED BY <1>1, <1>3, <1>5, <1>6 DEF ChatInv

\* One more chunk waits to be flushed.
LEMMA ChunkStep ==
    ASSUME IInv, NEW g \in Gens, StreamChunk(g)
    PROVE  ChatInv' /\ msgs' = msgs
<1>1. g = gen /\ requesting /\ shown /\ page = "open"
  BY LiveCall DEF StreamChunk
<1>2. /\ gen \in Gens /\ snapshots \in BOOLEAN /\ pending.text \in Text
      /\ \A k \in Gens : calls[k] \in Call /\ calls[k].sent \in Text /\ Parted(calls[k])
      /\ calls \in [Gens -> Call] /\ pending \in [gen : Gens, text : Text]
  BY FlagFacts, GenTypes DEF IInv, PlainInv, GenInv, ControlInv
<1>3. PICK t \in Text :
        /\ Len(calls[gen].sent) < Len(t) /\ Len(t) <= MaxPieces
        /\ IsPrefix(calls[gen].sent, t)
        /\ calls' = [calls EXCEPT ![gen] = Grown(@, t)]
        /\ handleStreamUpdate(gen, NextChunk(calls[gen].sent, t, snapshots))
  BY <1>1, StreamChunkIs
<1> DEFINE c == calls[gen]
           d == Grown(c, t)
           w == pending.text
           more == mergePendingStreamChunk(w, NextChunk(c.sent, t, snapshots))
<1>4. /\ pending'.text = more /\ calls[gen].pc = "stream"
      /\ UNCHANGED <<page, msgs, queue, shown, requesting, gen, latest, saveTimer, stored,
                     snapshots, finished, overwritten, shortened>>
  BY <1>1, <1>2, <1>3 DEF StreamChunk, handleStreamUpdate, chatVars, saveVars, histVars
<1>5. d.pc = c.pc /\ d.sent = t /\ d.ends = c.ends \cup {Len(t)}
  BY <1>2, <1>3, GrownIs
<1>6. /\ calls'[gen] = d /\ \A k \in Gens : k # gen => calls'[k] = calls[k]
      /\ calls[gen] = c
  BY <1>2, <1>3
<1>7. Parted(c) /\ w \in Text /\ IsPrefix(c.sent, d.sent) /\ Len(c.sent) < Len(d.sent)
      /\ d.ends = c.ends \cup {Len(d.sent)} /\ Len(d.sent) <= MaxPieces
      /\ more = mergePendingStreamChunk(w, NextChunk(c.sent, d.sent, snapshots))
      /\ d.sent \in Text
  BY <1>2, <1>3, <1>5
<1>8. ReplyInv /\ WholeInv /\ finished \subseteq Gens
  BY DEF IInv, PlainInv
<1>9. Last(msgs) \in Message /\ Last(Coming) \in Message
  BY <1>1, ConvFacts
<1>10. /\ Waiting(c, w, snapshots)
       /\ Arriving(Last(msgs), c, w, snapshots)
       /\ Arriving(Last(Coming), c, w, snapshots)
       /\ gen \notin overwritten => Exact(Last(Coming).text, c, w, snapshots)
  BY <1>1, <1>8 DEF ReplyInv
<1>11. calls'[gen].pc = "stream"
  BY <1>4, <1>5, <1>6
<1> HIDE DEF c, d, w, more
<1>12. Parted(d)
  <2> DEFINE n == Len(c.sent)
             p == Len(d.sent)
  <2>1. n \in Nat /\ p \in Nat /\ n < p /\ d.ends = c.ends \cup {p}
        /\ 0 \in c.ends /\ c.ends \subseteq 0 .. n /\ p <= MaxPieces
    BY <1>7, TextIs DEF Parted
  <2> HIDE DEF n, p
  <2>2. 0 \in d.ends /\ p \in d.ends /\ d.ends \subseteq 0 .. p
    BY <2>1
  <2> QED BY <1>7, <2>1, <2>2 DEF Parted, p
<1>13. \A k \in Gens : Parted(calls'[k])
  BY <1>2, <1>6, <1>12
<1>14. \A k \in Gens : Extends(Told[k], Told'[k])
  <2> TAKE k \in Gens
  <2>1. calls'[k].sent \in Text
    BY <1>13 DEF Parted
  <2>2. IsPrefix(calls[k].sent, calls'[k].sent) /\ calls[k].ends \subseteq calls'[k].ends
    BY <1>2, <1>6, <1>7, PrefixOfItself
  <2> QED BY <1>4, <2>1, <2>2, ToldGrows
<1>15. QueueInv' /\ ConvsInv' /\ Coming' = Coming
  BY <1>4, <1>14, SameConversations
<1>16. ASSUME NEW m \in Message, Arriving(m, c, w, snapshots)
       PROVE  /\ Arriving(m, d, more, snapshots)
              /\ Waiting(d, more, snapshots)
              /\ Exact(m.text, c, w, snapshots) => Exact(m.text, d, more, snapshots)
  BY <1>2, <1>7, <1>10, <1>12, <1>16, ChunkWaits
<1>17. ReplyInv'
  <2>1. /\ Arriving(Last(msgs), d, more, snapshots)
        /\ Arriving(Last(Coming), d, more, snapshots)
        /\ Waiting(d, more, snapshots)
        /\ gen \notin overwritten => Exact(Last(Coming).text, d, more, snapshots)
    BY <1>9, <1>10, <1>16
  <2>2. shown' => /\ msgs' # <<>>
                  /\ Last(msgs').from = "assistant" /\ Last(msgs').key = gen'
    BY <1>4, <1>8 DEF ReplyInv
  <2>3. requesting' /\ calls'[gen'].pc # "chat"
    BY <1>1, <1>4, <1>11
  <2> QED BY <1>4, <1>6, <1>13, <1>15, <2>1, <2>2, <2>3 DEF ReplyInv
<1>18. WholeInv'
  <2>1. gen \notin finished
    BY <1>1, NotFinished
  <2>2. \A k \in finished : calls'[k] = calls[k] /\ Told'[k] = Told[k]
    BY <1>4, <1>6, <1>8, <2>1, SameTold
  <2>3. \A k \in finished' : calls'[k].pc = "over"
    BY <1>4, <1>8, <2>2 DEF WholeInv
  <2>4. ASSUME NEW ms \in Seq(Message), NEW G, G \subseteq finished, Whole(ms, G, Told)
        PROVE  Whole(ms, G, Told')
    BY <2>2, <2>4, WholeGrows
  <2>5. /\ Whole(Coming, finished \ overwritten, Told')
        /\ Whole(msgs, finished \ (overwritten \cup {gen}), Told')
    <3>1. /\ finished \ overwritten \subseteq finished
          /\ finished \ (overwritten \cup {gen}) \subseteq finished
      OBVIOUS
    <3> QED BY <1>8, <2>4, <3>1, ConvFacts DEF WholeInv
  <2> QED BY <1>1, <1>4, <1>15, <2>3, <2>5 DEF WholeInv
<1> QED BY <1>4, <1>15, <1>17, <1>18 DEF ChatInv

-----------------------------------------------------------------------------
(* Steps that queue updates.                                               *)

\* The reply once what waits is flushed.
Flushed(m) ==
    IF pending.text = <<>> THEN m ELSE applyStreamingChunk(m, pending.text)

\* The last reply with the flushed chunks is what was sent so far.
LEMMA FlushedMessage ==
    ASSUME IInv, requesting
    PROVE  LET f == Flushed(Last(Coming))
           IN  /\ f \in Message /\ Id(f) = Id(Last(Coming))
               /\ Arriving(f, calls[gen], <<>>, snapshots)
               /\ gen \notin overwritten => Exact(f.text, calls[gen], <<>>, snapshots)
               /\ Copied(f.text, Told[gen], gen, overwritten)
               /\ MessageOK(f, gen, Told, overwritten)
<1> DEFINE m == Last(Coming)
           c == calls[gen]
           w == pending.text
           f == Flushed(m)
<1>1. /\ gen \in Gens /\ w \in Text /\ snapshots \in BOOLEAN /\ Parted(c)
      /\ shown /\ gen \in Int
  BY FlagFacts DEF IInv, PageInv
<1>2. m \in Message /\ m.from = "assistant" /\ m.key = gen
  BY <1>1, ConvFacts
<1>3. /\ Waiting(c, w, snapshots) /\ Arriving(m, c, w, snapshots)
      /\ gen \notin overwritten => Exact(m.text, c, w, snapshots)
  BY DEF IInv, ReplyInv
<1>4. f = IF w = <<>> THEN m ELSE applyStreamingChunk(m, w)
  BY DEF Flushed
<1>5. c = calls[gen]
  OBVIOUS
<1> HIDE DEF m, c, w, f
<1>6. /\ f \in Message /\ Id(f) = Id(m)
      /\ Arriving(f, c, <<>>, snapshots)
      /\ gen \notin overwritten => Exact(f.text, c, <<>>, snapshots)
  <2>1. CASE w = <<>>
    BY <1>2, <1>3, <1>4, <2>1
  <2>2. CASE w # <<>>
    BY <1>1, <1>2, <1>3, <1>4, <2>2, ChunkMessage
  <2> QED BY <2>1, <2>2
<1>7. Copied(f.text, Told[gen], gen, overwritten) /\ Len(f.text) <= MaxPieces
  BY <1>1, <1>5, <1>6, ExactIsCopied
<1>8. MessageOK(f, gen, Told, overwritten)
  <2>1. f.from = "assistant" /\ f.key = gen
    BY <1>2, <1>6 DEF Id
  <2> QED BY <1>1, <1>7, <2>1 DEF MessageOK
<1> QED BY <1>6, <1>7, <1>8 DEF f, m, c

\* The updates of the last message are updaters.
LEMMA UpdatersAre ==
    ASSUME NEW g \in Gens, NEW t \in Text
    PROVE  /\ Chunk(g, t) \in Updater /\ Chunk(g, t).op = "chunk" /\ Chunk(g, t).gen = g
           /\ Complete(g) \in Updater /\ Complete(g).op = "complete" /\ Complete(g).gen = g
           /\ Failed(g) \in Updater /\ Failed(g).op = "fail" /\ Failed(g).gen = g
           /\ Answered(g, t) \in Updater /\ Answered(g, t).op = "answer"
           /\ Answered(g, t).gen = g
<1>1. <<>> \in Seq(Message) /\ <<>> \in Text /\ ErrorText \in Text
  BY FixedTexts
<1> QED BY <1>1 DEF Chunk, Complete, Failed, Answered, Update, Updater

\* t is a text the reply to generation g may have.
Written(t, g, cs, cut) ==
    t = ErrorText \/ Copied(t, cs[g], g, cut)

\* A message as the last updates leave it.
LEMMA FinalMessage ==
    ASSUME NEW m \in Message, m.from = "assistant", m.key <= gen, NEW cs, NEW cut,
           NEW t \in Text, Len(t) <= MaxPieces, Written(t, m.key, cs, cut),
           NEW x \in {"complete", "error"}
    PROVE  /\ As(m, x, t) \in Message /\ Id(As(m, x, t)) = Id(m)
           /\ MessageOK(As(m, x, t), gen, cs, cut)
           /\ As(m, x, t).status = x /\ As(m, x, t).text = t
           /\ As(m, x, t).key = m.key
<1> DEFINE n == As(m, x, t)
<1>1. x \in Statuses
  BY DEF Statuses
<1>2. /\ n \in Message /\ Id(n) = Id(m) /\ n.status = x /\ n.text = t
      /\ n.key = m.key /\ n.from = m.from
  BY <1>1, AsIs
<1> HIDE DEF n
<1>3. MessageOK(n, gen, cs, cut)
  BY <1>2 DEF MessageOK, Written
<1> QED BY <1>2, <1>3 DEF n

\* The flush of what waits is an update of the last message.
LEMMA ChunkMayUpdate ==
    ASSUME IInv, requesting, pending.text # <<>>, NEW cs,
           cs[gen] = Told[gen]
    PROVE  /\ MayUpdate(Chunk(gen, pending.text), Last(Coming), cs)
           /\ UpdateMessage(Chunk(gen, pending.text), Last(Coming)) = Flushed(Last(Coming))
<1> DEFINE m == Last(Coming)
           f == Flushed(m)
           u == Chunk(gen, pending.text)
<1>1. gen \in Gens /\ pending.text \in Text /\ shown
  BY FlagFacts DEF IInv, PageInv
<1>2. m \in Message /\ m.from = "assistant" /\ m.key = gen
  BY <1>1, ConvFacts
<1>3. f \in Message /\ Id(f) = Id(m) /\ MessageOK(f, gen, Told, overwritten)
  BY FlushedMessage
<1>4. u \in Updater /\ u.op = "chunk" /\ u.gen = gen
  BY <1>1, UpdatersAre
<1>5. UpdateMessage(u, m) = f
  BY <1>2, UpdateIs DEF Flushed
<1> HIDE DEF m, f, u
<1>6. f.key = gen
  BY <1>2, <1>3 DEF Id
<1>7. MessageOK(f, gen, cs, overwritten)
  BY <1>3, <1>6 DEF MessageOK
<1> QED BY <1>3, <1>4, <1>5, <1>7 DEF MayUpdate, LastUpdates, m, f, u

\* The calls of the other generations are left alone.
OneCall ==
    /\ Parted(calls'[gen])
    /\ \A k \in Gens : k # gen => calls'[k] = calls[k] /\ Told'[k] = Told[k]

\* The generation is over, m being its reply.
LEMMA ReplyEnds ==
    ASSUME IInv, requesting, Arrival, OneCall, NEW m, Arrived(m),
           m.status \in {"complete", "error"},
           ~requesting', pending'.text = <<>>, snapshots' = snapshots,
           calls'[gen].pc = "over",
           \/ finished' = finished
           \/ /\ finished' = finished \cup {gen}
              /\ gen \notin overwritten => WholeMessage(m, Told')
    PROVE  ChatInv' /\ msgs' = msgs
<1>1. /\ QueueInv' /\ ConvsInv' /\ msgs' = msgs /\ shown' = shown
      /\ Coming' # <<>> /\ Last(Coming') = m /\ SameButLast(Coming', Coming)
  BY DEF Arrived
<1>2. /\ gen' = gen /\ page' = page /\ stored' = stored /\ overwritten' = overwritten
      /\ shown /\ page = "open" /\ finished \subseteq Gens
  BY DEF Arrival, IInv, PageInv, PlainInv
<1>3. /\ Coming' \in Seq(Message) /\ Coming \in Seq(Message) /\ msgs \in Seq(Message)
      /\ Coming # <<>> /\ UniqueKeys(Coming)
      /\ Last(Coming).from = "assistant" /\ Last(Coming).key = gen
      /\ Last(msgs).from = "assistant" /\ Last(msgs).key = gen /\ msgs # <<>>
  BY <1>1, <1>2, ConvFacts DEF ConvsInv, OK, ConversationOK
<1>4. ReplyInv'
  <2>1. Waiting(calls[gen], pending.text, snapshots)'
    BY DEF Waiting
  <2>2. Settled(Coming', overwritten')
    <3>1. SettledButLast(Coming', overwritten')
      BY <1>1 DEF ConvsInv, OK, ConversationOK
    <3>2. Last(Coming') = Coming'[Len(Coming')]
      BY <1>1, <1>3, ConversationIs
    <3>3. ~isAssistantMessagePending(m)
      BY DEF isAssistantMessagePending
    <3> QED BY <1>1, <3>1, <3>2, <3>3, SettledWithLast
  <2>3. \A k \in Gens : Parted(calls'[k])
    <3>1. \A k \in Gens : Parted(calls[k])
      BY FlagFacts
    <3> QED BY <3>1 DEF OneCall
  <2> QED BY <1>1, <1>2, <1>3, <2>1, <2>2, <2>3 DEF ReplyInv
<1>5. gen \notin finished /\ WholeInv
  BY NotFinished DEF IInv
<1>6. \A k \in finished : calls'[k] = calls[k] /\ Told'[k] = Told[k]
  BY <1>2, <1>5 DEF OneCall
<1>7. \A k \in finished' : calls'[k].pc = "over"
  BY <1>5, <1>6 DEF WholeInv
<1>8. Whole(Coming', finished' \ overwritten', Told')
  <2> DEFINE G == finished \ overwritten
             H == finished' \ overwritten'
  <2>1. H \ {gen} \subseteq G /\ (gen \in H => WholeMessage(m, Told'))
    BY <1>2, <1>5
  <2>2. \A k \in H : k # gen => Told[k] = Told'[k]
    BY <1>2, <1>6
  <2>3. Whole(Coming, G, Told)
    BY <1>5 DEF WholeInv
  <2> HIDE DEF G, H
  <2>4. Whole(Coming', H, Told')
    BY <1>1, <1>3, <2>1, <2>2, <2>3, WholeButLast
  <2> QED BY <2>4 DEF H
<1>9. Whole(msgs', finished' \ (overwritten' \cup {gen'}), Told')
  <2> DEFINE G == finished \ (overwritten \cup {gen})
  <2>1. finished' \ (overwritten' \cup {gen'}) = G
    BY <1>2
  <2>2. Whole(msgs, G, Told) /\ \A k \in G : Told[k] = Told'[k]
    BY <1>5, <1>6 DEF WholeInv
  <2> HIDE DEF G
  <2>3. Whole(msgs, G, Told')
    BY <1>3, <2>2, WholeGrows
  <2> QED BY <1>1, <2>1, <2>3
<1>10. WholeInv'
  BY <1>2, <1>7, <1>8, <1>9 DEF WholeInv
<1> QED BY <1>1, <1>4, <1>10 DEF ChatInv

\* What waits is flushed, and v follows.
LEMMA FlushThen ==
    ASSUME IInv, requesting, Arrival, Told'[gen] = Told[gen],
           NEW v, MayUpdate(v, Flushed(Last(Coming)), Told'),
           \/ Enqueue(FlushedChunk(gen) \o <<v>>)
           \/ EnqueueLater(FlushedChunk(gen) \o <<v>>)
    PROVE  Arrived(UpdateMessage(v, Flushed(Last(Coming))))
<1>1. shown /\ QueueInv
  BY DEF IInv, PageInv
<1>2. v \in Updater /\ v.op # "eager"
  BY DEF MayUpdate, LastUpdates
<1>3. CASE pending.text = <<>>
  <2>1. FlushedChunk(gen) \o <<v>> = <<v>>
    <3>1. FlushedChunk(gen) = <<>>
      BY <1>3, FlushedIs
    <3>2. <<>> \o <<v>> = <<v>>
      OBVIOUS
    <3> QED BY <3>1, <3>2
  <2>2. QueuedPlain(<<v>>) \/ QueuedEager(v, <<>>)
    <3>1. CASE Enqueue(<<v>>)
      BY <1>1, <1>2, <3>1, EnqueueOne
    <3>2. CASE EnqueueLater(<<v>>)
      BY <3>2 DEF EnqueueLater, QueuedPlain
    <3> QED BY <2>1, <3>1, <3>2, Zenon
  <2>3. Flushed(Last(Coming)) = Last(Coming)
    BY <1>3 DEF Flushed
  <2> QED BY <1>1, <2>2, <2>3, ArriveOne
<1>4. CASE pending.text # <<>>
  <2> DEFINE u == Chunk(gen, pending.text)
  <2>1. /\ MayUpdate(u, Last(Coming), Told')
        /\ UpdateMessage(u, Last(Coming)) = Flushed(Last(Coming))
    BY <1>4, ChunkMayUpdate
  <2>2. FlushedChunk(gen) = <<u>>
    BY <1>4, FlushedIs
  <2> HIDE DEF u
  <2>3. u \in Updater /\ u.op # "eager"
    BY <2>1 DEF MayUpdate, LastUpdates
  <2>4. QueuedPlain(<<u>> \o <<v>>) \/ QueuedEager(u, <<v>>)
    <3>1. CASE Enqueue(<<u>> \o <<v>>)
      BY <1>1, <1>2, <2>3, <3>1, EnqueueTwo
    <3>2. CASE EnqueueLater(<<u>> \o <<v>>)
      BY <3>2 DEF EnqueueLater, QueuedPlain
    <3> QED BY <2>2, <3>1, <3>2, Zenon
  <2> QED BY <1>1, <2>1, <2>4, ArriveTwo
<1> QED BY <1>3, <1>4

\* A call is answered with t and over, the others are as they were.
LEMMA CallAnswered ==
    ASSUME IInv, NEW t \in Text, Len(t) <= MaxPieces, calls[gen].sent = <<>>,
           calls' = [calls EXCEPT ![gen] = [Grown(@, t) EXCEPT !.pc = "over"]],
           UNCHANGED <<gen, page, stored, overwritten, snapshots, shortened>>
    PROVE  Arrival /\ OneCall /\ Told'[gen].sent = t /\ calls'[gen].pc = "over"
<1> DEFINE c == calls[gen]
           d == calls'[gen]
<1>1. /\ gen \in Gens /\ calls \in [Gens -> Call] /\ c \in Call
      /\ \A k \in Gens : calls[k].sent \in Text /\ Parted(calls[k])
  BY FlagFacts DEF IInv, GenInv, ControlInv
<1>2. /\ d = [Grown(c, t) EXCEPT !.pc = "over"]
      /\ \A k \in Gens : k # gen => calls'[k] = calls[k]
  BY <1>1
<1>3. d.sent = t /\ d.pc = "over" /\ d.ends = c.ends \cup {Len(t)}
  <2> DEFINE h == Grown(c, t)
  <2>1. h \in Call /\ h.sent = t /\ h.ends = c.ends \cup {Len(t)}
    BY <1>1, GrownIs
  <2>2. d = [h EXCEPT !.pc = "over"]
    BY <1>2
  <2> HIDE DEF h, d
  <2> QED BY <2>1, <2>2 DEF Call
<1>4. Parted(d)
  <2>1. Len(t) \in Nat /\ c.sent = <<>> /\ Len(<<>>) = 0 /\ Parted(c)
    BY <1>1, TextIs
  <2>2. 0 \in c.ends /\ c.ends \subseteq 0 .. 0
    BY <2>1 DEF Parted
  <2>3. 0 \in d.ends /\ Len(t) \in d.ends /\ d.ends \subseteq 0 .. Len(t)
    BY <1>3, <2>1, <2>2
  <2> QED BY <1>3, <2>3 DEF Parted
<1>5. \A k \in Gens : k # gen => Told'[k] = Told[k]
  BY <1>2, SameTold
<1>6. \A k \in Gens : Extends(Told[k], Told'[k])
  <2> TAKE k \in Gens
  <2>1. CASE k # gen
    BY <1>1, <1>5, <2>1, ToldIs, ExtendsItself
  <2>2. CASE k = gen
    <3>1. IsPrefix(<<>>, t)
      BY FixedTexts, PrefixIs, TextIs
    <3> QED BY <1>3, <2>2, <3>1, ToldGrows
  <2> QED BY <2>1, <2>2
<1>7. Told'[gen].sent = t
  BY <1>1, <1>3, ToldIsNext
<1> QED BY <1>2, <1>3, <1>4, <1>5, <1>6, <1>7 DEF Arrival, OneCall

\* Nothing but its pc changes.
LEMMA CallOver ==
    ASSUME IInv, calls' = [calls EXCEPT ![gen].pc = "over"],
           UNCHANGED <<gen, page, stored, overwritten, snapshots, shortened>>
    PROVE  Arrival /\ OneCall /\ Told'[gen] = Told[gen] /\ calls'[gen].pc = "over"
<1>1. /\ gen \in Gens /\ calls \in [Gens -> Call] /\ snapshots \in BOOLEAN
      /\ Parted(calls[gen])
  BY FlagFacts DEF IInv, GenInv, ControlInv
<1>2. /\ calls'[gen].pc = "over" /\ \A k \in Gens : k # gen => calls'[k] = calls[k]
      /\ calls'[gen].sent = calls[gen].sent /\ calls'[gen].ends = calls[gen].ends
  BY <1>1 DEF Call
<1>3. \A k \in Gens : Told'[k] = Told[k] /\ Extends(Told[k], Told'[k])
  BY <1>2, NothingTold
<1>4. Parted(calls'[gen])
  BY <1>1, <1>2 DEF Parted
<1> QED BY <1>1, <1>2, <1>3, <1>4 DEF Arrival, OneCall

\* The request fails.
LEMMA FailStep ==
    ASSUME IInv, NEW g \in Gens, HeadersFail(g) \/ StreamFails(g) \/ ChatFails(g)
    PROVE  ChatInv' /\ msgs' = msgs
<1>1. g = gen /\ requesting /\ shown
  BY LiveCall DEF HeadersFail, StreamFails, ChatFails, handleStreamError
<1>2. /\ calls' = [calls EXCEPT ![gen].pc = "over"] /\ handleStreamError(gen)
      /\ UNCHANGED <<page, gen, stored, snapshots, finished, overwritten, shortened>>
  BY <1>1 DEF HeadersFail, StreamFails, ChatFails, histVars
<1>3. Arrival /\ OneCall /\ Told'[gen] = Told[gen] /\ calls'[gen].pc = "over"
  BY <1>2, CallOver
<1>4. /\ pending' = [gen |-> gen, text |-> <<>>] /\ requesting' = FALSE
      /\ Enqueue(FlushedChunk(gen) \o <<Failed(gen)>>)
  BY <1>2 DEF handleStreamError, FlushStreamUpdates, discardPendingStreamUpdates
<1> DEFINE f == Flushed(Last(Coming))
           v == Failed(gen)
           m == As(f, "error", ErrorText)
<1>5. f \in Message /\ f.from = "assistant" /\ f.key = gen /\ gen \in Gens
      /\ f.key <= gen
  BY <1>1, FlushedMessage, ConvFacts, FlagFacts DEF Id
<1>6. UpdateMessage(v, f) = m
  BY <1>5, UpdateIs
<1>7. /\ ErrorText \in Text /\ Len(ErrorText) <= MaxPieces
      /\ "error" \in {"complete", "error"}
      /\ Written(ErrorText, f.key, Told', overwritten)
  BY FixedTexts, PlaygroundAssumption DEF Written
<1>8. v \in Updater /\ v.op = "fail" /\ v.gen = gen
  BY <1>5, <1>7, UpdatersAre
<1> HIDE DEF f
<1>9. m \in Message /\ Id(m) = Id(f) /\ MessageOK(m, gen, Told', overwritten)
      /\ m.status = "error"
  BY <1>5, <1>7, FinalMessage
<1> HIDE DEF m, v
<1>10. MayUpdate(v, f, Told')
  BY <1>6, <1>8, <1>9 DEF MayUpdate, LastUpdates
<1>11. Arrived(m)
  BY <1>1, <1>3, <1>4, <1>6, <1>10, FlushThen DEF f, v
<1> QED BY <1>1, <1>2, <1>3, <1>4, <1>9, <1>11, ReplyEnds

\* The stream is done.
LEMMA DoneStep ==
    ASSUME IInv, NEW g \in Gens, StreamDone(g)
    PROVE  ChatInv' /\ msgs' = msgs
<1>1. g = gen /\ requesting /\ shown
  BY LiveCall DEF StreamDone
<1>2. /\ calls' = [calls EXCEPT ![gen].pc = "over"] /\ handleStreamComplete(gen)
      /\ UNCHANGED <<page, gen, stored, snapshots, overwritten, shortened>>
      /\ finished' = finished \cup {gen}
  BY <1>1 DEF StreamDone
<1>3. Arrival /\ OneCall /\ Told'[gen] = Told[gen] /\ calls'[gen].pc = "over"
  BY <1>2, CallOver
<1>4. /\ pending' = [gen |-> gen, text |-> <<>>] /\ requesting' = FALSE
      /\ EnqueueLater(FlushedChunk(gen) \o <<Complete(gen)>>)
  BY <1>2 DEF handleStreamComplete, FlushStreamUpdates, discardPendingStreamUpdates
<1> DEFINE f == Flushed(Last(Coming))
           v == Complete(gen)
           m == As(f, "complete", f.text)
<1>5. /\ f \in Message /\ f.from = "assistant" /\ f.key = gen /\ gen \in Gens
      /\ f.key <= gen /\ f.text \in Text
      /\ MessageOK(f, gen, Told, overwritten) /\ isAssistantMessagePending(f)
      /\ Copied(f.text, Told[gen], gen, overwritten)
      /\ gen \notin overwritten => Exact(f.text, calls[gen], <<>>, snapshots)
  BY <1>1, FlushedMessage, ConvFacts, FlagFacts, MessageIs DEF Id, Arriving
<1>6. UpdateMessage(v, f) = m
  BY <1>5, UpdateIs
<1>7. v \in Updater /\ v.op = "complete" /\ v.gen = gen
  BY <1>5, UpdatersAre
<1> HIDE DEF f
<1>8. Len(f.text) <= MaxPieces
  BY <1>5 DEF MessageOK
<1>9. Written(f.text, f.key, Told', overwritten)
  BY <1>3, <1>5 DEF Written
<1>10. m \in Message /\ Id(m) = Id(f) /\ MessageOK(m, gen, Told', overwritten)
       /\ m.status = "complete" /\ m.text = f.text /\ m.key = gen
  <2> DEFINE t == f.text
  <2>1. /\ "complete" \in {"complete", "error"} /\ t \in Text /\ Len(t) <= MaxPieces
        /\ Written(t, f.key, Told', overwritten)
    BY <1>5, <1>8, <1>9
  <2> HIDE DEF t
  <2>2. /\ As(f, "complete", t) \in Message /\ Id(As(f, "complete", t)) = Id(f)
        /\ MessageOK(As(f, "complete", t), gen, Told', overwritten)
        /\ As(f, "complete", t).status = "complete" /\ As(f, "complete", t).text = t
        /\ As(f, "complete", t).key = f.key
    <3>1. f \in Message /\ f.from = "assistant" /\ f.key <= gen
      BY <1>5
    <3> QED BY <2>1, <3>1, FinalMessage
  <2> QED BY <1>5, <2>2 DEF t
<1> HIDE DEF m, v
<1>11. MayUpdate(v, f, Told')
  BY <1>6, <1>7, <1>10 DEF MayUpdate, LastUpdates
<1>12. Arrived(m)
  BY <1>1, <1>3, <1>4, <1>6, <1>11, FlushThen DEF f, v
<1>13. gen \notin overwritten => WholeMessage(m, Told')
  <2>1. gen \notin overwritten => WholeMessage(m, Told)
    BY <1>5, <1>10, ExactIsShown
  <2> QED BY <1>3, <1>10, <2>1 DEF WholeMessage
<1> QED BY <1>1, <1>2, <1>3, <1>4, <1>10, <1>12, <1>13, ReplyEnds

\* A text is copied from itself.
LEMMA CopiedItself ==
    ASSUME NEW t \in Text, NEW c, c.sent = t, NEW k, NEW cut
    PROVE  Copied(t, c, k, cut)
<1>1. Len(t) \in Nat /\ IsPrefix(t, t)
  BY TextIs, PrefixOfItself
<1>2. Within(t, t, 0, Len(t))
  BY <1>1, PrefixIsPart
<1>3. Within(Unmarked(t), t, 0, Len(t))
  BY <1>1, <1>2, WithinUnmarked
<1> QED BY <1>1, <1>3 DEF Copied

\* The http call answers.
LEMMA AnswerStep ==
    ASSUME IInv, NEW g \in Gens, ChatAnswers(g)
    PROVE  ChatInv' /\ msgs' = msgs
<1>1. g = gen /\ requesting /\ shown
  BY LiveCall DEF ChatAnswers
<1>2. PICK r \in Replies :
        /\ calls' = [calls EXCEPT ![g] = [Grown(@, Answer(g, r)) EXCEPT !.pc = "over"]]
        /\ Enqueue(<<Answered(g, Answer(g, r))>>)
  BY DEF ChatAnswers
<1>3. /\ UNCHANGED <<page, gen, stored, snapshots, overwritten, shortened, pending>>
      /\ finished' = finished \cup {gen} /\ requesting' = FALSE
      /\ calls[gen].pc = "chat"
  BY <1>1 DEF ChatAnswers
<1> DEFINE f == Last(Coming)
           t == Answer(gen, r)
           v == Answered(gen, t)
           m == As(f, "complete", t)
<1>4. calls[gen].sent = <<>> /\ QueueInv /\ t \in Text /\ Len(t) <= MaxPieces
  BY <1>1, <1>3, AnswerIs DEF IInv, ReplyInv
<1>5. /\ Arrival /\ OneCall /\ Told'[gen].sent = t /\ calls'[gen].pc = "over"
      /\ pending'.text = <<>>
  <2>1. Arrival /\ OneCall /\ Told'[gen].sent = t /\ calls'[gen].pc = "over"
    BY <1>1, <1>2, <1>3, <1>4, CallAnswered
  <2>2. ~streaming
    BY <1>3 DEF IInv, GenInv, FlagInv, isCurrent
  <2> QED BY <1>3, <2>1, <2>2 DEF IInv, PageInv
<1>6. /\ f \in Message /\ f.from = "assistant" /\ f.key = gen /\ gen \in Gens
      /\ f.key <= gen
  BY <1>1, ConvFacts, FlagFacts
<1>7. "complete" \in {"complete", "error"} /\ Written(t, f.key, Told', overwritten)
  BY <1>4, <1>5, <1>6, CopiedItself DEF Written
<1> HIDE DEF t
<1>8. v \in Updater /\ v.op = "answer" /\ v.gen = gen
  BY <1>4, <1>6, UpdatersAre
<1>9. UpdateMessage(v, f) = m
  BY <1>6, UpdateIs
<1> HIDE DEF f
<1>10. m \in Message /\ Id(m) = Id(f) /\ MessageOK(m, gen, Told', overwritten)
       /\ m.status = "complete" /\ m.text = t /\ m.key = gen
  BY <1>4, <1>6, <1>7, FinalMessage
<1> HIDE DEF m
<1>11. Enqueue(<<v>>)
  BY <1>1, <1>2 DEF v, t
<1> HIDE DEF v
<1>12. MayUpdate(v, f, Told')
  BY <1>8, <1>9, <1>10 DEF MayUpdate, LastUpdates
<1>13. Arrived(m)
  <2>1. QueuedPlain(<<v>>) \/ QueuedEager(v, <<>>)
    BY <1>4, <1>8, <1>11, EnqueueOne
  <2> QED BY <1>1, <1>5, <1>9, <1>12, <2>1, ArriveOne DEF f
<1>14. WholeMessage(m, Told')
  <2>1. EndIsKept(t, t)
    BY DEF EndIsKept
  <2> QED BY <1>5, <1>10, <2>1 DEF WholeMessage
<1> QED BY <1>1, <1>3, <1>5, <1>10, <1>13, <1>14, ReplyEnds

\* What waited is flushed: nothing waits for a reply that has not got it yet.
LEMMA ArrivingFlushed ==
    ASSUME NEW m, NEW c, Parted(c), NEW wait, NEW snap \in BOOLEAN,
           Arriving(m, c, wait, snap)
    PROVE  Arriving(m, c, <<>>, snap)
<1>1. CASE snap
  BY <1>1 DEF Arriving
<1>2. CASE ~snap
  <2>1. PICK k \in 0 .. Len(c.sent) : Within(m.text, c.sent, 0, k)
    BY <1>2 DEF Arriving
  <2>2. Len(c.sent) \in Nat /\ k \in Int /\ k <= Len(c.sent)
    BY TextIs DEF Parted
  <2>3. Within(<<>>, c.sent, k, Len(c.sent))
    BY <2>2, WithinEmpty
  <2> QED BY <1>2, <2>1, <2>3 DEF Arriving
<1> QED BY <1>1, <1>2

\* The flush timer.
LEMMA FlushStep ==
    ASSUME IInv, FlushFires
    PROVE  ChatInv' /\ msgs' = msgs
<1>1. /\ pending' = [gen |-> gen, text |-> <<>>] /\ Enqueue(FlushedChunk(gen))
      /\ UNCHANGED <<page, requesting, gen, calls, stored, snapshots, finished, overwritten,
                     shortened>>
  BY DEF FlushFires, FlushStreamUpdates, discardPendingStreamUpdates, histVars
<1>2. /\ QueueInv /\ ReplyInv /\ WholeInv /\ gen \in Gens /\ pending.text \in Text
      /\ pending.gen = gen /\ pending \in [gen : Gens, text : Text]
      /\ snapshots \in BOOLEAN /\ Parted(calls[gen])
      /\ \A k \in Gens : Told'[k] = Told[k] /\ Extends(Told[k], Told'[k])
  BY <1>1, FlagFacts, NothingTold DEF IInv, PlainInv, PageInv
<1>3. CASE pending.text = <<>>
  <2>1. pending' = pending
    BY <1>1, <1>2, <1>3
  <2>2. UNCHANGED <<queue, msgs, shown, latest, saveTimer>>
    <3>1. FlushedChunk(gen) = <<>>
      BY <1>3, FlushedIs
    <3> QED BY <1>1, <1>2, <3>1, EnqueueNone
  <2> QED BY <1>1, <2>1, <2>2, QuietReply
<1>4. CASE pending.text # <<>>
  <2> DEFINE u == Chunk(gen, pending.text)
             f == Flushed(Last(Coming))
             c == calls[gen]
  <2>1. requesting /\ shown /\ page = "open"
    BY <1>4, FlagFacts DEF IInv, PageInv, PlainInv
  <2>2. FlushedChunk(gen) = <<u>>
    BY <1>4, FlushedIs
  <2>3. MayUpdate(u, Last(Coming), Told') /\ UpdateMessage(u, Last(Coming)) = f
    BY <1>2, <1>4, <2>1, ChunkMayUpdate
  <2> HIDE DEF u
  <2>4. u \in Updater /\ u.op # "eager"
    BY <2>3 DEF MayUpdate, LastUpdates
  <2>5. QueuedPlain(<<u>>) \/ QueuedEager(u, <<>>)
    BY <1>1, <1>2, <2>2, <2>4, EnqueueOne
  <2>6. Arrival
    BY <1>1, <1>2 DEF Arrival
  <2>7. Arrived(f)
    BY <2>1, <2>3, <2>5, <2>6, ArriveOne
  <2>8. /\ Arriving(f, c, <<>>, snapshots)
        /\ gen \notin overwritten => Exact(f.text, c, <<>>, snapshots)
    BY <2>1, FlushedMessage
  <2> HIDE DEF f
  <2>9. /\ QueueInv' /\ ConvsInv' /\ msgs' = msgs /\ shown' = shown
        /\ Coming' # <<>> /\ Last(Coming') = f /\ SameButLast(Coming', Coming)
    BY <2>7 DEF Arrived
  <2>10. ReplyInv'
    <3>1. calls'[gen'] = c /\ pending'.text = <<>> /\ \A k \in Gens : Parted(calls'[k])
      BY <1>1, FlagFacts
    <3>2. Arriving(Last(msgs), c, <<>>, snapshots)
      BY <1>2, <2>1, ArrivingFlushed DEF ReplyInv
    <3>3. Waiting(c, <<>>, snapshots)
      BY DEF Waiting
    <3>4. c = calls[gen]
      OBVIOUS
    <3> HIDE DEF c
    <3> QED BY <1>1, <1>2, <2>1, <2>8, <2>9, <3>1, <3>2, <3>3, <3>4 DEF ReplyInv
  <2>11. WholeInv'
    <3>1. /\ Coming' \in Seq(Message) /\ Coming \in Seq(Message)
          /\ Coming # <<>> /\ UniqueKeys(Coming)
          /\ Last(Coming).from = "assistant" /\ Last(Coming).key = gen
      BY <2>1, <2>9, ConvFacts DEF ConvsInv, OK, ConversationOK
    <3>2. gen \notin finished
      BY <2>1, NotFinished
    <3> DEFINE G == finished \ overwritten
    <3>3. Whole(Coming, G, Told) /\ gen \notin G /\ G \ {gen} \subseteq G
      BY <1>2, <3>2 DEF WholeInv
    <3> HIDE DEF G
    <3>4. Whole(Coming', G, Told)
      BY <2>9, <3>1, <3>3, WholeButLast
    <3>5. Told' = Told
      BY <1>1 DEF Told
    <3> QED BY <1>1, <1>2, <2>1, <2>9, <3>4, <3>5 DEF WholeInv, G
  <2> QED BY <2>9, <2>10, <2>11 DEF ChatInv
<1> QED BY <1>3, <1>4

\* The other events of the stream.
LEMMA HeadersOrCloses ==
    ASSUME IInv, NEW g \in Gens, HeadersReady(g) \/ StreamCloses(g)
    PROVE  ChatInv' /\ msgs' = msgs
<1>1. g = gen /\ gen \in Gens /\ calls \in [Gens -> Call]
  BY LiveCall, FlagFacts DEF HeadersReady, StreamCloses, IInv, GenInv, ControlInv
<1>2. UNCHANGED <<page, msgs, queue, shown, requesting, gen, pending, latest,
                  saveTimer, stored, snapshots, finished, overwritten, shortened>>
  BY DEF HeadersReady, StreamCloses, chatVars, saveVars, histVars
<1>3. PICK x \in {"stream", "closed"} : calls' = [calls EXCEPT ![gen].pc = x]
  BY <1>1 DEF HeadersReady, StreamCloses
<1>4. calls[gen].pc # "over"
  BY <1>1 DEF HeadersReady, StreamCloses
<1>5. /\ \A k \in Gens : /\ calls'[k].sent = calls[k].sent
                         /\ calls'[k].ends = calls[k].ends
                         /\ calls[k].pc = "over" => calls'[k].pc = "over"
      /\ calls'[gen].pc # "chat"
  BY <1>1, <1>3, <1>4 DEF Call
<1> QED BY <1>2, <1>5, QuietReply

\* The tasks and the network keep the conversations right, and shown as they
\* are but for a render.
LEMMA ChatNetwork ==
    ASSUME IInv, FlushFires \/ SaveFires \/ Network
    PROVE  ChatInv' /\ msgs' = msgs
<1>1. CASE Network
  <2>1. PICK g \in Gens :
          \/ HeadersReady(g) \/ HeadersFail(g)
          \/ StreamChunk(g) \/ StreamDone(g) \/ StreamFails(g) \/ StreamCloses(g)
          \/ ChatAnswers(g) \/ ChatFails(g)
    BY <1>1 DEF Network
  <2> QED BY <2>1, HeadersOrCloses, FailStep, ChunkStep, DoneStep, AnswerStep
<1> QED BY <1>1, FlushStep, SaveStep

-----------------------------------------------------------------------------
(* Steps that end with a render.                                           *)

\* What is the same but for the last reply keeps the earlier ones.
LEMMA KeptButLast ==
    ASSUME NEW ms \in Seq(Message), NEW ns \in Seq(Message), SameButLast(ns, ms),
           NEW g \in Int, ms # <<>> => Last(ms).key = g
    PROVE  Kept(ms, ns, g)
<1> SUFFICES ASSUME NEW j \in 1 .. Len(ns), ns[j].from = "assistant", ns[j].key < g
             PROVE  j \in 1 .. Len(ms) /\ ns[j] = ms[j]
  BY DEF Kept
<1>1. j \in 1 .. Len(ms) /\ Len(ms) \in Nat
  BY ConversationIs DEF SameButLast
<1>2. CASE j = Len(ns)
  <2>1. ms # <<>> /\ Last(ms) = ms[j]
    BY <1>1, <1>2, ConversationIs DEF SameButLast
  <2>2. ns[j].key = g
    BY <1>1, <2>1 DEF SameButLast, Id
  <2> QED BY <2>2
<1>3. CASE j # Len(ns)
  BY <1>1, <1>3 DEF SameButLast
<1> QED BY <1>2, <1>3

\* Finished generations are not ahead of the page.
LEMMA FinishedIsPast ==
    ASSUME IInv, NEW k \in finished
    PROVE  k \in Gens /\ k <= gen /\ calls[k].pc = "over"
<1>1. k \in Gens /\ calls[k].pc = "over" /\ ControlInv
  BY DEF IInv, PlainInv, WholeInv, GenInv
<1>2. ~(k > gen)
  BY <1>1 DEF ControlInv
<1>3. k \in Int /\ gen \in Int
  BY <1>1, FlagFacts, PlaygroundAssumption DEF Gens
<1> QED BY <1>1, <1>2, <1>3

\* What a step of the user leaves alone.
UserStep ==
    /\ gen' \in Int /\ gen <= gen' /\ overwritten \subseteq overwritten'
    /\ snapshots' = snapshots /\ shortened' = shortened
    /\ \A k \in Gens : k <= gen => calls'[k] = calls[k]

\* Nothing is sent for the generations so far.
LEMMA UserTold ==
    ASSUME IInv, UserStep, NEW k \in Gens, k <= gen
    PROVE  Told'[k] = Told[k] /\ Extends(Told[k], Told'[k])
<1>1. calls'[k] = calls[k] /\ snapshots' = snapshots /\ shortened' = shortened
  BY DEF UserStep
<1>2. Told'[k] = Told[k]
  BY <1>1, SameTold
<1>3. Told[k].sent \in Text
  BY FlagFacts, ToldIs
<1> QED BY <1>2, <1>3, ExtendsItself

\* A conversation of the page stays one.
LEMMA UserKeeps ==
    ASSUME IInv, UserStep, NEW ms, OK(ms)
    PROVE  ConversationOK(ms, gen', Told', overwritten')
<1>1. gen \in Int /\ \A k \in Gens : k <= gen => Extends(Told[k], Told'[k])
  BY FlagFacts, UserTold
<1> QED BY <1>1, ConversationGrows DEF OK, UserStep

\* Replies that are whole stay so: nothing is sent for them any more.
LEMMA UserKeepsWhole ==
    ASSUME IInv, UserStep, NEW ms \in Seq(Message), NEW G, G \subseteq finished,
           Whole(ms, G, Told)
    PROVE  Whole(ms, G, Told')
<1>1. \A k \in G : Told'[k] = Told[k]
  BY FinishedIsPast, UserTold
<1> QED BY <1>1, WholeGrows

\* The conversations after the render.
LEMMA RenderedChat ==
    ASSUME IInv, UserStep, queue' = <<>>, latest' = msgs', UNCHANGED <<page, stored>>,
           page = "open", saveTimer' = TRUE, OK(msgs)',
           Coming' = msgs' => ReplyInv', finished' \subseteq finished,
           Whole(msgs', finished' \ overwritten', Told')
    PROVE  ChatInv'
<1>1. OK(stored)'
  BY UserKeeps DEF IInv, ConvsInv, OK
<1>2. QueueInv' /\ ConvsInv' /\ Coming' = msgs'
  BY <1>1, RenderedStep
<1>3. \A k \in finished' : calls'[k].pc = "over"
  BY FinishedIsPast DEF UserStep
<1>4. Whole(msgs', finished' \ (overwritten' \cup {gen'}), Told')
  BY DEF Whole
<1>5. WholeInv'
  BY <1>2, <1>3, <1>4 DEF WholeInv
<1> QED BY <1>2, <1>5 DEF ChatInv

\* An updater that replaces or removes is rendered with the queue.
LEMMA ToConversationIs ==
    ASSUME IInv, NEW u, u.op # "eager", ToConversation(u)
    PROVE  /\ msgs' = applyMessageStateUpdate(u, Applied(queue, msgs, gen'), gen')
           /\ queue' = <<>> /\ latest' = msgs' /\ saveTimer' = TRUE
           /\ shown' = (requesting' \/ streaming')
           /\ page' = page /\ stored' = stored /\ snapshots' = snapshots
<1> DEFINE us == queue \o <<u>>
<1>1. queue \in Seq(Updater) /\ Len(queue) \in Nat
  BY LenProperties DEF IInv, QueueInv
<1>2. Applied(us, msgs, gen') = applyMessageStateUpdate(u, Applied(queue, msgs, gen'), gen')
  BY <1>1, AppliedMore, ZenonT(60)
<1>3. \E i \in DOMAIN us : us[i].op # "eager"
  <2> DEFINE S == Updater \cup {u}
  <2>1. queue \in Seq(S) /\ <<u>> \in Seq(S)
    BY <1>1, SeqMonotonic
  <2> HIDE DEF S
  <2>2. us \in Seq(S) /\ Len(us) = Len(queue) + 1 /\ us[Len(queue) + 1] = u
    BY <1>1, <2>1, ConcatProperties
  <2>3. Len(queue) + 1 \in DOMAIN us
    BY <1>1, <2>2
  <2> QED BY <2>2, <2>3
<1>4. RenderQueue(us) /\ UNCHANGED <<page, stored, snapshots>>
  BY DEF ToConversation
<1> HIDE DEF us
<1> QED BY <1>2, <1>3, <1>4 DEF RenderQueue, persistMessages

\* The conversation becomes ms.
LEMMA ReplaceIs ==
    ASSUME NEW ms, NEW ns, NEW c
    PROVE  /\ Replace(ms).op = "replace"
           /\ applyMessageStateUpdate(Replace(ms), ns, c) = ms
BY DEF Replace, Update, applyMessageStateUpdate

\* A step that replaces the conversation shows it and persists it.
LEMMA Replaced ==
    ASSUME IInv, NEW ms, ToConversation(Replace(ms))
    PROVE  /\ msgs' = ms /\ queue' = <<>> /\ latest' = msgs' /\ saveTimer' = TRUE
           /\ shown' = (requesting' \/ streaming')
           /\ UNCHANGED <<page, stored, snapshots>>
<1>1. /\ Replace(ms).op # "eager"
      /\ applyMessageStateUpdate(Replace(ms), Applied(queue, msgs, gen'), gen') = ms
  BY ReplaceIs
<1>2. /\ msgs' = applyMessageStateUpdate(Replace(ms), Applied(queue, msgs, gen'), gen')
      /\ queue' = <<>> /\ latest' = msgs' /\ saveTimer' = TRUE
      /\ shown' = (requesting' \/ streaming')
      /\ page' = page /\ stored' = stored /\ snapshots' = snapshots
  BY <1>1, ToConversationIs
<1> QED BY <1>1, <1>2

\* Nothing is queued but what React has run, and latest is what comes.
LEMMA EagerOnly ==
    ASSUME IInv, ~\E i \in DOMAIN queue : queue[i].op # "eager"
    PROVE  Coming = latest
<1>1. QueueInv /\ queue \in Seq(Updater) /\ Len(queue) \in Nat
      /\ DOMAIN queue = 1 .. Len(queue)
  BY LenProperties DEF IInv, QueueInv
<1>2. CASE queue = <<>>
  BY <1>2, FlagFacts
<1>3. CASE queue # <<>>
  <2>1. 1 \in 1 .. Len(queue) /\ queue[1].op = "eager"
    BY <1>1, <1>3
  <2>2. latest = queue[1].ms
    BY <1>1, <1>3, <2>1 DEF QueueInv, EagerFirst
  <2>3. \A i \in 1 .. Len(queue) : i = 1
    BY <1>1 DEF QueueInv
  <2>4. applyMessageStateUpdate(queue[1], msgs, gen) = latest
    BY <2>1, <2>2 DEF applyMessageStateUpdate
  <2> DEFINE k == 1
  <2>5. /\ k \in 0 .. 1 /\ k <= Len(queue)
        /\ latest = IF k = 0 THEN msgs ELSE applyMessageStateUpdate(queue[1], msgs, gen)
        /\ \A i \in 1 .. Len(queue) :
              i > k => applyMessageStateUpdate(queue[i], latest, gen) = latest
    BY <1>1, <2>1, <2>3, <2>4
  <2> HIDE DEF k
  <2>6. Applied(queue, msgs, gen) = latest
    BY <1>1, <2>5, AppliedIdle
  <2> QED BY <2>6 DEF Coming
<1> QED BY <1>2, <1>3

\* React renders the queue.
LEMMA RenderStep ==
    ASSUME IInv, Render
    PROVE  ChatInv' /\ Kept(msgs, msgs', gen)
<1>1. /\ page = "open" /\ RenderQueue(queue)
      /\ UNCHANGED <<page, requesting, streaming, gen, pending, calls, stored,
                     snapshots, finished, overwritten, shortened>>
      /\ Told' = Told
  BY DEF Render, genVars, histVars, Told
<1>2. msgs' = Coming /\ queue' = <<>> /\ shown' = (requesting \/ streaming)
  BY <1>1 DEF RenderQueue, Coming
<1>3. /\ QueueInv /\ ConvsInv /\ ReplyInv /\ WholeInv /\ gen \in Int
      /\ (streaming => requesting) /\ (requesting => shown)
      /\ requesting \in BOOLEAN /\ streaming \in BOOLEAN
  BY FlagFacts DEF IInv, PageInv
<1>4. /\ latest' = msgs'
      /\ page' = "open" /\ ~saveTimer' => stored' \in {latest', trimMessages(latest')}
  <2>1. CASE \E i \in DOMAIN queue : queue[i].op # "eager"
    BY <1>1, <2>1 DEF RenderQueue, persistMessages
  <2>2. CASE ~\E i \in DOMAIN queue : queue[i].op # "eager"
    <3>1. latest' = latest /\ saveTimer' = saveTimer
      BY <1>1, <2>2 DEF RenderQueue
    <3> QED BY <1>1, <1>2, <1>3, <2>2, <3>1, EagerOnly DEF QueueInv
  <2> QED BY <2>1, <2>2
<1>5. OK(msgs)' /\ OK(stored)'
  BY <1>1, <1>2, <1>3 DEF ConvsInv, OK
<1>6. QueueInv' /\ ConvsInv' /\ Coming' = msgs'
  BY <1>2, <1>4, <1>5, RenderedStep
<1>7. ReplyInv'
  <2>1. shown' => /\ msgs' # <<>>
                  /\ Last(msgs').from = "assistant" /\ Last(msgs').key = gen'
    BY <1>1, <1>2, <1>3, ConvFacts
  <2> QED BY <1>1, <1>2, <1>3, <1>6, <2>1 DEF ReplyInv
<1>8. WholeInv'
  <2>1. Whole(Coming, finished \ (overwritten \cup {gen}), Told)
    BY <1>3 DEF WholeInv, Whole
  <2> QED BY <1>1, <1>2, <1>3, <1>6, <2>1 DEF WholeInv
<1>9. Kept(msgs, msgs', gen)
  <2>1. CASE queue = <<>>
    <3>1. msgs' = msgs
      BY <1>2, <2>1, ComingIsShown
    <3> QED BY <3>1 DEF Kept
  <2>2. CASE queue # <<>>
    <3>1. shown
      BY <2>2 DEF IInv, PageInv
    <3> QED BY <1>2, <1>3, <3>1, ConvFacts, KeptButLast DEF ConvsInv
  <2> QED BY <2>1, <2>2
<1> QED BY <1>6, <1>7, <1>8, <1>9 DEF ChatInv

-----------------------------------------------------------------------------
(* Send, regenerate and edit.                                              *)

\* A reply nothing was sent for yet.
LEMMA NewReplyIs ==
    ASSUME NEW g \in Gens, NEW snap \in BOOLEAN, NEW c, c.sent = <<>>, c.ends = {0}
    PROVE  LET m == createLoadingAssistantMessage(g)
           IN  /\ m \in Message /\ m.from = "assistant" /\ m.key = g /\ m.text = <<>>
               /\ Arriving(m, c, <<>>, snap) /\ Exact(m.text, c, <<>>, snap)
               /\ Waiting(c, <<>>, snap) /\ Parted(c)
               /\ \A cs, cut : cs[g].sent \in Text => MessageOK(m, g, cs, cut)
<1> DEFINE m == createLoadingAssistantMessage(g)
<1>1. /\ m \in Message /\ m.from = "assistant" /\ m.key = g /\ m.text = <<>>
      /\ isAssistantMessagePending(m)
  BY NewMessages DEF createLoadingAssistantMessage, isAssistantMessagePending
<1> HIDE DEF m
<1>2. /\ <<>> \in Text /\ Len(<<>>) = 0 /\ MaxPieces \in Nat /\ 0 \in 0 .. 0
      /\ IsPrefix(<<>>, <<>>)
  BY FixedTexts, TextIs, PrefixOfItself, PlaygroundAssumption
<1>3. Parted(c)
  BY <1>2 DEF Parted
<1>4. Within(<<>>, <<>>, 0, 0)
  BY WithinEmpty
<1>5. Arriving(m, c, <<>>, snap)
  BY <1>1, <1>2, <1>4 DEF Arriving
<1>6. Part(<<>>, 0, 0) = <<>>
  BY <1>2, PartEmpty
<1>7. EndArrives(<<>>, <<>>, c.sent)
  BY DEF EndArrives
<1>8. Exact(<<>>, c, <<>>, snap)
  BY <1>2, <1>6, <1>7 DEF Exact
<1>9. Waiting(c, <<>>, snap)
  BY DEF Waiting
<1>10. ASSUME NEW cs, NEW cut, cs[g].sent \in Text PROVE MessageOK(m, g, cs, cut)
  <2> DEFINE s == cs[g].sent
  <2>1. s \in Text /\ Len(s) \in Nat /\ g <= g /\ Len(<<>>) <= MaxPieces
    BY <1>2, <1>10, TextIs, PlaygroundAssumption DEF Gens
  <2> HIDE DEF s
  <2>2. Within(<<>>, s, 0, Len(s))
    BY <2>1, WithinEmpty
  <2>3. Within(Unmarked(<<>>), s, 0, Len(s)) /\ IsPrefix(<<>>, s)
    BY <1>2, <2>1, <2>2, WithinUnmarked, PrefixIs
  <2>4. Copied(<<>>, cs[g], g, cut)
    BY <2>3 DEF Copied, s
  <2> QED BY <1>1, <2>1, <2>4 DEF MessageOK
<1> QED BY <1>1, <1>3, <1>5, <1>8, <1>9, <1>10 DEF m

\* What SendChat does to the generation and its call.
LEMMA SendChatIs ==
    ASSUME IInv, NEW stream \in BOOLEAN, Act, SendChat(stream),
           overwritten \subseteq overwritten', snapshots' = snapshots,
           shortened' = shortened
    PROVE  /\ UserStep /\ gen' = gen + 1 /\ gen' \in Gens /\ gen \in Nat
           /\ calls'[gen'].sent = <<>> /\ calls'[gen'].ends = {0}
           /\ \A k \in Gens : k # gen' => calls'[k] = calls[k]
           /\ requesting' = TRUE /\ streaming' = FALSE /\ pending'.text = <<>>
<1>1. /\ gen \in Gens /\ gen \in Nat /\ calls \in [Gens -> Call] /\ GenInv'
  BY FlagFacts, SendStep DEF IInv, GenInv, ControlInv
<1>2. /\ gen' = gen + 1 /\ pending' = [gen |-> gen + 1, text |-> <<>>]
      /\ streaming' = FALSE /\ requesting' = TRUE
      /\ calls' = [calls EXCEPT ![gen + 1] =
                     [pc |-> IF stream THEN "headers" ELSE "chat",
                      control |-> control.gen + 1, sent |-> <<>>, ends |-> {0}]]
  BY DEF SendChat, discardPendingStreamUpdates
<1>3. gen' \in Gens
  BY <1>1, PlaygroundAssumption DEF GenInv, ControlInv, Gens
<1>4. /\ calls'[gen'].sent = <<>> /\ calls'[gen'].ends = {0}
      /\ \A k \in Gens : k # gen' => calls'[k] = calls[k]
      /\ \A k \in Gens : k <= gen => calls'[k] = calls[k]
  <2>1. \A k \in Gens : k <= gen => k # gen + 1
    BY <1>1
  <2> QED BY <1>1, <1>2, <1>3, <2>1
<1> QED BY <1>1, <1>2, <1>3, <1>4 DEF UserStep

\* A conversation ms, and a new reply.
LEMMA NewReply ==
    ASSUME IInv, NEW stream \in BOOLEAN, Act, SendChat(stream),
           NEW ms, msgs' = ms \o <<createLoadingAssistantMessage(gen + 1)>>,
           overwritten \subseteq overwritten', finished' = finished,
           ConversationOK(ms, gen', Told', overwritten'), Settled(ms, overwritten'),
           \A i \in 1 .. Len(ms) : ms[i].from = "user" \/ ms[i].key <= gen,
           Whole(ms, finished \ overwritten', Told'), Kept(msgs, ms, gen),
           queue' = <<>>, latest' = msgs', saveTimer' = TRUE,
           UNCHANGED <<page, stored, snapshots>>, shortened' = shortened
    PROVE  ChatInv' /\ Kept(msgs, msgs', gen)
<1> DEFINE g == gen + 1
           m == createLoadingAssistantMessage(g)
<1>1. /\ UserStep /\ gen' = g /\ g \in Gens /\ gen \in Nat
      /\ calls'[g].sent = <<>> /\ calls'[g].ends = {0}
      /\ \A k \in Gens : k # g => calls'[k] = calls[k]
      /\ requesting' = TRUE /\ pending'.text = <<>> /\ snapshots \in BOOLEAN /\ page = "open"
  BY SendChatIs DEF IInv, PlainInv, Act
<1>2. g \in Int /\ ~(g <= gen) /\ ~(g < gen)
  BY <1>1
<1>3. msgs' = ms \o <<m>>
  OBVIOUS
<1> HIDE DEF g
<1> DEFINE c == calls'[g]
<1>4. /\ m \in Message /\ m.from = "assistant" /\ m.key = g /\ m.text = <<>>
      /\ Arriving(m, c, <<>>, snapshots) /\ Exact(m.text, c, <<>>, snapshots)
      /\ Waiting(c, <<>>, snapshots) /\ Parted(c)
      /\ MessageOK(m, g, Told', overwritten')
  <2>1. g \in Gens /\ snapshots \in BOOLEAN /\ c.sent = <<>> /\ c.ends = {0}
    BY <1>1
  <2>2. Told'[g].sent \in Text
    BY <1>1, ToldIsNext, FixedTexts
  <2> HIDE DEF c
  <2> QED BY ONLY <2>1, <2>2, NewReplyIs
<1> HIDE DEF m
<1>5. \A i \in 1 .. Len(ms) : Id(ms[i]) # Id(m)
  BY <1>2, <1>4 DEF Id
<1>6. ConversationOK(ms, g, Told', overwritten')
  BY <1>1
<1>7. /\ ConversationOK(ms \o <<m>>, g, Told', overwritten')
      /\ ms \o <<m>> # <<>> /\ Last(ms \o <<m>>) = m
      /\ \A G : Whole(ms, G, Told') /\ m.key \notin G => Whole(ms \o <<m>>, G, Told')
      /\ \A h : ~(m.from = "assistant" /\ m.key < h) => Kept(ms, ms \o <<m>>, h)
  BY <1>4, <1>5, <1>6, AppendMessage
<1>8. g \notin finished
  BY <1>2, FinishedIsPast
<1>9. Whole(msgs', finished' \ overwritten', Told')
  BY <1>3, <1>4, <1>7, <1>8
<1>10. Kept(ms, msgs', gen)
  BY <1>2, <1>3, <1>4, <1>7
<1>11. Kept(msgs, msgs', gen)
  BY <1>10, KeptTwice
<1>12. OK(msgs)'
  BY <1>1, <1>3, <1>7 DEF OK
<1>13. ASSUME Coming' = msgs' PROVE ReplyInv'
  <2>1. Last(msgs') = m /\ Last(Coming') = m /\ msgs' # <<>>
    BY <1>3, <1>7, <1>13
  <2>2. \A k \in Gens : Parted(calls'[k])
    BY <1>1, <1>4, FlagFacts
  <2> QED BY <1>1, <1>4, <2>1, <2>2 DEF ReplyInv
<1>14. finished' \subseteq finished
  OBVIOUS
<1>15. ChatInv'
  BY <1>1, <1>9, <1>12, <1>13, <1>14, RenderedChat
<1> QED BY <1>11, <1>15

\* The page is at rest: nothing is queued, and nothing pending.
LEMMA AtRest ==
    ASSUME IInv, ~shown
    PROVE  /\ queue = <<>> /\ Coming = msgs /\ OK(msgs) /\ msgs \in Seq(Message)
           /\ Settled(msgs, overwritten) /\ ~requesting /\ ~streaming
           /\ Whole(msgs, finished \ overwritten, Told)
           /\ \A i \in 1 .. Len(msgs) : msgs[i].key <= gen
<1>1. queue = <<>> /\ Coming = msgs /\ ~requesting /\ ~streaming
  BY FlagFacts
<1>2. OK(msgs) /\ msgs \in Seq(Message)
  BY ConvFacts DEF IInv, ConvsInv
<1>3. \A i \in 1 .. Len(msgs) : msgs[i].key <= gen
  BY <1>2 DEF OK, ConversationOK, MessageOK
<1> QED BY <1>1, <1>2, <1>3 DEF IInv, ReplyInv, WholeInv

\* handleSendMessage.
LEMMA SendMessage ==
    ASSUME IInv, NEW stream \in BOOLEAN, Send(stream)
    PROVE  ChatInv' /\ Kept(msgs, msgs', gen)
<1> DEFINE g == gen + 1
           u == createUserMessage(g)
           m == createLoadingAssistantMessage(g)
           ns == msgs \o <<u>>
<1>1. /\ Act /\ SendChat(stream) /\ (~shown \/ msgs = <<>>)
      /\ ToConversation(Replace(msgs \o <<u, m>>))
      /\ UNCHANGED <<finished, overwritten, shortened>>
  BY DEF Send, histVars
<1>2. ~shown
  BY <1>1, ConvFacts
<1>3. /\ OK(msgs) /\ msgs \in Seq(Message) /\ Settled(msgs, overwritten)
      /\ Whole(msgs, finished \ overwritten, Told)
      /\ \A i \in 1 .. Len(msgs) : msgs[i].key <= gen
  BY <1>2, AtRest
<1>4. /\ msgs' = msgs \o <<u, m>> /\ queue' = <<>> /\ latest' = msgs' /\ saveTimer' = TRUE
      /\ UNCHANGED <<page, stored, snapshots>>
  <2> DEFINE ms == msgs \o <<u, m>>
  <2>1. ToConversation(Replace(ms))
    BY <1>1
  <2> HIDE DEF ms
  <2>2. /\ msgs' = ms /\ queue' = <<>> /\ latest' = msgs' /\ saveTimer' = TRUE
        /\ UNCHANGED <<page, stored, snapshots>>
    BY <2>1, Replaced
  <2> QED BY <2>2 DEF ms
<1>5. /\ UserStep /\ gen' = g /\ g \in Gens /\ gen \in Nat
  BY <1>1, <1>4, SendChatIs
<1>6. g \in Int /\ ~(g <= gen)
  BY <1>5
<1>7. u \in Message /\ m \in Message
  BY <1>5, NewMessages
<1>8. msgs' = ns \o <<m>>
  <2>1. <<u>> \o <<m>> = <<u, m>>
    BY <1>7, TwoInOne
  <2>2. <<u>> \in Seq(Message) /\ <<m>> \in Seq(Message)
    BY <1>7
  <2>3. msgs \o (<<u>> \o <<m>>) = (msgs \o <<u>>) \o <<m>>
    BY <1>3, <2>2, ConcatAssociative
  <2> QED BY <1>4, <2>1, <2>3
<1>9. /\ u.from = "user" /\ u.key = g /\ ~isAssistantMessagePending(u)
      /\ MessageOK(u, g, Told', overwritten)
  <2>1. u.from = "user" /\ u.key = g /\ u.status = "none" /\ u.text = EditedText
    BY DEF createUserMessage
  <2> HIDE DEF u
  <2>2. Len(EditedText) <= MaxPieces /\ g <= g
    BY <1>6, FixedTexts, PlaygroundAssumption
  <2> QED BY <2>1, <2>2 DEF MessageOK, isAssistantMessagePending
<1> HIDE DEF u
<1>10. ConversationOK(msgs, g, Told', overwritten)
  BY <1>1, <1>3, <1>5, UserKeeps
<1>11. \A i \in 1 .. Len(msgs) : Id(msgs[i]) # Id(u)
  BY <1>3, <1>6, <1>9 DEF Id
<1>12. g \notin finished
  BY <1>6, FinishedIsPast
<1>13. Whole(msgs, finished \ overwritten, Told')
  <2>1. finished \ overwritten \subseteq finished
    OBVIOUS
  <2> QED BY <1>3, <1>5, <2>1, UserKeepsWhole
<1> DEFINE G == finished \ overwritten
<1>14. u.key \notin G /\ Whole(msgs, G, Told')
  BY <1>9, <1>12, <1>13
<1> HIDE DEF G
<1>15. /\ ConversationOK(ns, g, Told', overwritten) /\ Settled(ns, overwritten)
       /\ Len(ns) = Len(msgs) + 1
       /\ \A i \in 1 .. Len(msgs) : ns[i] = msgs[i]
       /\ ns[Len(msgs) + 1] = u
       /\ Whole(ns, G, Told') /\ Kept(msgs, ns, gen)
  BY <1>3, <1>7, <1>9, <1>10, <1>11, <1>14, AppendMessage
<1> HIDE DEF ns
<1>16. \A i \in 1 .. Len(ns) : ns[i].from = "user" \/ ns[i].key <= gen
  <2>1. Len(msgs) \in Nat
    BY <1>3, ConversationIs
  <2>2. \A i \in 1 .. Len(ns) : i \in 1 .. Len(msgs) \/ i = Len(msgs) + 1
    BY <1>15, <2>1
  <2> QED BY <1>3, <1>9, <1>15, <2>2
<1>17. /\ ConversationOK(ns, gen', Told', overwritten') /\ Settled(ns, overwritten')
       /\ Whole(ns, finished \ overwritten', Told')
  BY <1>1, <1>5, <1>15 DEF G
<1>18. msgs' = ns \o <<createLoadingAssistantMessage(gen + 1)>>
  BY <1>8
<1> QED BY <1>1, <1>4, <1>15, <1>16, <1>17, <1>18, NewReply

\* The first messages of a conversation, when no pending one is among them.
LEMMA Truncated ==
    ASSUME NEW ms, NEW g, NEW cs, NEW cut, ConversationOK(ms, g, cs, cut),
           NEW n \in 0 .. Len(ms),
           \A i \in 1 .. n : isAssistantMessagePending(ms[i]) => ms[i].key \in cut
    PROVE  LET ns == SubSeq(ms, 1, n)
           IN  /\ ns \in Seq(Message)
               /\ ConversationOK(ns, g, cs, cut) /\ Settled(ns, cut)
               /\ \A G : Whole(ms, G, cs) => Whole(ns, G, cs)
               /\ \A h : Kept(ms, ns, h)
               /\ \A i \in 1 .. Len(ns) : ns[i].key <= g
<1> DEFINE ns == SubSeq(ms, 1, n)
<1>1. ms \in Seq(Message)
  BY DEF ConversationOK
<1>2. /\ ns \in Seq(Message) /\ Len(ns) = n /\ \A i \in 1 .. n : ns[i] = ms[i]
      /\ \E f : PartOf(ns, ms, f)
  BY <1>1, FirstMessages
<1> HIDE DEF ns
<1>3. Settled(ns, cut) /\ SettledButLast(ns, cut)
  BY <1>2 DEF Settled, SettledButLast
<1>4. PICK f : PartOf(ns, ms, f)
  BY <1>2
<1>5. /\ ConversationOK(ns, g, cs, cut)
      /\ \A G : Whole(ms, G, cs) => Whole(ns, G, cs)
      /\ \A h : Kept(ms, ns, h)
  BY <1>2, <1>3, <1>4, PartConversation
<1>6. \A i \in 1 .. Len(ns) : ns[i].key <= g
  BY <1>5 DEF ConversationOK, MessageOK
<1> QED BY <1>2, <1>3, <1>5, <1>6 DEF ns

\* A new reply after the first messages of ms.
LEMMA RepliedAfterFirst ==
    ASSUME IInv, NEW stream \in BOOLEAN, Act, SendChat(stream), NEW ms, OK(ms),
           NEW n \in 0 .. Len(ms),
           \A i \in 1 .. n :
              isAssistantMessagePending(ms[i]) => ms[i].key \in overwritten,
           overwritten \subseteq overwritten', finished' = finished,
           Whole(ms, finished \ overwritten', Told), Kept(msgs, ms, gen),
           shortened' = shortened, ToConversation(Replace(RepliedAfter(ms, n)))
    PROVE  ChatInv' /\ Kept(msgs, msgs', gen)
<1> DEFINE ns == SubSeq(ms, 1, n)
           rs == ns \o <<createLoadingAssistantMessage(gen + 1)>>
<1>1. ToConversation(Replace(rs))
  BY DEF RepliedAfter
<1>2. ConversationOK(ms, gen, Told, overwritten)
  BY DEF OK
<1>3. /\ ns \in Seq(Message)
      /\ ConversationOK(ns, gen, Told, overwritten) /\ Settled(ns, overwritten)
      /\ \A G : Whole(ms, G, Told) => Whole(ns, G, Told)
      /\ \A h : Kept(ms, ns, h)
      /\ \A i \in 1 .. Len(ns) : ns[i].key <= gen
  BY <1>2, Truncated
<1> HIDE DEF ns
<1>4. msgs' = rs /\ queue' = <<>> /\ latest' = msgs' /\ saveTimer' = TRUE
      /\ UNCHANGED <<page, stored, snapshots>>
  <2> HIDE DEF rs
  <2> QED BY <1>1, Replaced
<1>5. UserStep /\ gen' = gen + 1
  BY <1>4, SendChatIs
<1>6. OK(ns)
  BY <1>3 DEF OK
<1>7. ConversationOK(ns, gen', Told', overwritten')
  BY <1>5, <1>6, UserKeeps
<1>8. Settled(ns, overwritten')
  BY <1>3 DEF Settled
<1>9. Whole(ns, finished \ overwritten', Told')
  <2> DEFINE G == finished \ overwritten'
  <2>1. G \subseteq finished /\ Whole(ns, G, Told)
    BY <1>3
  <2> HIDE DEF G
  <2>2. Whole(ns, G, Told')
    BY <1>3, <1>5, <2>1, UserKeepsWhole
  <2> QED BY <2>2 DEF G
<1>10. Kept(msgs, ns, gen)
  BY <1>3, KeptTwice
<1>11. msgs' = ns \o <<createLoadingAssistantMessage(gen + 1)>>
  BY <1>4
<1>12. \A i \in 1 .. Len(ns) : ns[i].from = "user" \/ ns[i].key <= gen
  BY <1>3
<1> HIDE DEF rs
<1> QED BY <1>4, <1>7, <1>8, <1>9, <1>10, <1>11, <1>12, NewReply

\* The reply is generated again.
LEMMA RegenerateMessage ==
    ASSUME IInv, NEW i \in DOMAIN msgs, NEW stream \in BOOLEAN, Regenerate(i, stream)
    PROVE  ChatInv' /\ Kept(msgs, msgs', gen)
<1> DEFINE n == IF msgs[i].from = "user" THEN i ELSE i - 1
<1>1. /\ Act /\ SendChat(stream) /\ ~shown
      /\ ToConversation(Replace(RepliedAfter(msgs, n)))
      /\ UNCHANGED <<finished, overwritten, shortened>>
  BY DEF Regenerate, histVars
<1>2. /\ OK(msgs) /\ msgs \in Seq(Message) /\ Settled(msgs, overwritten)
      /\ Whole(msgs, finished \ overwritten, Told)
  BY <1>1, AtRest
<1>3. Len(msgs) \in Nat /\ i \in 1 .. Len(msgs)
  BY <1>2, ConversationIs
<1>4. n \in 0 .. Len(msgs)
  BY <1>3
<1> HIDE DEF n
<1>5. \A j \in 1 .. n : j \in 1 .. Len(msgs)
  BY <1>3, <1>4
<1>6. \A j \in 1 .. n :
         isAssistantMessagePending(msgs[j]) => msgs[j].key \in overwritten
  BY <1>2, <1>5 DEF Settled
<1>7. Kept(msgs, msgs, gen)
  BY DEF Kept
<1>8. overwritten \subseteq overwritten' /\ finished' = finished
      /\ Whole(msgs, finished \ overwritten', Told)
  BY <1>1, <1>2
<1> QED BY <1>1, <1>2, <1>4, <1>6, <1>7, <1>8, RepliedAfterFirst

\* What is shown is whole, but for a reply the edit is saved over.
LEMMA ShownIsWhole ==
    ASSUME IInv, overwritten' = IF queue = <<>> THEN overwritten
                                ELSE overwritten \cup {gen}
    PROVE  Whole(msgs, finished \ overwritten', Told)
<1>1. WholeInv
  BY DEF IInv
<1>2. CASE queue = <<>>
  BY <1>1, <1>2, ComingIsShown DEF WholeInv
<1>3. CASE queue # <<>>
  BY <1>1, <1>3 DEF WholeInv
<1> QED BY <1>2, <1>3

\* An edit of the user's message is submitted.
LEMMA SubmitEdit ==
    ASSUME IInv, NEW i \in DOMAIN msgs, NEW stream \in BOOLEAN, Act,
           msgs[i].from = "user", SendChat(stream),
           ToConversation(Replace(RepliedAfter(Edited(msgs, i), i))),
           overwritten' = IF queue = <<>> THEN overwritten
                          ELSE overwritten \cup {gen},
           finished' = finished, shortened' = shortened
    PROVE  ChatInv' /\ Kept(msgs, msgs', gen)
<1> DEFINE ns == Edited(msgs, i)
<1>1. ToConversation(Replace(RepliedAfter(ns, i)))
  OBVIOUS
<1>2. /\ ConversationOK(msgs, gen, Told, overwritten) /\ msgs \in Seq(Message)
      /\ Len(msgs) \in Nat /\ i \in 1 .. Len(msgs)
  BY ConvFacts, ConversationIs DEF IInv, ConvsInv, OK
<1>3. /\ ConversationOK(ns, gen, Told, overwritten) /\ Len(ns) = Len(msgs)
      /\ \A j \in 1 .. Len(msgs) :
            /\ Id(ns[j]) = Id(msgs[j]) /\ ns[j].status = msgs[j].status
            /\ j # i => ns[j] = msgs[j]
      /\ \A G : Whole(msgs, G, Told) => Whole(ns, G, Told)
      /\ \A h : Kept(msgs, ns, h)
  BY <1>2, EditedMessage
<1> HIDE DEF ns
<1>4. i \in 0 .. Len(ns)
  BY <1>2, <1>3
<1>5. ASSUME NEW j \in 1 .. i, isAssistantMessagePending(ns[j])
      PROVE  ns[j].key \in overwritten
  <2>1. j \in 1 .. Len(ns) /\ (j = Len(ns) => j = i)
    BY <1>2, <1>3
  <2>2. j # i
    <3>1. msgs[i].status = "none"
      BY <1>2 DEF ConversationOK, MessageOK
    <3>2. ns[i].status = "none"
      BY <1>2, <1>3, <3>1
    <3> QED BY <1>5, <3>2 DEF isAssistantMessagePending
  <2> QED BY <1>3, <1>5, <2>1, <2>2 DEF ConversationOK, SettledButLast
<1>6. Whole(ns, finished \ overwritten', Told)
  BY <1>3, ShownIsWhole
<1>7. OK(ns) /\ Kept(msgs, ns, gen) /\ overwritten \subseteq overwritten'
  BY <1>3 DEF OK
<1> QED BY <1>1, <1>4, <1>5, <1>6, <1>7, RepliedAfterFirst

\* The edit is saved over what is shown.
LEMMA SaveEdit ==
    ASSUME IInv, NEW i \in DOMAIN msgs, page = "open", Id(msgs[i]) = editing,
           UNCHANGED <<requesting, streaming, genVars>>,
           ToConversation(Replace(Edited(msgs, i))),
           overwritten' = IF queue = <<>> THEN overwritten
                          ELSE overwritten \cup {gen},
           finished' = finished, shortened' = shortened
    PROVE  ChatInv' /\ Kept(msgs, msgs', gen)
<1> DEFINE ns == Edited(msgs, i)
<1>1. ToConversation(Replace(ns))
  OBVIOUS
<1>2. /\ ConversationOK(msgs, gen, Told, overwritten) /\ msgs \in Seq(Message)
      /\ Len(msgs) \in Nat /\ i \in 1 .. Len(msgs)
  BY ConvFacts, ConversationIs DEF IInv, ConvsInv, OK
<1>3. /\ ConversationOK(ns, gen, Told, overwritten) /\ Len(ns) = Len(msgs)
      /\ \A j \in 1 .. Len(msgs) :
            /\ Id(ns[j]) = Id(msgs[j]) /\ ns[j].status = msgs[j].status
            /\ j # i => ns[j] = msgs[j]
      /\ Settled(msgs, overwritten) => Settled(ns, overwritten)
      /\ \A G : Whole(msgs, G, Told) => Whole(ns, G, Told)
      /\ \A h : Kept(msgs, ns, h)
  BY <1>2, EditedMessage
<1> HIDE DEF ns
<1>4. /\ msgs' = ns /\ queue' = <<>> /\ latest' = msgs' /\ saveTimer' = TRUE
      /\ shown' = (requesting' \/ streaming')
      /\ UNCHANGED <<page, stored, snapshots>>
  BY <1>1, Replaced
<1>5. /\ gen' = gen /\ calls' = calls /\ pending' = pending /\ requesting' = requesting
      /\ streaming' = streaming /\ Told' = Told
  BY <1>4 DEF genVars, Told
<1>6. /\ gen \in Int /\ (streaming => requesting) /\ ReplyInv /\ PageInv
      /\ requesting \in BOOLEAN
      /\ queue = <<>> => Coming = msgs
      /\ requesting \/ queue # <<>> => shown
  BY FlagFacts DEF IInv, PageInv
<1>7. UserStep /\ overwritten \subseteq overwritten'
  BY <1>4, <1>5, <1>6 DEF UserStep
<1>8. OK(ns)
  BY <1>3 DEF OK
<1>9. ConversationOK(ns, gen', Told', overwritten')
  BY <1>7, <1>8, UserKeeps
<1>10. OK(msgs)'
  BY <1>4, <1>9 DEF OK
<1>11. Whole(msgs', finished' \ overwritten', Told')
  BY <1>3, <1>4, <1>5, ShownIsWhole
<1>12. shown => msgs' # <<>> /\ Last(msgs') = Last(msgs)
  <2> SUFFICES ASSUME shown PROVE msgs' # <<>> /\ Last(msgs') = Last(msgs)
    OBVIOUS
  <2>1. msgs # <<>> /\ Last(msgs) = msgs[Len(msgs)] /\ Last(msgs).key = gen
    BY <1>2, ConvFacts, ConversationIs
  <2>2. editing.from # "none" /\ editing.key < gen
    <3>1. editing.from \in {"user", "assistant"}
      BY EditableIs
    <3> QED BY <1>6, <3>1 DEF PageInv
  <2>3. i # Len(msgs)
    <3>1. msgs[i].key < gen
      BY <2>2 DEF Id
    <3> QED BY <1>6, <2>1, <3>1
  <2>4. ns \in Seq(Message)
    BY <1>3 DEF ConversationOK
  <2>5. Len(msgs) \in 1 .. Len(msgs)
    BY <1>2, <2>1, ConversationIs
  <2>6. ns # <<>> /\ Last(ns) = ns[Len(ns)]
    BY <1>3, <2>4, <2>5, ConversationIs
  <2>7. ns[Len(ns)] = msgs[Len(msgs)]
    BY <1>3, <2>3, <2>5
  <2> QED BY <1>4, <2>1, <2>6, <2>7
<1>13. ASSUME Coming' = msgs' PROVE ReplyInv'
  <2>1. \A k \in Gens : Parted(calls'[k])
    BY <1>5, FlagFacts
  <2>2. shown' => /\ shown /\ msgs' # <<>>
                  /\ Last(msgs').from = "assistant" /\ Last(msgs').key = gen'
    BY <1>4, <1>5, <1>6, <1>12 DEF ReplyInv
  <2>3. Waiting(calls[gen], pending.text, snapshots)'
    BY <1>4, <1>5, <1>6 DEF ReplyInv
  <2>4. ASSUME requesting'
        PROVE  /\ Arriving(Last(msgs), calls[gen], pending.text, snapshots)'
               /\ Arriving(Last(Coming), calls[gen], pending.text, snapshots)'
               /\ gen' \notin overwritten' =>
                    Exact(Last(Coming).text, calls[gen], pending.text, snapshots)'
    <3>1. requesting /\ shown
      BY <1>5, <1>6, <2>4
    <3>2. Last(msgs') = Last(msgs) /\ Last(Coming') = Last(msgs)
      BY <1>12, <1>13, <3>1
    <3>3. Arriving(Last(msgs), calls[gen], pending.text, snapshots)
      BY <1>6, <3>1 DEF ReplyInv
    <3>4. ASSUME gen' \notin overwritten'
          PROVE  Exact(Last(msgs).text, calls[gen], pending.text, snapshots)
      <4>1. queue = <<>> /\ gen \notin overwritten
        BY <1>5, <3>4
      <4> QED BY <1>6, <3>1, <4>1 DEF ReplyInv
    <3> QED BY <1>4, <1>5, <3>2, <3>3, <3>4
  <2>5. ASSUME ~requesting' PROVE Settled(Coming', overwritten')
    <3>1. CASE queue = <<>>
      <4>1. Settled(ns, overwritten)
        BY <1>3, <1>5, <1>6, <2>5, <3>1 DEF ReplyInv
      <4> QED BY <1>4, <1>13, <3>1, <4>1
    <3>2. CASE queue # <<>>
      <4>1. shown /\ gen \in overwritten'
        BY <1>6, <3>2
      <4>2. SettledButLast(ns, overwritten')
        BY <1>9 DEF ConversationOK
      <4>3. ns[Len(ns)].key = gen
        <5>1. msgs # <<>> /\ Last(msgs).key = gen /\ Last(msgs) = msgs[Len(msgs)]
              /\ Len(msgs) \in 1 .. Len(msgs)
          BY <1>2, <4>1, ConvFacts, ConversationIs
        <5> QED BY <1>3, <5>1 DEF Id
      <4>4. Settled(ns, overwritten')
        BY <4>1, <4>2, <4>3, SettledWithLast
      <4> QED BY <1>4, <1>13, <4>4
    <3> QED BY <3>1, <3>2
  <2>6. calls'[gen'].pc = "chat" => calls'[gen'].sent = <<>>
    BY <1>5, <1>6 DEF ReplyInv
  <2> QED BY <2>1, <2>2, <2>3, <2>4, <2>5, <2>6 DEF ReplyInv
<1>14. finished' \subseteq finished
  OBVIOUS
<1>15. ChatInv'
  BY <1>4, <1>7, <1>10, <1>11, <1>13, <1>14, RenderedChat
<1>16. Kept(msgs, msgs', gen)
  BY <1>3, <1>4
<1> QED BY <1>15, <1>16

\* applyEdit.
LEMMA EditApplied ==
    ASSUME IInv, NEW i \in DOMAIN msgs, NEW submit \in BOOLEAN, NEW stream \in BOOLEAN,
           ApplyEdit(i, submit, stream)
    PROVE  ChatInv' /\ Kept(msgs, msgs', gen)
<1>1. /\ Act /\ page = "open" /\ Id(msgs[i]) = editing /\ finished' = finished
      /\ shortened' = shortened
      /\ overwritten' = IF queue = <<>> THEN overwritten
                        ELSE overwritten \cup {gen}
      /\ IF submit /\ msgs[i].from = "user"
         THEN SendChat(stream) /\ ToConversation(Replace(RepliedAfter(Edited(msgs, i), i)))
         ELSE /\ UNCHANGED <<requesting, streaming, genVars>>
              /\ ToConversation(Replace(Edited(msgs, i)))
  BY DEF ApplyEdit, Edited, Act
<1>2. CASE submit /\ msgs[i].from = "user"
  BY <1>1, <1>2, SubmitEdit
<1>3. CASE ~(submit /\ msgs[i].from = "user")
  BY <1>1, <1>3, SaveEdit
<1> QED BY <1>2, <1>3

-----------------------------------------------------------------------------
(* The user at a page at rest.                                             *)

\* The conversation becomes ms.
LEMMA RestStep ==
    ASSUME IInv, ~shown, page = "open", UNCHANGED <<requesting, streaming, genVars>>,
           NEW ms, msgs' = ms, OK(ms), Settled(ms, overwritten),
           Whole(ms, finished \ overwritten, Told),
           queue' = <<>>, latest' = msgs', saveTimer' = TRUE,
           shown' = (requesting' \/ streaming'),
           UNCHANGED <<page, stored, snapshots, finished, overwritten, shortened>>
    PROVE  ChatInv'
<1>1. ~requesting /\ ~streaming /\ gen \in Int /\ ReplyInv
  BY FlagFacts, AtRest DEF IInv
<1>2. /\ gen' = gen /\ calls' = calls /\ pending' = pending /\ ~requesting' /\ ~shown'
      /\ Told' = Told
  BY <1>1 DEF genVars, Told
<1>3. UserStep
  BY <1>1, <1>2 DEF UserStep
<1>4. OK(msgs)'
  BY <1>2 DEF OK
<1>5. Whole(msgs', finished' \ overwritten', Told')
  BY <1>2
<1>6. ASSUME Coming' = msgs' PROVE ReplyInv'
  <2>1. \A k \in Gens : Parted(calls'[k])
    BY <1>2, FlagFacts
  <2>2. Waiting(calls[gen], pending.text, snapshots)'
    BY <1>1, <1>2 DEF ReplyInv
  <2>3. calls'[gen'].pc = "chat" => calls'[gen'].sent = <<>>
    BY <1>1, <1>2 DEF ReplyInv
  <2> QED BY <1>2, <1>6, <2>1, <2>2, <2>3 DEF ReplyInv
<1>7. finished' \subseteq finished
  OBVIOUS
<1> QED BY <1>3, <1>4, <1>5, <1>6, <1>7, RenderedChat

\* A message is deleted.
LEMMA DeleteMessage ==
    ASSUME IInv, NEW i \in DOMAIN msgs, Delete(i)
    PROVE  ChatInv' /\ Kept(msgs, msgs', gen)
<1> DEFINE u == Removed(msgs[i])
           ns == removeMessage(msgs, Id(msgs[i]))
<1>1. /\ page = "open" /\ ~shown /\ UNCHANGED <<requesting, streaming, genVars>>
      /\ ToConversation(Removed(msgs[i])) /\ UNCHANGED <<finished, overwritten, shortened>>
  BY DEF Delete, Act, histVars
<1>2. /\ OK(msgs) /\ queue = <<>> /\ Settled(msgs, overwritten)
      /\ Whole(msgs, finished \ overwritten, Told)
  BY <1>1, AtRest
<1>3. /\ Removed(msgs[i]).op # "eager"
      /\ \A ms, c : applyMessageStateUpdate(Removed(msgs[i]), ms, c) =
                      removeMessage(ms, Id(msgs[i]))
  BY DEF Removed, Update, applyMessageStateUpdate
<1>4. /\ msgs' = applyMessageStateUpdate(Removed(msgs[i]), Applied(queue, msgs, gen'), gen')
      /\ queue' = <<>> /\ latest' = msgs' /\ saveTimer' = TRUE
      /\ shown' = (requesting' \/ streaming')
      /\ page' = page /\ stored' = stored /\ snapshots' = snapshots
  BY <1>1, <1>3, ToConversationIs
<1>5. Applied(queue, msgs, gen') = msgs
  BY <1>2, AppliedNone
<1>6. msgs' = ns
  BY <1>3, <1>4, <1>5
<1>7. /\ ConversationOK(ns, gen, Told, overwritten) /\ Settled(ns, overwritten)
      /\ \A G : Whole(msgs, G, Told) => Whole(ns, G, Told)
      /\ \A h : Kept(msgs, ns, h)
  BY <1>2, RemoveMessage DEF OK
<1> HIDE DEF ns
<1>8. OK(ns) /\ Whole(ns, finished \ overwritten, Told)
  BY <1>2, <1>7 DEF OK
<1>9. ChatInv'
  BY <1>1, <1>4, <1>6, <1>7, <1>8, RestStep
<1> QED BY <1>6, <1>7, <1>9

\* The conversation is cleared.
LEMMA ClearMessages ==
    ASSUME IInv, Clear
    PROVE  ChatInv' /\ Kept(msgs, msgs', gen)
<1> DEFINE ns == <<>>
<1>1. /\ page = "open" /\ ~shown /\ UNCHANGED <<requesting, streaming, genVars>>
      /\ ToConversation(Replace(ns)) /\ UNCHANGED <<finished, overwritten, shortened>>
  BY DEF Clear, Act, histVars
<1>2. /\ OK(ns) /\ Settled(ns, overwritten) /\ Whole(ns, finished \ overwritten, Told)
      /\ Kept(msgs, ns, gen)
  BY EmptyConversation DEF OK
<1> HIDE DEF ns
<1>3. /\ msgs' = ns /\ queue' = <<>> /\ latest' = msgs' /\ saveTimer' = TRUE
      /\ shown' = (requesting' \/ streaming')
      /\ UNCHANGED <<page, stored, snapshots>>
  BY <1>1, Replaced
<1> QED BY <1>1, <1>2, <1>3, RestStep

-----------------------------------------------------------------------------
(* Stop.                                                                   *)

\* Once the generation has moved on, what was queued for it does nothing.
LEMMA StaleQueue ==
    ASSUME IInv, NEW c, c # gen
    PROVE  Applied(queue, msgs, c) = latest
<1>1. QueueInv /\ queue \in Seq(Updater) /\ Len(queue) \in Nat
      /\ \A i \in 1 .. Len(queue) : queue[i] \in Updater
  BY LenProperties, ElementOfSeq DEF IInv, QueueInv
<1> DEFINE k == IF EagerFirst THEN 1 ELSE 0
<1>2. k \in 0 .. 1 /\ k <= Len(queue)
  BY <1>1 DEF EagerFirst
<1>3. latest = IF k = 0 THEN msgs ELSE applyMessageStateUpdate(queue[1], msgs, c)
  BY <1>1 DEF QueueInv, EagerFirst, applyMessageStateUpdate
<1>4. ASSUME NEW i \in 1 .. Len(queue), i > k
      PROVE  applyMessageStateUpdate(queue[i], latest, c) = latest
  <2>1. queue[i].op # "eager"
    <3>1. CASE EagerFirst
      BY <1>1, <1>4, <3>1 DEF QueueInv
    <3>2. CASE ~EagerFirst
      <4>1. queue # <<>>
        BY <1>1
      <4> QED BY <1>1, <3>2, <4>1 DEF QueueInv, EagerFirst
    <3> QED BY <3>1, <3>2
  <2>2. queue[i].gen = gen
    BY <1>1, <2>1 DEF QueueInv
  <2>3. queue[i].op \in {"chunk", "complete", "stop", "fail", "answer"}
    BY <1>1, <2>1 DEF Updater
  <2> QED BY <2>2, <2>3, StaleUpdate
<1> HIDE DEF k
<1> QED BY <1>1, <1>2, <1>3, <1>4, AppliedIdle

\* The flush of stopGeneration counts only if React runs it at once.
LEMMA StopFlush ==
    ASSUME IInv, shown, NEW c, c # gen, NEW q \in Queued(FlushedChunk(gen))
    PROVE  /\ q \in Seq(Updater)
           /\ OK(Applied(q, msgs, c)) /\ SameButLast(Applied(q, msgs, c), msgs)
<1> DEFINE u == Chunk(gen, pending.text)
           x == applyMessageStateUpdate(u, msgs, gen)
<1>1. /\ queue \in Seq(Updater) /\ Len(queue) \in Nat /\ ConvsInv
      /\ gen \in Gens /\ pending.text \in Text
      /\ pending.text # <<>> => streaming
      /\ streaming => requesting
  BY FlagFacts, LenProperties DEF IInv, QueueInv, PageInv
<1>2. Applied(queue, msgs, c) = latest
  BY StaleQueue
<1>3. OK(latest) /\ SameButLast(latest, msgs)
  BY <1>1 DEF ConvsInv
<1>4. u \in Updater /\ u.op = "chunk" /\ u.gen = gen
  BY <1>1, UpdatersAre
<1>5. CASE FlushedChunk(gen) = <<>>
  <2>1. q = queue \o <<>>
    BY <1>5 DEF Queued
  <2>2. q = queue
    BY <1>1, <2>1
  <2> QED BY <1>1, <1>2, <1>3, <2>2
<1>6. CASE FlushedChunk(gen) = <<u>> /\ q = queue \o <<u>>
  <2> HIDE DEF u
  <2>1. Applied(queue \o <<u>>, msgs, c) = applyMessageStateUpdate(u, Applied(queue, msgs, c), c)
    BY <1>1, AppliedMore, ZenonT(60)
  <2>2. u.op \in {"chunk", "complete", "stop", "fail", "answer"}
    BY <1>4
  <2>3. applyMessageStateUpdate(u, latest, c) = latest
    BY <1>4, <2>2, StaleUpdate
  <2>4. q \in Seq(Updater)
    BY <1>1, <1>4, <1>6
  <2> QED BY <1>2, <1>3, <1>6, <2>1, <2>3, <2>4
<1>7. CASE pending.text # <<>> /\ queue = <<>> /\ q = <<Eager(x)>>
  <2>1. requesting /\ Coming = msgs
    BY <1>1, <1>7, FlagFacts
  <2>2. MayUpdate(u, Last(msgs), Told)
    BY <1>7, <2>1, ChunkMayUpdate
  <2> HIDE DEF u
  <2>3. ConversationOK(msgs, gen, Told, overwritten)
    BY <1>1 DEF ConvsInv, OK
  <2>4. msgs # <<>> /\ Last(msgs).from = "assistant"
    BY ConvFacts
  <2>5. /\ u.op \in LastUpdates \cup {"stop"} /\ u.gen = gen
        /\ UpdateMessage(u, Last(msgs)) \in Message
        /\ MessageOK(UpdateMessage(u, Last(msgs)), gen, Told, overwritten)
        /\ Id(UpdateMessage(u, Last(msgs))) = Id(Last(msgs))
    BY <2>2 DEF MayUpdate
  <2>6. ConversationOK(x, gen, Told, overwritten) /\ SameButLast(x, msgs)
    BY <2>3, <2>4, <2>5, UpdatedConversation
  <2> HIDE DEF x
  <2>7. x \in Seq(Message)
    BY <2>6 DEF ConversationOK
  <2>8. Eager(x) \in Updater /\ Applied(<<Eager(x)>>, msgs, c) = x
    BY <2>7, EagerIs
  <2>9. q \in Seq(Updater)
    BY <1>7, <2>8
  <2> QED BY <1>7, <2>6, <2>8, <2>9 DEF OK
<1>8. FlushedChunk(gen) = <<>> \/ (FlushedChunk(gen) = <<u>> /\ pending.text # <<>>)
  BY DEF FlushedChunk
<1>9. ASSUME FlushedChunk(gen) = <<u>>, q # queue \o <<u>>
      PROVE  queue = <<>> /\ q = <<Eager(x)>>
  <2> HIDE DEF u
  <2>1. Head(<<u>>) = u /\ Tail(<<u>>) = <<>>
    OBVIOUS
  <2>2. queue = <<>> /\ q = <<Eager(x)>> \o <<>>
    BY <1>9, <2>1 DEF Queued
  <2> QED BY <2>2
<1> QED BY <1>5, <1>6, <1>7, <1>8, <1>9, Zenon

\* stopGeneration.
LEMMA StopReply ==
    ASSUME IInv, StopGeneration
    PROVE  ChatInv' /\ Kept(msgs, msgs', gen)
<1> DEFINE c == gen + 1
           s == Stopped(c)
<1>1. /\ Act /\ shown /\ gen' = c /\ discardPendingStreamUpdates(c) /\ CancelStream
      /\ requesting' = FALSE /\ streaming' = FALSE /\ finished' = finished \ {gen}
      /\ \E q \in Queued(FlushedChunk(gen)) : RenderQueue(q \o <<s>>)
      /\ UNCHANGED <<page, calls, stored, snapshots, overwritten, shortened>>
      /\ Told' = Told
  BY DEF StopGeneration, StopWith, Told
<1>2. gen \in Nat /\ c # gen /\ c \in Int /\ gen <= c /\ GenInv
  BY FlagFacts DEF IInv
<1>3. s.op = "stop" /\ s.gen = c
  BY DEF Stopped, Update
<1>4. PICK q \in Queued(FlushedChunk(gen)) : RenderQueue(q \o <<s>>)
  BY <1>1
<1>5. GenInv' /\ calls[c].pc # "chat"
  <2>1. GenInv'
    BY <1>1, <1>2, GiveUpStep
  <2>2. ~requesting' /\ ~Awaited(gen)'
    BY <1>1, <2>1 DEF GenInv, FlagInv
  <2> QED BY <1>1, <2>1, <2>2 DEF Awaited, Live
<1> DEFINE X == Applied(q, msgs, c)
           m == Last(X)
           d == UpdateMessage(s, m)
<1>6. q \in Seq(Updater) /\ OK(X) /\ SameButLast(X, msgs)
  BY <1>1, <1>2, <1>4, StopFlush
<1>7. /\ msgs' = applyMessageStateUpdate(s, X, c) /\ queue' = <<>> /\ shown' = FALSE
      /\ latest' = msgs' /\ saveTimer' = TRUE
  <2> DEFINE us == q \o <<s>>
  <2> HIDE DEF s
  <2>1. Applied(us, msgs, c) = applyMessageStateUpdate(s, X, c)
    BY <1>6, AppliedMore, ZenonT(60)
  <2>2. \E i \in DOMAIN us : us[i].op # "eager"
    <3> DEFINE S == Updater \cup {s}
    <3>1. q \in Seq(S) /\ <<s>> \in Seq(S) /\ Len(q) \in Nat
      BY <1>6, SeqMonotonic
    <3> HIDE DEF S
    <3>2. us \in Seq(S) /\ Len(us) = Len(q) + 1 /\ us[Len(q) + 1] = s
      BY <3>1, ConcatProperties
    <3>3. Len(q) + 1 \in DOMAIN us
      BY <3>1, <3>2
    <3> QED BY <1>3, <3>2, <3>3
  <2> HIDE DEF us
  <2>3. RenderQueue(us)
    BY <1>4 DEF us
  <2> QED BY <1>1, <2>1, <2>2, <2>3 DEF RenderQueue, persistMessages
<1>8. UserStep
  BY <1>1, <1>2 DEF UserStep
<1>9. /\ msgs \in Seq(Message) /\ msgs # <<>> /\ UniqueKeys(msgs)
      /\ Last(msgs).from = "assistant" /\ Last(msgs).key = gen
  BY <1>1, ConvFacts
<1> HIDE DEF X
<1>10. ConversationOK(X, c, Told, overwritten)
  BY <1>1, <1>6, <1>8, UserKeeps
<1>11. /\ X \in Seq(Message) /\ X # <<>> /\ m = X[Len(X)] /\ m \in Message
       /\ m.from = "assistant" /\ m.key = gen /\ MessageOK(m, c, Told, overwritten)
  <2>1. X \in Seq(Message) /\ Len(X) = Len(msgs)
    BY <1>6, <1>10 DEF ConversationOK, SameButLast
  <2>2. /\ Len(msgs) \in 1 .. Len(msgs) /\ Last(msgs) = msgs[Len(msgs)]
        /\ X # <<>> /\ m = X[Len(X)] /\ m \in Message
    BY <1>9, <2>1, ConversationIs
  <2>3. Id(m) = Id(Last(msgs))
    BY <1>6, <2>1, <2>2 DEF SameButLast
  <2>4. MessageOK(m, c, Told, overwritten)
    BY <1>10, <2>1, <2>2 DEF ConversationOK
  <2> QED BY <1>9, <2>1, <2>2, <2>3, <2>4 DEF Id
<1> HIDE DEF m, c
<1>12. /\ d \in Message /\ Id(d) = Id(m) /\ MessageOK(d, c, Told, overwritten)
       /\ ~isAssistantMessagePending(d)
  <2>1. d = IF isAssistantMessagePending(m) THEN As(m, "complete", m.text) ELSE m
    BY <1>11, UpdateIs
  <2>2. "complete" \in Statuses /\ m.text \in Text
    BY <1>11, MessageIs DEF Statuses
  <2> DEFINE a == As(m, "complete", m.text)
  <2>3. /\ a \in Message /\ a.text = m.text /\ a.status = "complete"
        /\ a.from = m.from /\ a.key = m.key /\ Id(a) = Id(m)
    BY <1>11, <2>2, AsIs
  <2> HIDE DEF a
  <2>4. MessageOK(a, c, Told, overwritten) /\ ~isAssistantMessagePending(a)
    BY <1>11, <2>3 DEF MessageOK, isAssistantMessagePending
  <2> QED BY <1>11, <2>1, <2>3, <2>4 DEF a
<1> HIDE DEF s
<1>13. /\ ConversationOK(msgs', c, Told, overwritten) /\ SameButLast(msgs', X)
       /\ msgs' # <<>> /\ Last(msgs') = d
  <2>1. s.op \in LastUpdates \cup {"stop"}
    BY <1>3
  <2> DEFINE ns == applyMessageStateUpdate(s, X, c)
  <2>2. /\ ConversationOK(ns, c, Told, overwritten) /\ SameButLast(ns, X)
        /\ ns # <<>> /\ Last(ns) = d
    BY <1>3, <1>10, <1>11, <1>12, <2>1, UpdatedConversation DEF m
  <2> QED BY <1>7, <2>2
<1> HIDE DEF d
<1>14. SameButLast(msgs', msgs)
  BY <1>6, <1>13, SameTwice
<1>15. msgs' \in Seq(Message) /\ OK(msgs)'
  BY <1>1, <1>13 DEF OK, ConversationOK
<1>16. Kept(msgs, msgs', gen)
  BY <1>2, <1>9, <1>14, <1>15, KeptButLast
<1>17. Settled(msgs', overwritten)
  <2>1. Last(msgs') = msgs'[Len(msgs')]
    BY <1>13, <1>15, ConversationIs
  <2> QED BY <1>12, <1>13, <2>1, SettledWithLast DEF ConversationOK
<1>18. Whole(msgs', finished' \ overwritten', Told')
  <2> DEFINE G == finished \ (overwritten \cup {gen})
  <2>1. Whole(msgs, G, Told) /\ gen \notin G
    BY DEF IInv, WholeInv
  <2>2. finished' \ overwritten' = G
    BY <1>1
  <2> HIDE DEF G
  <2>3. Whole(msgs', G, Told)
    BY <1>9, <1>14, <1>15, <2>1, WholeButLast
  <2> QED BY <1>1, <2>2, <2>3
<1>19. ASSUME Coming' = msgs' PROVE ReplyInv'
  <2>1. pending'.text = <<>>
    BY <1>1 DEF discardPendingStreamUpdates
  <2>2. Waiting(calls[gen], pending.text, snapshots)'
    BY <2>1 DEF Waiting
  <2>3. \A k \in Gens : Parted(calls'[k])
    BY <1>1, FlagFacts
  <2> QED BY <1>1, <1>5, <1>7, <1>17, <1>19, <2>2, <2>3 DEF ReplyInv
<1>20. finished' \subseteq finished /\ page = "open"
  BY <1>1 DEF Act
<1>21. ChatInv'
  BY <1>1, <1>7, <1>8, <1>15, <1>18, <1>19, <1>20, RenderedChat
<1> QED BY <1>16, <1>21

-----------------------------------------------------------------------------
(* Leaving and opening the page.                                           *)

\* Nothing is left of the page; ms is what is stored.
LEMMA UnmountedStep ==
    ASSUME IInv, Act, Unmounted, NEW ms, stored' = ms, OK(ms),
           finished' \subseteq finished, Whole(ms, finished' \ overwritten, Told)
    PROVE  ChatInv'
<1>1. /\ gen' = gen + 1 /\ CancelStream /\ discardPendingStreamUpdates(gen + 1)
      /\ msgs' = <<>> /\ queue' = <<>> /\ latest' = <<>> /\ page' = "away"
      /\ shown' = FALSE /\ requesting' = FALSE /\ streaming' = FALSE
      /\ UNCHANGED <<calls, snapshots, overwritten, shortened>> /\ Told' = Told
  BY DEF Unmounted, Told
<1>2. gen \in Nat /\ GenInv
  BY FlagFacts DEF IInv
<1>3. UserStep
  BY <1>1, <1>2 DEF UserStep
<1>4. ConversationOK(ms, gen', Told', overwritten')
  BY <1>3, UserKeeps
<1>5. OK(msgs)' /\ OK(stored)' /\ latest' = msgs'
  BY <1>1, <1>4, EmptyConversation DEF OK
<1>6. QueueInv' /\ ConvsInv' /\ Coming' = msgs'
  BY <1>1, <1>5, RenderedStep
<1>7. calls'[gen'].pc # "chat"
  <2>1. GenInv'
    BY <1>1, <1>2, GiveUpStep
  <2> QED BY <1>1, <2>1 DEF GenInv, FlagInv, Awaited, Live
<1>8. ReplyInv'
  <2>1. pending'.text = <<>>
    BY <1>1 DEF discardPendingStreamUpdates
  <2>2. Waiting(calls[gen], pending.text, snapshots)'
    BY <2>1 DEF Waiting
  <2>3. Settled(Coming', overwritten')
    BY <1>1, <1>6, EmptyConversation
  <2>4. \A k \in Gens : Parted(calls'[k])
    BY <1>1, FlagFacts
  <2> QED BY <1>1, <1>7, <2>2, <2>3, <2>4 DEF ReplyInv
<1>9. WholeInv'
  <2>1. \A g \in finished' : calls'[g].pc = "over"
    BY <1>1, FinishedIsPast
  <2>2. \A G : Whole(msgs', G, Told') /\ Whole(Coming', G, Told')
    BY <1>1, <1>6, EmptyConversation
  <2>3. Whole(stored', finished' \ overwritten', Told')
    BY <1>1
  <2> QED BY <2>1, <2>2, <2>3 DEF WholeInv
<1> QED BY <1>6, <1>8, <1>9 DEF ChatInv

\* The page is left: what was persisted last is stored.
LEMMA LeavePage ==
    ASSUME IInv, Leave
    PROVE  ChatInv' /\ page' = "away"
<1> DEFINE H == finished' \ overwritten
<1>1. /\ Act /\ Unmounted /\ page = "open" /\ page' = "away"
      /\ stored' = IF saveTimer THEN trimMessages(latest) ELSE stored
      /\ finished' = IF queue = <<>> THEN finished ELSE finished \ {gen}
  BY DEF Leave, Unmounted, Act
<1>2. stored' \in {latest, trimMessages(latest)}
  BY <1>1 DEF IInv, QueueInv
<1>3. ConversationOK(latest, gen, Told, overwritten) /\ SameButLast(latest, msgs)
  BY DEF IInv, ConvsInv, OK
<1>4. Whole(latest, H, Told)
  <2>1. CASE queue = <<>>
    <3>1. latest = Coming /\ finished' = finished
      BY <1>1, <2>1, FlagFacts
    <3> QED BY <3>1 DEF IInv, WholeInv
  <2>2. CASE queue # <<>>
    <3>1. shown
      BY <2>2 DEF IInv, PageInv
    <3>2. /\ msgs \in Seq(Message) /\ latest \in Seq(Message) /\ msgs # <<>>
          /\ UniqueKeys(msgs) /\ Last(msgs).from = "assistant" /\ Last(msgs).key = gen
      BY <3>1, ConvFacts
    <3>3. Whole(msgs, H, Told) /\ gen \notin H
      <4>1. H = finished \ (overwritten \cup {gen})
        BY <1>1, <2>2
      <4> QED BY <4>1 DEF IInv, WholeInv
    <3> HIDE DEF H
    <3> QED BY <1>3, <3>2, <3>3, WholeButLast
  <2> QED BY <2>1, <2>2
<1> HIDE DEF H
<1>5. /\ ConversationOK(trimMessages(latest), gen, Told, overwritten)
      /\ Whole(trimMessages(latest), H, Told)
  BY <1>3, <1>4, LastMessages
<1>6. OK(stored') /\ Whole(stored', H, Told)
  BY <1>2, <1>3, <1>4, <1>5 DEF OK
<1>7. finished' \subseteq finished
  BY <1>1
<1> QED BY <1>1, <1>6, <1>7, UnmountedStep DEF H

\* The tab is closed or reloaded.
LEMMA UnloadPage ==
    ASSUME IInv, Unload
    PROVE  ChatInv' /\ page' = "away"
<1>1. /\ Act /\ Unmounted /\ page' = "away" /\ stored' = stored /\ finished' = {}
  BY DEF Unload, Unmounted
<1>2. OK(stored) /\ Whole(stored, finished' \ overwritten, Told)
  BY <1>1 DEF IInv, ConvsInv, Whole
<1> QED BY <1>1, <1>2, UnmountedStep

\* The page is opened.
LEMMA OpenPage ==
    ASSUME IInv, Open
    PROVE  ChatInv' /\ page = "away"
<1> DEFINE Short == {m.key : m \in {n \in Range(stored) :
                        n.from = "assistant" /\ LoadedText(n.text) # n.text}}
<1>1. /\ page = "away" /\ page' = "open" /\ stored' = loadMessages
      /\ msgs' = loadMessages /\ latest' = loadMessages
      /\ UNCHANGED <<queue, shown, requesting, gen, pending, calls, snapshots,
                     finished, overwritten>>
      /\ shortened' = shortened \cup Short
  BY DEF Open, genVars, histVars
<1>2. /\ ~shown /\ queue = <<>> /\ ~requesting /\ ReplyInv /\ WholeInv
      /\ ConversationOK(stored, gen, Told, overwritten) /\ stored \in Seq(Message)
      /\ Whole(stored, finished \ overwritten, Told) /\ gen \in Int
      /\ \A k \in Gens : calls[k].sent \in Text /\ Parted(calls[k])
  BY <1>1, FlagFacts DEF IInv, PageInv, ConvsInv, OK, WholeInv, ConversationOK
<1>3. \A i \in 1 .. Len(stored) : stored[i] \in Message /\ stored[i].key \in Gens
  BY <1>2, ConversationIs, MessageIs
<1>4. ASSUME NEW k \in Gens
      PROVE  /\ Extends(Told[k], Told'[k]) /\ Told[k].sent \in Text
             /\ Told'[k].sent = Told[k].sent
             /\ Told[k].kind = "loose" => Told'[k].kind = "loose"
  <2>1. /\ calls'[k].sent \in Text /\ IsPrefix(calls[k].sent, calls'[k].sent)
        /\ calls[k].ends \subseteq calls'[k].ends /\ snapshots' = snapshots
        /\ shortened \subseteq shortened'
    BY <1>1, <1>2, PrefixOfItself
  <2>2. Extends(Told[k], Told'[k])
    BY <2>1, ToldGrows
  <2> QED BY <1>1, <1>2, <2>2, ToldIs, ToldIsNext DEF Extends
<1>5. ConversationOK(stored, gen, Told', overwritten)
  <2>1. gen <= gen /\ overwritten \subseteq overwritten
        /\ \A k \in Gens : k <= gen => Extends(Told[k], Told'[k])
    BY <1>2, <1>4
  <2> QED BY <1>2, <2>1, ConversationGrows
<1>6. Whole(stored, finished \ overwritten, Told')
  <2>1. \A i \in 1 .. Len(stored) :
          /\ Told[stored[i].key].sent \in Text
          /\ Told'[stored[i].key].sent = Told[stored[i].key].sent
          /\ Told[stored[i].key].kind = "loose" => Told'[stored[i].key].kind = "loose"
    BY <1>3, <1>4
  <2> QED BY <1>2, <2>1, WholeLoosens
<1>7. Announced(stored, Told')
  <2> SUFFICES ASSUME NEW i \in 1 .. Len(stored)
               PROVE  /\ Told'[stored[i].key].sent \in Text
                      /\ stored[i].from = "assistant"
                         /\ LoadedText(stored[i].text) # stored[i].text =>
                           Told'[stored[i].key].kind = "loose"
    BY DEF Announced
  <2>1. stored[i] \in Range(stored)
    BY <1>2, ConversationIs DEF Range
  <2>2. stored[i].from = "assistant" /\ LoadedText(stored[i].text) # stored[i].text =>
          stored[i].key \in shortened'
    BY <1>1, <2>1
  <2> QED BY <1>3, <1>4, <2>2, ToldIsNext
<1> HIDE DEF Short
<1>8. /\ ConversationOK(loadMessages, gen, Told', overwritten)
      /\ Settled(loadMessages, overwritten)
      /\ Whole(loadMessages, finished \ overwritten, Told')
  BY <1>5, <1>6, <1>7, Loaded
<1>9. OK(msgs)' /\ OK(stored)' /\ latest' = msgs' /\ stored' = latest' /\ queue' = <<>>
  BY <1>1, <1>2, <1>8 DEF OK
<1>10. QueueInv' /\ ConvsInv' /\ Coming' = msgs'
  BY <1>9, RenderedStep
<1>11. ReplyInv'
  BY <1>1, <1>2, <1>8, <1>10 DEF ReplyInv
<1>12. WholeInv'
  <2>1. Whole(msgs', finished' \ overwritten', Told')
    BY <1>1, <1>8
  <2>2. Whole(msgs', finished' \ (overwritten' \cup {gen'}), Told')
    BY <2>1 DEF Whole
  <2> QED BY <1>1, <1>2, <1>10, <2>1, <2>2 DEF WholeInv
<1> QED BY <1>1, <1>10, <1>11, <1>12 DEF ChatInv

-----------------------------------------------------------------------------
(* Every step.                                                             *)

\* The editor is opened or closed, or nothing happens.
LEMMA QuietChat ==
    ASSUME IInv, \/ \E i \in DOMAIN msgs : EditMessage(i)
                 \/ CancelEdit
                 \/ UNCHANGED vars
    PROVE  ChatInv' /\ msgs' = msgs
<1>1. UNCHANGED <<page, msgs, queue, shown, requesting, gen, pending, calls, latest,
                  saveTimer, stored, snapshots, finished, overwritten, shortened>>
  BY DEF EditMessage, CancelEdit, vars, chatVars, genVars, saveVars, histVars
<1> QED BY <1>1, QuietReply

\* What a step does to the conversation while the page is open.
LEMMA ChatNext ==
    ASSUME IInv, [Next]_vars
    PROVE  /\ ChatInv'
           /\ page = "open" /\ page' = "open" => Kept(msgs, msgs', gen)
<1> DEFINE Goal == /\ ChatInv'
                   /\ page = "open" /\ page' = "open" => Kept(msgs, msgs', gen)
<1>1. msgs' = msgs => Kept(msgs, msgs', gen)
  BY DEF Kept
<1>2. CASE Render
  BY <1>2, RenderStep
<1>3. CASE FlushFires \/ SaveFires \/ Network
  BY <1>1, <1>3, ChatNetwork
<1>4. ASSUME NEW stream \in BOOLEAN, Send(stream) PROVE Goal
  BY <1>4, SendMessage
<1>5. ASSUME NEW i \in DOMAIN msgs, NEW stream \in BOOLEAN, Regenerate(i, stream)
      PROVE  Goal
  BY <1>5, RegenerateMessage
<1>6. ASSUME NEW i \in DOMAIN msgs, NEW submit \in BOOLEAN, NEW stream \in BOOLEAN,
             ApplyEdit(i, submit, stream)
      PROVE  Goal
  BY <1>6, EditApplied
<1>7. ASSUME NEW i \in DOMAIN msgs, Delete(i) PROVE Goal
  BY <1>7, DeleteMessage
<1>8. CASE \/ \E i \in DOMAIN msgs : EditMessage(i)
           \/ CancelEdit \/ UNCHANGED vars
  BY <1>1, <1>8, QuietChat
<1>9. CASE Clear
  BY <1>9, ClearMessages
<1>10. CASE StopGeneration
  BY <1>10, StopReply
<1>11. CASE Leave
  BY <1>11, LeavePage
<1>12. CASE Unload
  BY <1>12, UnloadPage
<1>13. CASE Open
  BY <1>13, OpenPage
<1> QED BY <1>2, <1>3, <1>4, <1>5, <1>6, <1>7, <1>8, <1>9, <1>10, <1>11, <1>12, <1>13
      DEF Next, Tasks, User

-----------------------------------------------------------------------------
(* The invariant, and what follows from it.                                *)

\* The conversation the page is first opened with.
LEMMA HistoryIs ==
    ASSUME NEW g \in Nat, NEW cs
    PROVE  ConversationOK(History, g, cs, {}) /\ Settled(History, {})
<1> DEFINE u == createUserMessage(0)
           m == As(createLoadingAssistantMessage(0), "complete", EditedText)
<1>1. 0 \in Gens /\ EditedText \in Text /\ Len(EditedText) <= MaxPieces
      /\ "complete" \in Statuses
  BY FixedTexts, PlaygroundAssumption DEF Gens, Statuses
<1>2. /\ u \in Message /\ u.from = "user" /\ u.key = 0 /\ u.status = "none"
      /\ u.text = EditedText
  BY <1>1, NewMessages DEF createUserMessage
<1>3. /\ createLoadingAssistantMessage(0) \in Message
      /\ createLoadingAssistantMessage(0).from = "assistant"
      /\ createLoadingAssistantMessage(0).key = 0
  BY <1>1, NewMessages DEF createLoadingAssistantMessage
<1>4. /\ m \in Message /\ m.from = "assistant" /\ m.key = 0 /\ m.status = "complete"
      /\ m.text = EditedText
  BY <1>1, <1>3, AsIs
<1>5. History = <<u, m>>
  <2> DEFINE l == createLoadingAssistantMessage(0)
             a == [l EXCEPT !.status = "complete"]
  <2>1. History = <<u, [a EXCEPT !.text = EditedText]>>
    BY DEF History
  <2> HIDE DEF l
  <2>2. l \in Message /\ m = As(l, "complete", EditedText)
    BY <1>3 DEF l
  <2>3. a \in Message /\ a.status = "complete" /\ a.from = l.from /\ a.key = l.key
    BY <2>2 DEF Message
  <2> HIDE DEF a
  <2>4. [a EXCEPT !.text = EditedText] = As(a, a.status, EditedText)
    BY <2>3 DEF As, Message
  <2>5. As(a, a.status, EditedText) = m
    BY <2>2, <2>3 DEF As
  <2> QED BY <2>1, <2>4, <2>5
<1> HIDE DEF u, m
<1>6. /\ History \in Seq(Message) /\ Len(History) = 2
      /\ History[1] = u /\ History[2] = m
      /\ \A i \in 1 .. Len(History) : i = 1 \/ i = 2
  BY <1>2, <1>4, <1>5
<1>7. MessageOK(u, g, cs, {}) /\ MessageOK(m, g, cs, {})
  BY <1>1, <1>2, <1>4 DEF MessageOK
<1>8. Id(u) # Id(m) /\ ~isAssistantMessagePending(u) /\ ~isAssistantMessagePending(m)
  BY <1>2, <1>4 DEF Id, isAssistantMessagePending
<1> QED BY <1>6, <1>7, <1>8 DEF ConversationOK, UniqueKeys, SettledButLast, Settled

\* The page is opened on a stored conversation.
LEMMA InvInit == Init => IInv
<1> SUFFICES ASSUME Init PROVE IInv
  OBVIOUS
<1>1. /\ page = "open" /\ stored = History /\ msgs = History /\ latest = History
      /\ queue = <<>> /\ saveTimer = FALSE
      /\ shown = FALSE /\ requesting = FALSE /\ streaming = FALSE
      /\ gen = 0 /\ pending = [gen |-> 0, text |-> <<>>] /\ flushTimer = NoGen
      /\ control = [gen |-> 0, source |-> NoGen] /\ editing = NoId
      /\ calls = [g \in Gens |-> NoCall] /\ snapshots \in BOOLEAN
      /\ finished = {} /\ stopped = {} /\ overwritten = {} /\ shortened = {}
  BY DEF Init
<1>2. 0 \in Gens /\ <<>> \in Text
  BY FixedTexts, PlaygroundAssumption DEF Gens
<1>3. GenInv
  BY GenInit
<1>4. PlainInv
  BY <1>1, <1>2 DEF PlainInv, NoId
<1>5. PageInv
  BY <1>1 DEF PageInv, NoId
<1>6. OK(History) /\ Settled(History, {})
  BY <1>1, HistoryIs DEF OK
<1>7. Coming = msgs
  BY <1>1, ComingIsShown
<1>8. QueueInv
  <2>1. queue \in Seq(Updater) /\ Len(queue) = 0
    BY <1>1
  <2> QED BY <1>1, <2>1 DEF QueueInv, EagerFirst
<1>9. ConvsInv
  BY <1>1, <1>6, <1>7 DEF ConvsInv, SameButLast
<1>10. ReplyInv
  <2>1. calls[gen].pc = "none"
    BY <1>1, <1>2 DEF NoCall
  <2>2. Len(<<>>) = 0 /\ MaxPieces \in Nat
    BY PlaygroundAssumption
  <2>3. \A k \in Gens : Parted(calls[k])
    BY <1>1, <1>2, <2>2 DEF NoCall, Parted
  <2> QED BY <1>1, <1>6, <1>7, <2>1, <2>3 DEF ReplyInv, Waiting
<1>11. WholeInv
  BY <1>1 DEF WholeInv, Whole
<1> QED BY <1>3, <1>4, <1>5, <1>8, <1>9, <1>10, <1>11 DEF IInv

\* Every step keeps the invariant.
LEMMA InvNext == IInv /\ [Next]_vars => IInv'
<1> SUFFICES ASSUME IInv, [Next]_vars PROVE IInv'
  OBVIOUS
<1>1. GenInv'
  BY GenNext DEF IInv
<1> QED BY <1>1, PageNext, ChatNext DEF IInv, ChatInv

\* The inductive invariant of the page: counter, controller and flags agree;
\* what waits in the queue is of the current generation; and the conversation
\* as shown, as it will be rendered, as persisted and as stored is the same but
\* for the reply being generated, which has what was sent before what waits to be
\* flushed (use-chat-handler.ts, use-stream-request.ts, storage.ts).
THEOREM ChatAccounting == Spec => []IInv
BY InvInit, InvNext, PTL DEF Spec

\* What the invariant says of one conversation.
LEMMA ConversationShown ==
    ASSUME NEW ms, NEW g, NEW cs, NEW cut, ConversationOK(ms, g, cs, cut)
    PROVE  Conversation(ms) /\ \A i, j \in DOMAIN ms : Id(ms[i]) = Id(ms[j]) => i = j
<1>1. /\ ms \in Seq(Message) /\ DOMAIN ms = 1 .. Len(ms)
      /\ \A i \in 1 .. Len(ms) : ms[i] \in Message
  BY ConversationIs DEF ConversationOK
<1>2. \A i \in 1 .. Len(ms) : Len(ms[i].text) <= MaxPieces
  BY DEF ConversationOK, MessageOK
<1>3. Conversation(ms)
  BY <1>1, <1>2, MessageIs DEF Conversation, Statuses
<1> QED BY <1>1, <1>3 DEF ConversationOK, UniqueKeys

\* What waits to be flushed is no longer than what was sent.
LEMMA WaitingIsShort ==
    ASSUME IInv
    PROVE  Len(pending.text) <= MaxPieces
<1> DEFINE s == calls[gen].sent
           b == Len(pending.text)
<1>1. /\ gen \in Gens /\ pending.text \in Text /\ Parted(calls[gen])
      /\ MaxPieces \in Nat
  BY FlagFacts, PlaygroundAssumption
<1>2. Len(s) \in Nat /\ Len(s) <= MaxPieces /\ b \in Nat
  BY <1>1, TextIs DEF Parted
<1>3. CASE pending.text = <<>>
  <2>1. b = 0
    BY <1>1, <1>3, TextIs
  <2> QED BY <1>1, <2>1
<1>4. CASE pending.text # <<>>
  <2>1. requesting
    BY <1>4, FlagFacts DEF IInv, PageInv
  <2>2. /\ Arriving(Last(msgs), calls[gen], pending.text, snapshots)
        /\ Waiting(calls[gen], pending.text, snapshots)
    BY <2>1 DEF IInv, ReplyInv
  <2>3. CASE snapshots
    BY <1>2, <1>4, <2>2, <2>3 DEF Waiting
  <2>4. CASE ~snapshots
    <3>1. PICK k \in 0 .. Len(s) : Within(pending.text, s, k, Len(s))
      BY <2>2, <2>4 DEF Arriving
    <3>2. k \in Nat /\ b <= Len(s) - k
      BY <1>2, <3>1 DEF Within
    <3> DEFINE n == Len(s)
    <3> HIDE DEF b, n
    <3>3. k \in Nat /\ n \in Nat /\ b \in Nat /\ b <= n - k /\ n <= MaxPieces
      BY <1>2, <3>2 DEF n
    <3>4. b <= MaxPieces
      BY <1>1, <3>3
    <3> QED BY <3>4 DEF b
  <2> QED BY <2>3, <2>4
<1> QED BY <1>3, <1>4

\* Every variable of the page keeps its type, no text grows past what a reply
\* has, and no two messages, as rendered, persisted or stored, share a key.
THEOREM TypeCorrect == Spec => []TypeOK
<1>1. ASSUME IInv PROVE TypeOK
  <2>1. ControlInv /\ FlagInv /\ PlainInv
    BY <1>1 DEF IInv, GenInv
  <2>2. gen \in Gens /\ control.gen \in Gens /\ calls \in [Gens -> Call]
        /\ acts \in 0 .. MaxActs
    BY <2>1, GenTypes DEF ControlInv
  <2>3. ASSUME NEW ms \in {msgs, latest, stored}
        PROVE  /\ Conversation(ms)
               /\ \A i, j \in DOMAIN ms : Id(ms[i]) = Id(ms[j]) => i = j
    <3>1. ConversationOK(ms, gen, Told, overwritten)
      BY <1>1 DEF IInv, ConvsInv, OK
    <3> QED BY <3>1, ConversationShown
  <2>4. pending.gen \in Gens /\ Len(pending.text) <= MaxPieces
    BY <1>1, <2>1, WaitingIsShort DEF PlainInv
  <2> QED BY <2>1, <2>2, <2>3, <2>4 DEF TypeOK, PlainInv, FlagInv
<1> QED BY <1>1, ChatAccounting, PTL

\* The page says it is generating exactly while a request of its generation may
\* still bring something or hangs, its connection closed without [DONE] and no
\* handler told (isGenerating of use-chat-handler.ts against the calls of
\* use-stream-request.ts).
THEOREM GenerationIsShown == Spec => []GeneratingIffLive
<1>1. IInv => GeneratingIffLive
  <2> SUFFICES ASSUME GenInv
               PROVE  requesting \/ streaming <=> \E g \in Gens : Live(g) \/ Hanging(g)
    BY DEF GeneratingIffLive, IInv
  <2>1. gen \in Gens
    BY GenTypes DEF GenInv
  <2>2. \A g \in Gens : Live(g) \/ Hanging(g) => g = gen
    BY DEF Live, Hanging
  <2>3. isCurrent(gen) => Live(gen) \/ Hanging(gen)
    BY DEF Live, Hanging, isCurrent
  <2> QED BY <2>1, <2>2, <2>3 DEF GenInv, FlagInv, Awaited
<1> QED BY <1>1, ChatAccounting, PTL

\* Once nothing is generated and all is rendered, no message is left loading or
\* streaming, after a stop, an error, a reload or a visit elsewhere, unless an
\* edit was saved over updates that were not rendered (stopGeneration,
\* handleStreamError, sanitizeMessagesOnLoad).
THEOREM NothingLeftPending == Spec => []NothingPendingAtRest
<1>1. ASSUME IInv PROVE NothingPendingAtRest
  <2> SUFFICES ASSUME queue = <<>>, ~requesting, NEW i \in DOMAIN msgs,
                      isAssistantMessagePending(msgs[i])
               PROVE  msgs[i].key \in overwritten
    BY DEF NothingPendingAtRest
  <2>1. Settled(msgs, overwritten)
    BY <1>1, FlagFacts DEF IInv, ReplyInv
  <2>2. i \in 1 .. Len(msgs)
    BY <1>1, ConvFacts, ConversationIs
  <2> QED BY <2>1, <2>2 DEF Settled
<1> QED BY <1>1, ChatAccounting, PTL

\* A message of a conversation shown or stored, and what was sent for it.
LEMMA ShownMessage ==
    ASSUME IInv, NEW ms \in {msgs, stored}, NEW i \in DOMAIN ms
    PROVE  /\ ms[i] \in Message /\ ms[i].key \in Gens /\ ms[i].text \in Text
           /\ \/ ms[i].from = "user" \/ ms[i].text \in {EditedText, ErrorText}
              \/ Copied(ms[i].text, Told[ms[i].key], ms[i].key, overwritten)
<1>1. ConversationOK(ms, gen, Told, overwritten)
  BY DEF IInv, ConvsInv, OK
<1>2. i \in 1 .. Len(ms) /\ ms[i] \in Message
  BY <1>1, ConversationIs DEF ConversationOK
<1>3. MessageOK(ms[i], gen, Told, overwritten)
  BY <1>1, <1>2 DEF ConversationOK
<1> QED BY <1>2, <1>3, MessageIs DEF MessageOK

\* A text found within another has its pieces in the same order.
LEMMA WithinIsInOrder ==
    ASSUME NEW t \in Text, NEW s \in Text, Within(t, s, 0, Len(s))
    PROVE  InOrder(t, s)
<1>1. PICK f : Places(f, t, s, 0, Len(s))
  BY DEF Within
<1>2. /\ DOMAIN t = 1 .. Len(t) /\ DOMAIN s = 1 .. Len(s)
      /\ Len(t) \in Nat /\ Len(s) \in Nat
  BY TextIs
<1> DEFINE h == [i \in DOMAIN t |-> f[i]]
<1>3. \A i \in DOMAIN t : h[i] = f[i] /\ f[i] \in DOMAIN s
  BY <1>1, <1>2 DEF Places
<1>4. h \in [DOMAIN t -> DOMAIN s]
  BY <1>3
<1>5. /\ \A i, j \in DOMAIN t : i < j => h[i] < h[j]
      /\ \A i \in DOMAIN t : t[i] = s[h[i]]
  BY <1>1, <1>2, <1>3 DEF Places
<1> HIDE DEF h
<1> QED BY <1>4, <1>5 DEF InOrder

\* Whatever happens to a reply, what it has is of its own generation, in the
\* order in which it was sent and not twice: parts taken for snapshots, edits,
\* stops and the shortening on load only leave something out
\* (mergePendingStreamChunk, applyStreamingChunk, normalizeStoredMessageForLoad).
THEOREM ReplyKeepsOrder == Spec => []ReplyInOrder
<1>1. ASSUME IInv PROVE ReplyInOrder
  <2> SUFFICES ASSUME NEW ms \in {msgs, stored}, NEW i \in DOMAIN ms,
                      ~(ms[i].from = "user" \/ ms[i].text \in {EditedText, ErrorText})
               PROVE  InOrder(Unmarked(ms[i].text), calls[ms[i].key].sent)
    BY DEF ReplyInOrder
  <2> DEFINE t == ms[i].text
             k == ms[i].key
             s == calls[k].sent
  <2>1. t \in Text /\ k \in Gens /\ Copied(t, Told[k], k, overwritten)
    BY <1>1, ShownMessage
  <2> HIDE DEF t, k
  <2>2. s \in Text /\ Told[k].sent = s
    BY <1>1, <2>1, FlagFacts, ToldIs
  <2> HIDE DEF s
  <2>3. Within(Unmarked(t), s, 0, Len(s))
    BY <2>1, <2>2 DEF Copied
  <2>4. Unmarked(t) \in Text
    BY <2>1, UnmarkedIs
  <2>5. InOrder(Unmarked(t), s)
    BY <2>2, <2>3, <2>4, WithinIsInOrder
  <2> QED BY <2>5 DEF t, k, s
<1> QED BY <1>1, ChatAccounting, PTL

\* The text of a reply, rendered or stored, is the beginning of what was sent
\* for it, whatever was interleaved, stopped, edited or loaded before, unless its
\* parts can be taken for snapshots, the limits of the storage shortened it or an
\* edit was saved over it (mergePendingStreamChunk, applyStreamingChunk, the
\* generation checks and loadMessages).
THEOREM ReplyIsSent == Spec => []ReplyIsPrefix
<1>1. ASSUME IInv PROVE ReplyIsPrefix
  <2> SUFFICES ASSUME NEW ms \in {msgs, stored}, NEW i \in DOMAIN ms
               PROVE  \/ ms[i].from = "user" \/ ms[i].text \in {EditedText, ErrorText}
                      \/ ms[i].key \in overwritten \cup shortened
                      \/ Ambiguous(ms[i].key)
                      \/ IsPrefix(ms[i].text, calls[ms[i].key].sent)
    BY DEF ReplyIsPrefix
  <2>1. /\ ms[i].key \in Gens
        /\ \/ ms[i].from = "user" \/ ms[i].text \in {EditedText, ErrorText}
           \/ Copied(ms[i].text, Told[ms[i].key], ms[i].key, overwritten)
    BY <1>1, ShownMessage
  <2> QED BY <2>1, ToldIs DEF Copied, Ambiguous
<1> QED BY <1>1, ChatAccounting, PTL

\* A reply that was answered in full and not cut short is complete and whole once
\* rendered, and still is after the page was left and opened again; one whose
\* parts can be taken for snapshots, or that was shortened on load, still has its
\* end, or the mark of truncateText (handleStreamComplete,
\* handleSendNonStreaming, saveMessages, loadMessages).
THEOREM FinishedIsWhole == Spec => []FinishedReplyIsWhole
<1>1. ASSUME IInv PROVE FinishedReplyIsWhole
  <2> SUFFICES ASSUME queue = <<>>, NEW i \in DOMAIN msgs, msgs[i].from = "assistant",
                      msgs[i].key \in finished \ overwritten
               PROVE  /\ msgs[i].status = "complete"
                      /\ \/ msgs[i].text = EditedText
                         \/ IF msgs[i].key \in shortened \/ Ambiguous(msgs[i].key)
                            THEN EndIsKept(msgs[i].text, calls[msgs[i].key].sent)
                            ELSE msgs[i].text = calls[msgs[i].key].sent
    BY DEF FinishedReplyIsWhole
  <2>1. Whole(msgs, finished \ overwritten, Told)
    BY <1>1, FlagFacts DEF IInv, WholeInv
  <2>2. i \in 1 .. Len(msgs) /\ msgs[i].key \in Gens
    BY <1>1, ConvFacts, ConversationIs, MessageIs
  <2>3. WholeMessage(msgs[i], Told)
    BY <2>1, <2>2 DEF Whole
  <2> QED BY <2>2, <2>3, ToldIs DEF WholeMessage, Ambiguous
<1> QED BY <1>1, ChatAccounting, PTL

\* A step leaves the replies of stopped generations as they are.
LEMMA StoppedStays ==
    ASSUME IInv, [Next]_vars, page = "open", page' = "open",
           NEW i \in DOMAIN msgs, NEW j \in DOMAIN msgs',
           msgs[i].from = "assistant", Id(msgs[i]) = Id(msgs'[j]),
           msgs[i].key \in stopped
    PROVE  /\ msgs'[j].status = msgs[i].status
           /\ msgs'[j].text \in {msgs[i].text, EditedText}
<1>1. IInv' /\ Kept(msgs, msgs', gen)
  BY InvNext, ChatNext
<1>2. msgs' \in Seq(Message)
  BY <1>1 DEF IInv, ConvsInv, OK, ConversationOK
<1>3. /\ msgs \in Seq(Message) /\ UniqueKeys(msgs) /\ gen \in Nat
      /\ stopped \subseteq 0 .. gen - 1
  BY ConvFacts, FlagFacts DEF IInv, PageInv
<1>4. i \in 1 .. Len(msgs) /\ j \in 1 .. Len(msgs')
  BY <1>2, <1>3, ConversationIs
<1>5. msgs[i].key < gen
  <2> DEFINE k == msgs[i].key
  <2> HIDE DEF k
  <2>1. k \in stopped
    BY DEF k
  <2>2. k \in 0 .. gen - 1
    BY <1>3, <2>1
  <2>3. k < gen
    BY <1>3, <2>2
  <2> QED BY <2>3 DEF k
<1>6. msgs'[j].from = "assistant" /\ msgs'[j].key < gen
  BY <1>5 DEF Id
<1>7. PICK k \in 1 .. Len(msgs) :
        /\ Id(msgs[k]) = Id(msgs'[j]) /\ msgs'[j].status = msgs[k].status
        /\ msgs'[j].text \in {msgs[k].text, EditedText}
  BY <1>1, <1>4, <1>6 DEF Kept
<1>8. k = i
  BY <1>3, <1>4, <1>7 DEF UniqueKeys
<1> QED BY <1>7, <1>8

\* A reply the user stopped does not change any more, whatever still arrives
\* for it: only an edit changes it (stopGeneration against late chunks,
\* completions, errors and answers).
THEOREM StoppedStaysFrozen == Spec => StoppedReplyIsFrozen
<1>1. IInv /\ [Next]_vars =>
        [page = "open" /\ page' = "open" =>
           \A i \in DOMAIN msgs, j \in DOMAIN msgs' :
              (/\ msgs[i].from = "assistant" /\ Id(msgs[i]) = Id(msgs'[j])
               /\ msgs[i].key \in stopped) =>
                 /\ msgs'[j].status = msgs[i].status
                 /\ msgs'[j].text \in {msgs[i].text, EditedText}]_vars
  BY StoppedStays
<1> QED BY <1>1, ChatAccounting, PTL DEF Spec, StoppedReplyIsFrozen
=============================================================================
