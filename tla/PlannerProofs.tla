---------------------------- MODULE PlannerProofs ----------------------------
(***************************************************************************)
(* Proofs about planner.c, st_prep_buffer and the overrides, holds and     *)
(* resets that make the plan anew, for every size of the ring, every set   *)
(* of rates, lengths and junction speeds, and every override step.         *)
(*                                                                         *)
(* The queue is reasoned about by number, from the tail on: At(B, t, k) is *)
(* the k-th block of the ring B from slot t.  The passes of the planner    *)
(* are recursions over these numbers; what they compute is proved by the   *)
(* well-foundedness of <, as Upwards and Downwards.                        *)
(*                                                                         *)
(* The invariant has two parts.  SafeInv holds whatever the overrides do:  *)
(* types, the pointers of the ring, what the states have to do with the    *)
(* stepper, and that the machine can always stop at the end of the queue.  *)
(* PlanningInv says what the plan is while no override has been lowered.   *)
(***************************************************************************)
EXTENDS Planner, TLAPS, WellFoundedInduction

BlockType == [kind : {"feed", "fixed", "rapid"}, rate : Nat, mm : Nat,
              entry : Nat, max_entry : Nat, max_junction : Nat]

-----------------------------------------------------------------------------
(* Induction over numbers, and the recursions of the passes.               *)

(* Induction up to N, and down from it.                                    *)
LEMMA LeastNumber ==
  ASSUME NEW S \in SUBSET Nat, S # {}
  PROVE  \E n \in S : \A m \in S : n <= m
<1> DEFINE R == {p \in Nat \X Nat : p[1] < p[2]}
<1>1. IsWellFoundedOn(R, Nat)
  BY NatLessThanWellFounded, Zenon DEF OpToRel
<1>2. PICK n \in S : \A m \in S : ~(<<m, n>> \in R)
  BY <1>1, WFMin, Zenon
<1>3. ASSUME NEW m \in S PROVE n <= m
  <2>1. SUFFICES ASSUME m < n PROVE FALSE
    OBVIOUS
  <2>2. <<m, n>> \in Nat \X Nat /\ <<m, n>>[1] = m /\ <<m, n>>[2] = n
    OBVIOUS
  <2>3. <<m, n>> \in R
    BY <2>1, <2>2
  <2> QED
    BY <1>2, <2>3
<1> QED
  BY <1>3

(* What holds of 0 and of the successor of what it holds of, holds up to N:*)
(* the induction behind every statement about a pass, a queue or its       *)
(* distances.                                                              *)
LEMMA Upwards ==
  ASSUME NEW N \in Nat, NEW S, 0 \in S, \A n \in 0..N - 1 : n \in S => n + 1 \in S
  PROVE  0..N \subseteq S
<1> DEFINE D == {n \in 0..N : n \notin S}
<1> SUFFICES ASSUME D # {} PROVE FALSE
  OBVIOUS
<1>1. D \in SUBSET Nat
  OBVIOUS
<1>2. PICK n \in D : \A m \in D : n <= m
  BY <1>1, LeastNumber, Zenon
<1>3. n \in 1..N /\ n - 1 \in 0..N - 1 /\ n \notin S
  BY <1>2
<1>4. n - 1 \in S
  BY <1>2, <1>3
<1>5. (n - 1) + 1 \in S
  BY <1>3, <1>4
<1> QED
  BY <1>3, <1>5

(* The same down from N, for the reverse pass and the distances to the end.*)
LEMMA Downwards ==
  ASSUME NEW N \in Nat, NEW S, N \in S, \A n \in 0..N - 1 : n + 1 \in S => n \in S
  PROVE  0..N \subseteq S
<1> DEFINE D == {n \in 0..N : N - n \in S}
<1>1. \A n \in 0..N - 1 : n \in D => n + 1 \in D
  <2> TAKE n \in 0..N - 1
  <2>1. /\ N - n \in 0..N /\ N - (n + 1) \in 0..N - 1 /\ (N - (n + 1)) + 1 = N - n
        /\ n + 1 \in 0..N
    OBVIOUS
  <2> QED
    BY <2>1
<1>2. 0 \in D
  OBVIOUS
<1> HIDE DEF D
<1>3. 0..N \subseteq D
  BY <1>1, <1>2, Upwards, Zenon
<1> USE DEF D
<1>4. ASSUME NEW n \in 0..N PROVE n \in S
  <2>1. N - n \in 0..N /\ N - (N - n) = n
    OBVIOUS
  <2> QED
    BY <1>3, <2>1
<1> QED
  BY <1>4

(* The recursion of the reverse pass has a solution, with speeds that are  *)
(* numbers: planner_recalculate, from the last block back to the planned   *)
(* one.                                                                    *)
LEMMA ReverseDefined ==
  ASSUME NEW m \in 0..Size - 1, NEW B \in [Index -> BlockType], NEW planned \in Index
  PROVE  LET at(k) == B[Ahead(planned, k)]
             rev == ReversePass(B, planned, m)
         IN  /\ rev \in [0..m -> Nat]
             /\ \A k \in 0..m : rev[k] =
                  IF k = 0 \/ (k < m /\ at(k).entry = at(k).max_entry) THEN at(k).entry
                  ELSE Min2(at(k).max_entry, at(k).mm + (IF k = m THEN 0 ELSE rev[k + 1]))
<1> USE PlannerAssumption
<1> DEFINE at(k) == B[Ahead(planned, k)]
           rev == ReversePass(B, planned, m)
           Body(f, k) ==
             IF k = 0 \/ (k < m /\ at(k).entry = at(k).max_entry) THEN at(k).entry
             ELSE Min2(at(k).max_entry, at(k).mm + (IF k = m THEN 0 ELSE f[k + 1]))
           P(n, f) == f \in [0..m -> Nat] /\ \A k \in n..m : f[k] = Body(f, k)
           S == {n \in 0..m : \E f : P(n, f)}
<1>1. \A k \in 0..m : at(k) \in BlockType
  BY DEF Ahead, Index
<1>2. \A k \in 0..m : at(k).entry \in Nat /\ at(k).max_entry \in Nat /\ at(k).mm \in Nat
  BY <1>1 DEF BlockType
<1> HIDE DEF at
<1>3. ASSUME NEW f \in [0..m -> Nat], NEW k \in 0..m PROVE Body(f, k) \in Nat
  <2>1. k < m => f[k + 1] \in Nat
    OBVIOUS
  <2> QED
    BY <1>2, <2>1 DEF Min2
<1>4. ASSUME NEW f, NEW g, NEW k \in 0..m, k < m => f[k + 1] = g[k + 1]
      PROVE  Body(f, k) = Body(g, k)
  BY <1>4
<1> HIDE DEF Body
<1>5. m \in S
  <2> DEFINE f == [k \in 0..m |-> 0]
             g == [k \in 0..m |-> Body(f, k)]
  <2>1. f \in [0..m -> Nat]
    OBVIOUS
  <2> HIDE DEF f
  <2>2. g \in [0..m -> Nat]
    BY <1>3, <2>1
  <2>3. g[m] = Body(f, m)
    OBVIOUS
  <2> HIDE DEF g
  <2>4. P(m, g)
    BY <1>4, <2>2, <2>3
  <2> QED BY <2>4
<1>6. ASSUME NEW n \in 0..m - 1, n + 1 \in S PROVE n \in S
  <2>1. PICK f : P(n + 1, f)
    BY <1>6
  <2> DEFINE g == [f EXCEPT ![n] = Body(f, n)]
  <2>2. n \in 0..m /\ Body(f, n) \in Nat
    BY <1>3, <2>1
  <2>3. g \in [0..m -> Nat] /\ g[n] = Body(f, n) /\ \A k \in n + 1..m : g[k] = f[k]
    BY <2>1, <2>2
  <2> HIDE DEF g
  <2>4. ASSUME NEW k \in n..m PROVE g[k] = Body(g, k)
    <3>1. k \in 0..m /\ (k < m => k + 1 \in n + 1..m)
      OBVIOUS
    <3>2. Body(g, k) = Body(f, k)
      BY <1>4, <2>3, <3>1
    <3> QED BY <2>1, <2>3, <3>2
  <2>5. P(n, g)
    BY <2>3, <2>4
  <2> QED BY <2>2, <2>5
<1> HIDE DEF S
<1>7. 0 \in S
  BY <1>5, <1>6, Downwards
<1>8. PICK f : P(0, f)
  BY <1>7 DEF S
<1>9. f = [k \in 0..m |-> Body(f, k)]
  BY <1>8
<1>10. rev = [k \in 0..m |-> Body(rev, k)]
  <2>1. \E h : h = [k \in 0..m |-> Body(h, k)]
    BY <1>9, Zenon
  <2>2. rev = CHOOSE h : h = [k \in 0..m |-> Body(h, k)]
    BY Zenon DEF ReversePass, Body, at
  <2> HIDE DEF rev
  <2> QED BY <2>1, <2>2, Zenon
<1> HIDE DEF rev
<1>11. rev = f
  <2> DEFINE T == {n \in 0..m : rev[n] = f[n]}
  <2>1. \A n \in 0..m : rev[n] = Body(rev, n) /\ f[n] = Body(f, n)
    BY <1>8, <1>10
  <2>2. m \in T
    BY <1>4, <2>1
  <2>3. ASSUME NEW n \in 0..m - 1, n + 1 \in T PROVE n \in T
    <3>1. n \in 0..m
      OBVIOUS
    <3> QED
      BY <1>4, <2>1, <2>3, <3>1
  <2> HIDE DEF T
  <2>4. 0..m \subseteq T
    BY <2>2, <2>3, Downwards
  <2>5. \A n \in 0..m : rev[n] = f[n]
    BY <2>4 DEF T
  <2> QED
    BY <1>8, <1>10, <2>5
<1>12. rev \in [0..m -> Nat] /\ \A k \in 0..m : rev[k] = Body(rev, k)
  BY <1>8, <1>11
<1> QED
  BY <1>12 DEF Body, at, rev

(* So has the recursion of the forward pass.                               *)
LEMMA ForwardDefined ==
  ASSUME NEW m \in 0..Size - 1, NEW B \in [Index -> BlockType], NEW planned \in Index,
         NEW rev \in [0..m -> Nat]
  PROVE  LET at(k) == B[Ahead(planned, k)]
             fwd == ForwardPass(B, planned, m, rev)
         IN  /\ fwd \in [0..m -> Nat]
             /\ \A k \in 0..m : fwd[k] =
                  IF k = 0 THEN rev[0] ELSE Min2(rev[k], fwd[k - 1] + at(k - 1).mm)
<1> USE PlannerAssumption
<1> DEFINE at(k) == B[Ahead(planned, k)]
           fwd == ForwardPass(B, planned, m, rev)
           Body(f, k) ==
             IF k = 0 THEN rev[0] ELSE Min2(rev[k], f[k - 1] + at(k - 1).mm)
           P(n, f) == f \in [0..m -> Nat] /\ \A k \in 0..n : f[k] = Body(f, k)
           S == {n \in 0..m : \E f : P(n, f)}
<1>0. m \in Nat
  OBVIOUS
<1>1. \A k \in 0..m : at(k) \in BlockType
  BY DEF Ahead, Index
<1>2. \A k \in 0..m : at(k).mm \in Nat
  BY <1>1 DEF BlockType
<1> HIDE DEF at
<1>3. ASSUME NEW f \in [0..m -> Nat], NEW k \in 0..m PROVE Body(f, k) \in Nat
  <2>1. k > 0 => f[k - 1] \in Nat /\ at(k - 1).mm \in Nat
    BY <1>2
  <2> QED
    BY <2>1, SMTT(30) DEF Min2
<1>4. ASSUME NEW f, NEW g, NEW k \in 0..m, k > 0 => f[k - 1] = g[k - 1]
      PROVE  Body(f, k) = Body(g, k)
  BY <1>4
<1> HIDE DEF Body
<1>5. 0 \in S
  <2> DEFINE f == [k \in 0..m |-> 0]
             g == [k \in 0..m |-> Body(f, k)]
  <2>1. f \in [0..m -> Nat]
    OBVIOUS
  <2> HIDE DEF f
  <2>2. g \in [0..m -> Nat]
    BY <1>3, <2>1
  <2>3. g[0] = Body(f, 0)
    OBVIOUS
  <2> HIDE DEF g
  <2>4. P(0, g)
    BY <1>4, <2>2, <2>3
  <2> QED BY <2>4
<1>6. ASSUME NEW n \in 0..m - 1, n \in S PROVE n + 1 \in S
  <2>1. PICK f : P(n, f)
    BY <1>6
  <2> DEFINE g == [f EXCEPT ![n + 1] = Body(f, n + 1)]
  <2>2. n + 1 \in 0..m /\ Body(f, n + 1) \in Nat
    BY <1>3, <2>1
  <2>3. g \in [0..m -> Nat] /\ g[n + 1] = Body(f, n + 1) /\ \A k \in 0..n : g[k] = f[k]
    BY <2>1, <2>2
  <2> HIDE DEF g
  <2>4. ASSUME NEW k \in 0..n + 1 PROVE g[k] = Body(g, k)
    <3>1. k \in 0..m /\ (k > 0 => k - 1 \in 0..n)
      OBVIOUS
    <3>2. Body(g, k) = Body(f, k)
      BY <1>4, <2>3, <3>1
    <3> QED BY <2>1, <2>3, <3>2
  <2>5. P(n + 1, g)
    BY <2>3, <2>4
  <2> QED BY <2>2, <2>5
<1> HIDE DEF S
<1>7. m \in S
  <2>1. 0..m \subseteq S
    BY <1>0, <1>5, <1>6, Upwards
  <2> QED
    BY <1>0, <2>1
<1>8. PICK f : P(m, f)
  BY <1>7 DEF S
<1>9. f = [k \in 0..m |-> Body(f, k)]
  BY <1>8
<1>10. fwd = [k \in 0..m |-> Body(fwd, k)]
  <2>1. \E h : h = [k \in 0..m |-> Body(h, k)]
    <3> WITNESS f
    <3> QED
      BY <1>9
  <2>2. fwd = CHOOSE h : h = [k \in 0..m |-> Body(h, k)]
    BY Zenon DEF ForwardPass, Body, at
  <2> HIDE DEF fwd
  <2> QED BY <2>1, <2>2, Zenon
<1> HIDE DEF fwd
<1>11. fwd = f
  <2> DEFINE T == {n \in 0..m : fwd[n] = f[n]}
  <2>1. \A n \in 0..m : fwd[n] = Body(fwd, n) /\ f[n] = Body(f, n)
    BY <1>8, <1>10
  <2>2. 0 \in T
    BY <1>4, <2>1
  <2>3. ASSUME NEW n \in 0..m - 1, n \in T PROVE n + 1 \in T
    <3>1. n + 1 \in 0..m /\ (n + 1) - 1 = n
      OBVIOUS
    <3>2. Body(fwd, n + 1) = Body(f, n + 1)
      BY <1>4, <2>3, <3>1
    <3> QED
      BY <2>1, <3>1, <3>2
  <2> HIDE DEF T
  <2>4. 0..m \subseteq T
    BY <1>0, <2>2, <2>3, Upwards
  <2>5. \A n \in 0..m : fwd[n] = f[n]
    BY <2>4 DEF T
  <2> QED
    BY <1>8, <1>10, <2>5
<1>12. fwd \in [0..m -> Nat] /\ \A k \in 0..m : fwd[k] = Body(fwd, k)
  BY <1>8, <1>11
<1> QED
  BY <1>12 DEF Body, at, fwd

-----------------------------------------------------------------------------
(* The two passes of planner_recalculate, over one stretch of blocks.      *)

(* What the two passes compute, over the m blocks that follow the planned  *)
(* one: e, x and d are their entry speeds, their maximum entry speeds and  *)
(* their lengths, r and f the results of the passes.                       *)
Reverse(m, e, x, d, r) ==
  \A k \in 0..m : r[k] =
    IF k = 0 \/ (k < m /\ e[k] = x[k]) THEN e[k]
    ELSE Min2(x[k], d[k] + (IF k = m THEN 0 ELSE r[k + 1]))

(* The forward pass.                                                       *)
Forward(m, d, r, f) ==
  \A k \in 0..m : f[k] = IF k = 0 THEN r[0] ELSE Min2(r[k], f[k - 1] + d[k - 1])

(* The speed after the k-th block: zero at the end of the queue.           *)
After(m, f, k) == IF k = m THEN 0 ELSE f[k + 1]

(* Both passes, and the types of what they are given.                      *)
Passes(m, e, x, d, r, f) ==
  /\ m \in Nat
  /\ e \in [0..m -> Nat] /\ x \in [0..m -> Nat] /\ d \in [0..m -> Nat]
  /\ r \in [0..m -> Nat] /\ f \in [0..m -> Nat]
  /\ Reverse(m, e, x, d, r) /\ Forward(m, d, r, f)

(* T is the distance from each block to the end, and every entry speed can *)
(* stop there.                                                             *)
ToEnd(m, e, d, T) ==
  T[m + 1] = 0 /\ \A k \in 0..m : T[k] = T[k + 1] + d[k] /\ e[k] <= T[k]

(* The plan f is right at k: the block can brake to the next, and is       *)
(* entered within its limit and as fast as its limit, the block before it  *)
(* or the block after it lets it be.                                       *)
Tight(m, x, d, f, k) ==
  /\ f[k] <= d[k] + After(m, f, k)
  /\ k > 0 => /\ f[k] <= x[k]
              /\ \/ f[k] = x[k] \/ f[k] = f[k - 1] + d[k - 1]
                 \/ f[k] = d[k] + After(m, f, k)

(* What the passes start from: blocks with a length, and a plan that brakes*)
(* in time and keeps its limits.                                           *)
Keeps(m, e, x, d) ==
  /\ \A k \in 0..m : d[k] > 0 /\ e[k] <= d[k] + After(m, e, k)
  /\ \A k \in 1..m : e[k] <= x[k]

(* The lesser of two numbers is one of them.                               *)
LEMMA Min2Law ==
  ASSUME NEW a \in Nat, NEW b \in Nat
  PROVE  /\ Min2(a, b) \in Nat /\ Min2(a, b) <= a /\ Min2(a, b) <= b
         /\ Min2(a, b) = a \/ Min2(a, b) = b
BY DEF Min2

(* The forward pass only lowers what the reverse pass has left, to what can*)
(* be accelerated to from the block before.                                *)
LEMMA ForwardLaw ==
  ASSUME NEW m \in Nat, NEW d \in [0..m -> Nat], NEW r \in [0..m -> Nat],
         NEW f \in [0..m -> Nat], Forward(m, d, r, f), NEW k \in 0..m
  PROVE  /\ f[k] <= r[k]
         /\ f[k] = r[k] \/ (k > 0 /\ f[k] < r[k] /\ f[k] = f[k - 1] + d[k - 1])
         /\ k > 0 => f[k] <= f[k - 1] + d[k - 1]
<1>1. r[k] \in Nat /\ f[k] \in Nat
  OBVIOUS
<1>2. CASE k = 0
  BY <1>1, <1>2 DEF Forward
<1>3. CASE k > 0
  <2>1. k - 1 \in 0..m
    BY <1>3
  <2>2. f[k - 1] \in Nat /\ d[k - 1] \in Nat
    BY <2>1
  <2>3. f[k] = Min2(r[k], f[k - 1] + d[k - 1])
    BY <1>3 DEF Forward
  <2> DEFINE y == f[k - 1] + d[k - 1]
  <2>4. y \in Nat /\ f[k] = IF r[k] < y THEN r[k] ELSE y
    BY <2>2, <2>3, SMTT(30) DEF Min2
  <2> HIDE DEF y
  <2>5. f[k] <= r[k] /\ (f[k] = r[k] \/ (f[k] < r[k] /\ f[k] = y)) /\ f[k] <= y
    BY <1>1, <2>4
  <2> QED
    BY <1>3, <2>5 DEF y
<1> QED
  BY <1>2, <1>3

(* If every block could stop at the end of the queue before the passes,    *)
(* every block can after them, however the limits have changed in between. *)
LEMMA PassesWithinReach ==
  ASSUME NEW m, NEW e, NEW x, NEW d, NEW r, NEW f, Passes(m, e, x, d, r, f),
         NEW T \in [0..m + 1 -> Nat], ToEnd(m, e, d, T)
  PROVE  \A k \in 0..m : f[k] <= T[k]
<1>typed. /\ m \in Nat
          /\ e \in [0..m -> Nat] /\ x \in [0..m -> Nat] /\ d \in [0..m -> Nat]
          /\ r \in [0..m -> Nat] /\ f \in [0..m -> Nat]
          /\ Reverse(m, e, x, d, r) /\ Forward(m, d, r, f)
  BY DEF Passes
<1> USE <1>typed
<1> DEFINE S == {k \in 0..m : r[k] <= T[k]}
<1>0. \A k \in 0..m : /\ e[k] \in Nat /\ x[k] \in Nat /\ d[k] \in Nat
                       /\ r[k] \in Nat /\ f[k] \in Nat
  OBVIOUS
<1>1. \A k \in 0..m : f[k] <= r[k]
  BY ForwardLaw
<1>2. m \in S
  <2>1. m \in 0..m /\ T[m] = d[m] /\ e[m] <= T[m]
    <3>1. m \in 0..m /\ d[m] \in Nat
      OBVIOUS
    <3> QED
      BY <3>1 DEF ToEnd
  <2>2. r[m] = IF m = 0 THEN e[m] ELSE Min2(x[m], d[m] + 0)
    BY <2>1 DEF Reverse
  <2>3. e[m] \in Nat /\ x[m] \in Nat /\ d[m] \in Nat /\ r[m] \in Nat
    BY <1>0, <2>1
  <2> QED
    BY <2>1, <2>2, <2>3 DEF Min2
<1>3. ASSUME NEW k \in 0..m - 1, k + 1 \in S PROVE k \in S
  <2>1. k \in 0..m /\ k + 1 \in 0..m /\ k # m
    OBVIOUS
  <2>2. r[k + 1] <= T[k + 1] /\ T[k] = T[k + 1] + d[k] /\ e[k] <= T[k]
    BY <1>3, <2>1 DEF ToEnd
  <2>3. r[k] = IF k = 0 \/ (k < m /\ e[k] = x[k]) THEN e[k]
               ELSE Min2(x[k], d[k] + r[k + 1])
    BY <2>1 DEF Reverse
  <2>4. /\ e[k] \in Nat /\ x[k] \in Nat /\ d[k] \in Nat /\ r[k] \in Nat
        /\ r[k + 1] \in Nat
    BY <1>0, <2>1
  <2>5. T[k] \in Nat /\ T[k + 1] \in Nat
    BY <2>1
  <2> QED
    <3> DEFINE ek == e[k]  xk == x[k]  dk == d[k]  rk == r[k]  rn == r[k + 1]
               tk == T[k]  tn == T[k + 1]
    <3>1. /\ ek \in Nat /\ xk \in Nat /\ dk \in Nat /\ rk \in Nat /\ rn \in Nat
          /\ tk \in Nat /\ tn \in Nat
      BY <2>4, <2>5
    <3>2. rn <= tn /\ tk = tn + dk /\ ek <= tk
      BY <2>2
    <3>3. rk = ek \/ rk = Min2(xk, dk + rn)
      BY <2>3
    <3>4. rk <= tk => k \in S
      BY <2>1
    <3> HIDE DEF ek, xk, dk, rk, rn, tk, tn, S
    <3>5. rk <= tk
      BY <3>1, <3>2, <3>3 DEF Min2
    <3> QED
      BY <3>4, <3>5
<1> HIDE DEF S
<1>4. 0..m \subseteq S
  BY <1>2, <1>3, Downwards
<1>5. ASSUME NEW k \in 0..m PROVE f[k] <= T[k]
  <2>1. r[k] <= T[k] /\ T[k] \in Nat
    BY <1>4 DEF S
  <2>2. f[k] <= r[k] /\ f[k] \in Nat /\ r[k] \in Nat
    BY <1>0, <1>1
  <2> DEFINE fk == f[k]  rk == r[k]  tk == T[k]
  <2>3. fk <= rk /\ rk <= tk /\ fk \in Nat /\ rk \in Nat /\ tk \in Nat
    BY <2>1, <2>2
  <2> HIDE DEF fk, rk, tk
  <2>4. fk <= tk
    BY <2>3
  <2> QED
    BY <2>4 DEF fk, tk
<1> QED
  BY <1>5

(* Over blocks that brake in time and keep their limits, the two passes    *)
(* leave a plan that is right at every block.                              *)
LEMMA PassesKeepPlan ==
  ASSUME NEW m, NEW e, NEW x, NEW d, NEW r, NEW f, Passes(m, e, x, d, r, f), Keeps(m, e, x, d)
  PROVE  \A k \in 0..m : Tight(m, x, d, f, k)
<1>typed. /\ m \in Nat
          /\ e \in [0..m -> Nat] /\ x \in [0..m -> Nat] /\ d \in [0..m -> Nat]
          /\ r \in [0..m -> Nat] /\ f \in [0..m -> Nat]
          /\ Reverse(m, e, x, d, r) /\ Forward(m, d, r, f)
  BY DEF Passes
<1> USE <1>typed
<1> DEFINE S == {k \in 0..m : e[k] <= r[k]}
<1>0. \A k \in 0..m : /\ e[k] \in Nat /\ x[k] \in Nat /\ d[k] \in Nat
                       /\ r[k] \in Nat /\ f[k] \in Nat
  OBVIOUS
<1>1. \A k \in 0..m : f[k] <= r[k]
  BY ForwardLaw
<1>2. m \in S
  <2>1. m \in 0..m /\ e[m] <= d[m] /\ (m > 0 => e[m] <= x[m])
    <3>1. m \in 0..m /\ (m > 0 => m \in 1..m) /\ After(m, e, m) = 0 /\ d[m] \in Nat
      BY DEF After
    <3>2. e[m] <= d[m] + 0
      BY <3>1 DEF Keeps
    <3> QED
      BY <3>1, <3>2 DEF Keeps
  <2>2. r[m] = IF m = 0 THEN e[m] ELSE Min2(x[m], d[m] + 0)
    BY <2>1 DEF Reverse
  <2>3. e[m] \in Nat /\ x[m] \in Nat /\ d[m] \in Nat /\ r[m] \in Nat
    BY <1>0, <2>1
  <2> QED
    BY <2>1, <2>2, <2>3 DEF Min2
<1>3. ASSUME NEW k \in 0..m - 1, k + 1 \in S PROVE k \in S
  <2>1. k \in 0..m /\ k + 1 \in 0..m /\ k # m
    OBVIOUS
  <2>2. r[k + 1] >= e[k + 1] /\ e[k] <= d[k] + e[k + 1] /\ (k > 0 => e[k] <= x[k])
    BY <1>3, <2>1 DEF After, Keeps
  <2>3. r[k] = IF k = 0 \/ (k < m /\ e[k] = x[k]) THEN e[k]
               ELSE Min2(x[k], d[k] + r[k + 1])
    BY <2>1 DEF Reverse
  <2>4. /\ e[k] \in Nat /\ x[k] \in Nat /\ d[k] \in Nat /\ r[k] \in Nat
        /\ r[k + 1] \in Nat /\ e[k + 1] \in Nat
    BY <1>0, <2>1
  <2> QED
    <3> DEFINE ek == e[k]  xk == x[k]  dk == d[k]  rk == r[k]  rn == r[k + 1]
               en == e[k + 1]
    <3>1. /\ ek \in Nat /\ xk \in Nat /\ dk \in Nat /\ rk \in Nat /\ rn \in Nat
          /\ en \in Nat
      BY <2>4
    <3>2. en <= rn /\ ek <= dk + en /\ (k > 0 => ek <= xk)
      BY <2>2
    <3>3. rk = IF k = 0 \/ (k < m /\ ek = xk) THEN ek ELSE Min2(xk, dk + rn)
      BY <2>3
    <3>4. ek <= rk => k \in S
      BY <2>1
    <3> HIDE DEF ek, xk, dk, rk, rn, en, S
    <3>5. ek <= rk
      BY <3>1, <3>2, <3>3 DEF Min2
    <3> QED
      BY <3>4, <3>5
<1> HIDE DEF S
<1>4. \A k \in 0..m : e[k] <= r[k]
  <2>1. 0..m \subseteq S
    BY <1>2, <1>3, Downwards
  <2> QED
    BY <2>1 DEF S
<1>5. f[0] = e[0]
  BY DEF Reverse, Forward
<1>6. ASSUME NEW k \in 0..m
      PROVE  /\ r[k] <= d[k] + After(m, r, k)
             /\ k > 0 => r[k] <= x[k] /\ (r[k] = x[k] \/ r[k] = d[k] + After(m, r, k))
  <2>1. r[k] = IF k = 0 \/ (k < m /\ e[k] = x[k]) THEN e[k]
               ELSE Min2(x[k], d[k] + After(m, r, k))
    BY DEF Reverse, After
  <2>2. /\ k < m => k + 1 \in 0..m /\ After(m, r, k) = r[k + 1] /\ After(m, e, k) = e[k + 1]
        /\ k = m => After(m, r, k) = 0 /\ After(m, e, k) = 0
    BY DEF After
  <2>3. After(m, r, k) \in Nat /\ After(m, e, k) <= After(m, r, k) /\ After(m, e, k) \in Nat
    BY <1>4, <2>2
  <2>4. e[k] <= d[k] + After(m, e, k) /\ (k > 0 => e[k] <= x[k])
    BY DEF Keeps
  <2>5. d[k] + After(m, r, k) \in Nat
    BY <1>0, <2>3, SMTT(30)
  <2>6. e[k] \in Nat /\ x[k] \in Nat /\ d[k] \in Nat /\ r[k] \in Nat
    BY <1>0
  <2> QED
    <3> DEFINE y == d[k] + After(m, r, k)
    <3>1. CASE k = 0 \/ (k < m /\ e[k] = x[k])
      <4>1. r[k] = e[k] /\ (k > 0 => e[k] = x[k])
        BY <2>1, <3>1
      <4> QED
        BY <2>3, <2>4, <2>6, <4>1, SMTT(30)
    <3>2. CASE ~(k = 0 \/ (k < m /\ e[k] = x[k]))
      <4>1. r[k] = Min2(x[k], y)
        BY <2>1, <3>2
      <4> HIDE DEF y
      <4>2. r[k] <= x[k] /\ r[k] <= y /\ (r[k] = x[k] \/ r[k] = y)
        BY <2>5, <2>6, <4>1, Min2Law DEF y
      <4> QED
        BY <4>2 DEF y
    <3> QED
      BY <3>1, <3>2
<1>7. ASSUME NEW k \in 0..m
      PROVE  f[k] = r[k] \/ (k > 0 /\ f[k] < r[k] /\ f[k] = f[k - 1] + d[k - 1])
  BY ForwardLaw, ZenonT(60)
<1>8. ASSUME NEW k \in 1..m PROVE f[k] <= f[k - 1] + d[k - 1]
  <2>1. k \in 0..m /\ k > 0
    OBVIOUS
  <2> QED
    BY <2>1, ForwardLaw
<1>9. ASSUME NEW k \in 0..m
      PROVE  /\ f[k] <= d[k] + After(m, f, k)
             /\ r[k] = d[k] + After(m, r, k) /\ f[k] = r[k] => f[k] = d[k] + After(m, f, k)
  <2>1. CASE k = m
    BY <1>0, <1>1, <1>6, <2>1 DEF After
  <2>2. CASE k < m
    <3>1. /\ k + 1 \in 0..m /\ k + 1 \in 1..m /\ (k + 1) - 1 = k
          /\ After(m, f, k) = f[k + 1] /\ After(m, r, k) = r[k + 1]
      BY <2>2 DEF After
    <3>2. f[k + 1] = r[k + 1] \/ (f[k + 1] < r[k + 1] /\ f[k + 1] = f[k] + d[k])
      BY <1>7, <3>1
    <3>3. f[k] <= r[k] /\ r[k] <= d[k] + r[k + 1] /\ d[k] > 0
      BY <1>1, <1>6, <3>1 DEF Keeps
    <3> QED
      <4>1. /\ d[k] \in Nat /\ r[k] \in Nat /\ f[k] \in Nat
            /\ r[k + 1] \in Nat /\ f[k + 1] \in Nat
        BY <1>0, <3>1
      <4>2. /\ f[k] <= d[k] + f[k + 1]
            /\ r[k] = d[k] + r[k + 1] /\ f[k] = r[k] => f[k] = d[k] + f[k + 1]
        <5> DEFINE dk == d[k]  rk == r[k]  fk == f[k]  rn == r[k + 1]  fn == f[k + 1]
        <5>1. /\ dk \in Nat /\ rk \in Nat /\ fk \in Nat /\ rn \in Nat /\ fn \in Nat
              /\ fk <= rk /\ rk <= dk + rn /\ dk > 0
              /\ fn = rn \/ (fn < rn /\ fn = fk + dk)
          BY <3>2, <3>3, <4>1
        <5> HIDE DEF dk, rk, fk, rn, fn
        <5>2. fk <= dk + fn /\ (rk = dk + rn /\ fk = rk => fk = dk + fn)
          BY <5>1
        <5> QED
          BY <5>2 DEF dk, rk, fk, rn, fn
      <4> QED
        BY <3>1, <4>2
  <2> QED
    BY <2>1, <2>2
<1>10. ASSUME NEW k \in 1..m
       PROVE  /\ f[k] <= x[k]
              /\ \/ f[k] = x[k] \/ f[k] = f[k - 1] + d[k - 1]
                 \/ f[k] = d[k] + After(m, f, k)
  <2>1. k \in 0..m /\ k > 0
    OBVIOUS
  <2>2. f[k] = r[k] \/ (f[k] < r[k] /\ f[k] = f[k - 1] + d[k - 1])
    BY <1>7, <2>1
  <2>3. r[k] <= x[k] /\ (r[k] = x[k] \/ r[k] = d[k] + After(m, r, k))
    BY <1>6, <2>1
  <2>4. r[k] = d[k] + After(m, r, k) /\ f[k] = r[k] => f[k] = d[k] + After(m, f, k)
    BY <1>9, <2>1
  <2> QED
    BY <2>1, <2>2, <2>3, <2>4, SMTT(30)
<1> QED
  <2> TAKE k \in 0..m
  <2>1. k > 0 => k \in 1..m
    OBVIOUS
  <2> QED
    BY <1>9, <1>10, <2>1 DEF Tight

-----------------------------------------------------------------------------
(* A queue, by the number of the block.                                    *)

(* The k-th block of a queue from t on, and what it holds.                 *)
At(B, t, k) == B[Ahead(t, k)]

(* The speed a queue of n blocks has where its k-th block ends, and at the  *)
(* start of the block before the k-th when it goes at s now.               *)
Out(B, t, n, k) == IF k = n - 1 THEN 0 ELSE At(B, t, k + 1).entry

Ahead1(B, t, s, k) == IF k = 1 THEN s ELSE At(B, t, k - 1).entry

Lengthy(B, t, n) == \A k \in 0..n - 1 : At(B, t, k).mm > 0

(* Every block, from the lo-th on, can brake to the speed it ends with, and *)
(* respects its own limit.                                                 *)
Brakes(B, t, n, lo) ==
  \A k \in lo..n - 1 :
    /\ At(B, t, k).entry <= At(B, t, k).mm + Out(B, t, n, k)
    /\ k > 0 => At(B, t, k).entry <= At(B, t, k).max_entry

(* T is the distance from each block to the end of the queue; the entry    *)
(* speeds from the lo-th block on can stop there.                          *)
Distance(B, t, n, T) ==
  T[n] = 0 /\ \A k \in 0..n - 1 : T[k] = T[k + 1] + At(B, t, k).mm

Within(B, t, n, lo, T) == \A k \in lo..n - 1 : At(B, t, k).entry <= T[k]

(* Up to the j-th block every entry speed can be accelerated to, and is as *)
(* fast as something allows: its own limit, the block before it or, but    *)
(* for the p-th block, the one after it.                                   *)
Follows(B, t, j, s) ==
  \A k \in 1..j : At(B, t, k).entry <= Ahead1(B, t, s, k) + At(B, t, k - 1).mm

Fastest(B, t, n, j, s, p) ==
  \A k \in 1..j :
    \/ At(B, t, k).entry = At(B, t, k).max_entry
    \/ At(B, t, k).entry = Ahead1(B, t, s, k) + At(B, t, k - 1).mm
    \/ k # p /\ At(B, t, k).entry = At(B, t, k).mm + Out(B, t, n, k)

(* E is the plan of such a queue from the q-th block on, p the breakpoint  *)
(* it leaves.                                                              *)
Plan(B, t, n, q, E, p) ==
  /\ \A k \in 0..q : E[k] = At(B, t, k).entry
  /\ p = q \/ E[p] = At(B, t, p).max_entry \/ E[p] = E[p - 1] + At(B, t, p - 1).mm
  /\ \A k \in q + 1..n - 1 : E[k] <= E[k - 1] + At(B, t, k - 1).mm
  /\ \A T \in [0..n -> Nat] :
       Distance(B, t, n, T) /\ Within(B, t, n, q, T) => \A k \in q..n - 1 : E[k] <= T[k]
  /\ Lengthy(B, t, n) /\ Brakes(B, t, n, q) =>
       /\ \A k \in q..n - 1 : E[k] <= At(B, t, k).mm + (IF k = n - 1 THEN 0 ELSE E[k + 1])
       /\ \A k \in q + 1..n - 1 :
            /\ E[k] <= At(B, t, k).max_entry
            /\ \/ E[k] = At(B, t, k).max_entry
               \/ E[k] = E[k - 1] + At(B, t, k - 1).mm
               \/ E[k] = At(B, t, k).mm + (IF k = n - 1 THEN 0 ELSE E[k + 1])

(* The buffer B with entry speeds E.                                       *)
WithEntries(B, t, n, E) ==
  [i \in Index |-> IF Span(t, i) < n THEN [B[i] EXCEPT !.entry = E[Span(t, i)]] ELSE B[i]]

(* Counting slots of the ring forward, and back: plan_next_block_index any *)
(* number of times.                                                        *)
LEMMA AheadLaw ==
  ASSUME NEW t \in Index, NEW k \in 0..Size - 1
  PROVE  /\ Ahead(t, k) \in Index /\ Span(t, Ahead(t, k)) = k
         /\ \A j \in 0..Size - 1 - k : Ahead(Ahead(t, k), j) = Ahead(t, k + j)
BY PlannerAssumption DEF Index, Ahead, Span

(* Every slot is some number of slots ahead of any other.                  *)
LEMMA SpanLaw ==
  ASSUME NEW t \in Index, NEW i \in Index
  PROVE  Span(t, i) \in 0..Size - 1 /\ Ahead(t, Span(t, i)) = i
BY PlannerAssumption DEF Index, Ahead, Span

(* The passes from the q-th block of a queue of n go over the n - 1 - q    *)
(* blocks behind it.                                                       *)
LEMMA PlannedSpan ==
  ASSUME NEW t \in Index, NEW n \in 1..Size - 1, NEW q \in 0..n - 1
  PROVE  /\ Span(Ahead(t, q), plan_prev_block_index(Ahead(t, n))) = n - 1 - q
         /\ \A i \in Index : /\ Span(Ahead(t, q), i) \in 1..n - 1 - q <=> Span(t, i) \in q + 1..n - 1
                             /\ Span(t, i) \in q + 1..n - 1 => Span(Ahead(t, q), i) = Span(t, i) - q
BY PlannerAssumption DEF Index, Ahead, Span, plan_prev_block_index

(* The greatest of a set of numbers is in it: the breakpoint planned is    *)
(* moved to is one.                                                        *)
LEMMA MaxInSet ==
  ASSUME NEW m \in Nat, NEW S \in SUBSET (1..m), S # {}
  PROVE  Max(S) \in S
<1> DEFINE D == {n \in 0..m : m - n \in S}
<1>1. D \in SUBSET Nat /\ D # {}
  <2>1. PICK s \in S : TRUE
    OBVIOUS
  <2>2. m - s \in 0..m /\ m - (m - s) = s
    OBVIOUS
  <2>3. m - s \in D
    BY <2>2
  <2>4. D \in SUBSET Nat
    OBVIOUS
  <2> HIDE DEF D
  <2> QED
    BY <2>3, <2>4
<1>2. PICK n \in D : \A k \in D : n <= k
  BY <1>1, LeastNumber, Zenon
<1>3. m - n \in S /\ n \in 0..m
  BY <1>2
<1>4. \A s \in S : m - n >= s
  <2> TAKE s \in S
  <2>1. m - s \in D
    <3>1. m - s \in 0..m /\ m - (m - s) = s
      OBVIOUS
    <3> QED
      BY <3>1
  <2>2. n <= m - s
    BY <1>2, <2>1
  <2> QED
    BY <1>3, <2>2
<1>5. \E z \in S : \A y \in S : z >= y
  BY <1>3, <1>4, Zenon
<1> QED
  BY <1>5, Zenon DEF Max

(* planner_recalculate makes both passes over the blocks from the planned  *)
(* one on.                                                                 *)
LEMMA PassesOfQueue ==
  ASSUME NEW B \in [Index -> BlockType], NEW t \in Index, NEW n \in 1..Size - 1,
         NEW q \in 0..n - 1
  PROVE  LET s == Ahead(t, q)
             m == n - 1 - q
             rev == ReversePass(B, s, m)
             fwd == ForwardPass(B, s, m, rev)
             e == [j \in 0..m |-> At(B, t, q + j).entry]
             x == [j \in 0..m |-> At(B, t, q + j).max_entry]
             d == [j \in 0..m |-> At(B, t, q + j).mm]
         IN  Passes(m, e, x, d, rev, fwd)
<1> DEFINE s == Ahead(t, q)
           m == n - 1 - q
           rev == ReversePass(B, s, m)
           fwd == ForwardPass(B, s, m, rev)
           e == [j \in 0..m |-> At(B, t, q + j).entry]
           x == [j \in 0..m |-> At(B, t, q + j).max_entry]
           d == [j \in 0..m |-> At(B, t, q + j).mm]
<1>1. s \in Index /\ m \in 0..Size - 1 /\ q \in 0..Size - 1 /\ m \in Nat
  BY AheadLaw, PlannerAssumption
<1>2. \A j \in 0..m : Ahead(s, j) = Ahead(t, q + j) /\ q + j \in 0..Size - 1
  <2>1. 0..m \subseteq 0..Size - 1 - q
    BY PlannerAssumption
  <2> QED
    BY <1>1, <2>1, AheadLaw, PlannerAssumption
<1> HIDE DEF s, m
<1>3. \A j \in 0..m : At(B, t, q + j) \in BlockType
  BY <1>2, AheadLaw DEF At
<1>4. \A j \in 0..m : /\ At(B, t, q + j).entry \in Nat /\ At(B, t, q + j).max_entry \in Nat
                      /\ At(B, t, q + j).mm \in Nat
  BY <1>3 DEF BlockType
<1>5. e \in [0..m -> Nat] /\ x \in [0..m -> Nat] /\ d \in [0..m -> Nat]
  BY <1>4
<1>6. \A j \in 0..m : /\ e[j] = B[Ahead(s, j)].entry /\ x[j] = B[Ahead(s, j)].max_entry
                      /\ d[j] = B[Ahead(s, j)].mm
  BY <1>2 DEF At
<1> HIDE DEF e, x, d
<1>7. /\ rev \in [0..m -> Nat]
      /\ \A k \in 0..m : rev[k] =
                  IF k = 0 \/ (k < m /\ B[Ahead(s, k)].entry = B[Ahead(s, k)].max_entry) THEN B[Ahead(s, k)].entry
                  ELSE Min2(B[Ahead(s, k)].max_entry, B[Ahead(s, k)].mm + (IF k = m THEN 0 ELSE rev[k + 1]))
  BY <1>1, ReverseDefined, ZenonT(60)
<1> HIDE DEF rev
<1>8. /\ fwd \in [0..m -> Nat]
      /\ \A k \in 0..m : fwd[k] =
           IF k = 0 THEN rev[0] ELSE Min2(rev[k], fwd[k - 1] + B[Ahead(s, k - 1)].mm)
  BY <1>1, <1>7, ForwardDefined, Zenon
<1> HIDE DEF fwd
<1>9. Reverse(m, e, x, d, rev)
  BY <1>6, <1>7, Zenon DEF Reverse
<1>10. Forward(m, d, rev, fwd)
  <2>1. \A k \in 0..m : k = 0 \/ k - 1 \in 0..m
    BY <1>1
  <2>2. ASSUME NEW k \in 0..m PROVE fwd[k] = IF k = 0 THEN rev[0] ELSE Min2(rev[k], fwd[k - 1] + d[k - 1])
    BY <1>6, <1>8, <2>1, Zenon
  <2> QED
    BY <2>2, Zenon DEF Forward
<1> QED
  BY <1>1, <1>5, <1>7, <1>8, <1>9, <1>10 DEF s, m, rev, fwd, e, x, d, Passes

(* What planner_recalculate makes of a queue: new entry speeds from the    *)
(* q-th block on, with a breakpoint p, that are a plan of it.              *)
LEMMA Replan ==
  ASSUME NEW B \in [Index -> BlockType], NEW t \in Index, NEW n \in 2..Size - 1,
         NEW q \in 0..n - 1
  PROVE  LET r == Replanned(B, Ahead(t, q), Ahead(t, n))
         IN  \E E \in [0..n - 1 -> Nat], p \in q..n - 1 :
               /\ r.planned = Ahead(t, p)
               /\ r.buffer = WithEntries(B, t, n, E)
               /\ Plan(B, t, n, q, E, p)
<1> USE PlannerAssumption
<1> DEFINE s == Ahead(t, q)
           m == n - 1 - q
           rev == ReversePass(B, s, m)
           fwd == ForwardPass(B, s, m, rev)
           e == [j \in 0..m |-> At(B, t, q + j).entry]
           x == [j \in 0..m |-> At(B, t, q + j).max_entry]
           d == [j \in 0..m |-> At(B, t, q + j).mm]
           stops == Breakpoints(B, s, m, rev, fwd)
           r == Replanned(B, s, Ahead(t, n))
           E == [k \in 0..n - 1 |-> IF k <= q THEN At(B, t, k).entry ELSE fwd[k - q]]
           p == IF stops = {} THEN q ELSE q + Max(stops)
<1>0. Passes(m, e, x, d, rev, fwd)
  <2>1. n \in 1..Size - 1
    OBVIOUS
  <2> QED
    BY <2>1, PassesOfQueue, Zenon
<1>1. /\ m \in Nat /\ rev \in [0..m -> Nat] /\ fwd \in [0..m -> Nat]
      /\ e \in [0..m -> Nat] /\ x \in [0..m -> Nat] /\ d \in [0..m -> Nat]
      /\ Reverse(m, e, x, d, rev) /\ Forward(m, d, rev, fwd)
  BY <1>0 DEF Passes
<1>2. m = Span(s, plan_prev_block_index(Ahead(t, n)))
  BY PlannedSpan
<1>3. r = [buffer |-> [i \in Index |->
                     IF Span(s, i) \in 1..m
                     THEN [B[i] EXCEPT !.entry = fwd[Span(s, i)]]
                     ELSE B[i]],
           planned |-> IF stops = {} THEN s ELSE Ahead(s, Max(stops))]
  <2> HIDE DEF s, m, rev, fwd, stops
  <2> QED
    BY <1>2, Zenon DEF Replanned, m, s, rev, fwd, stops
<1>4. \A k \in 0..n - 1 :
        /\ At(B, t, k) \in BlockType /\ Ahead(t, k) \in Index
        /\ At(B, t, k).entry \in Nat /\ At(B, t, k).max_entry \in Nat
        /\ At(B, t, k).mm \in Nat
  BY AheadLaw DEF At, BlockType
<1>5. \A k \in q..n - 1 :
        /\ k - q \in 0..m /\ q + (k - q) = k
        /\ e[k - q] = At(B, t, k).entry /\ x[k - q] = At(B, t, k).max_entry
        /\ d[k - q] = At(B, t, k).mm
  OBVIOUS
<1> HIDE DEF m, s, rev, fwd, e, x, d
<1>6. fwd[0] = At(B, t, q).entry
  <2>1. 0 \in 0..m /\ e[0] = At(B, t, q).entry
    BY <1>1, <1>5 DEF m
  <2>2. rev[0] = e[0] /\ fwd[0] = rev[0]
    BY <1>1, <2>1 DEF Reverse, Forward
  <2> QED
    BY <2>1, <2>2
<1>7. E \in [0..n - 1 -> Nat] /\ \A k \in q..n - 1 : E[k] = fwd[k - q]
  <2>1. \A k \in 0..n - 1 : k > q => k - q \in 0..m /\ fwd[k - q] \in Nat
    <3> TAKE k \in 0..n - 1
    <3> SUFFICES ASSUME k > q PROVE k - q \in 0..m /\ fwd[k - q] \in Nat
      OBVIOUS
    <3>1. k \in q..n - 1
      OBVIOUS
    <3>2. k - q \in 0..m
      BY <1>5, <3>1
    <3> QED
      BY <1>1, <3>2
  <2>2. E \in [0..n - 1 -> Nat]
    BY <1>4, <2>1
  <2>3. ASSUME NEW k \in q..n - 1 PROVE E[k] = fwd[k - q]
    <3>1. k \in 0..n - 1
      OBVIOUS
    <3>2. CASE k = q
      BY <1>6, <3>1, <3>2
    <3>3. CASE k > q
      BY <3>1, <3>3
    <3> QED
      BY <3>2, <3>3
  <2> QED
    BY <2>2, <2>3
<1>8. /\ p \in q..n - 1 /\ r.planned = Ahead(t, p)
      /\ stops # {} => Max(stops) \in stops /\ p = q + Max(stops) /\ Max(stops) \in 1..m
  <2>1. r.planned = IF stops = {} THEN s ELSE Ahead(s, Max(stops))
    <3> HIDE DEF r, stops
    <3> QED
      BY <1>3, Zenon
  <2>2. CASE stops = {}
    BY <2>1, <2>2 DEF s
  <2>3. CASE stops # {}
    <3>1. stops \in SUBSET (1..m)
      BY DEF Breakpoints
    <3>2. Max(stops) \in stops
      <4> HIDE DEF stops
      <4> QED
        BY <1>1, <2>3, <3>1, MaxInSet
    <3>3. Max(stops) \in 1..m
      BY <3>1, <3>2
    <3> DEFINE M == Max(stops)
    <3>4. M \in 1..m /\ m = n - 1 - q
      BY <3>3 DEF m
    <3> HIDE DEF M, stops
    <3>5. q + M \in q..n - 1 /\ M \in 0..Size - 1 - q /\ q \in 0..Size - 1
      BY <3>4
    <3>6. Ahead(s, M) = Ahead(t, q + M)
      BY <3>5, AheadLaw DEF s
    <3> QED
      BY <2>1, <2>3, <3>2, <3>4, <3>5, <3>6 DEF M
  <2> QED
    BY <2>2, <2>3
<1>9. r.buffer = WithEntries(B, t, n, E)
  <2>1. r.buffer = [i \in Index |-> IF Span(s, i) \in 1..m
                     THEN [B[i] EXCEPT !.entry = fwd[Span(s, i)]] ELSE B[i]]
    <3> HIDE DEF r, stops
    <3> QED
      BY <1>3, Zenon
  <2>2. ASSUME NEW i \in Index
        PROVE  (IF Span(s, i) \in 1..m
                THEN [B[i] EXCEPT !.entry = fwd[Span(s, i)]] ELSE B[i])
               = IF Span(t, i) < n THEN [B[i] EXCEPT !.entry = E[Span(t, i)]] ELSE B[i]
    <3> DEFINE k == Span(t, i)
    <3>1. k \in 0..Size - 1 /\ Ahead(t, k) = i
      BY SpanLaw
    <3>2. /\ Span(s, i) \in 1..m <=> k \in q + 1..n - 1
          /\ k \in q + 1..n - 1 => Span(s, i) = k - q
      <4>1. n \in 1..Size - 1
        OBVIOUS
      <4> HIDE DEF stops, r, E, p, k
      <4>2. /\ Span(Ahead(t, q), i) \in 1..n - 1 - q <=> Span(t, i) \in q + 1..n - 1
            /\ Span(t, i) \in q + 1..n - 1 => Span(Ahead(t, q), i) = Span(t, i) - q
        <5> HIDE PlannerAssumption
        <5> QED
          BY <4>1, PlannedSpan
      <4> QED
        BY <4>2, Zenon DEF s, m, k
    <3> HIDE DEF k, E
    <3>3. CASE k \in q + 1..n - 1
      <4>1. k \in q..n - 1 /\ k < n
        BY <3>3
      <4>2. E[k] = fwd[Span(s, i)]
        BY <1>7, <3>2, <3>3, <4>1
      <4> QED
        BY <3>2, <3>3, <4>1, <4>2 DEF k
    <3>4. CASE k \in 0..q
      <4>1. E[k] = At(B, t, k).entry /\ k < n /\ k \notin q + 1..n - 1
        BY <3>4 DEF E
      <4>2. E[k] = B[i].entry
        BY <3>1, <4>1 DEF At
      <4>3. B[i] \in BlockType
        OBVIOUS
      <4>4. [B[i] EXCEPT !.entry = E[k]] = B[i]
        BY <4>2, <4>3 DEF BlockType
      <4> QED
        BY <3>2, <4>1, <4>4 DEF k
    <3>5. CASE k >= n
      <4>1. k \notin q + 1..n - 1 /\ ~(k < n)
        BY <3>1, <3>5
      <4> QED
        BY <3>2, <4>1 DEF k
    <3> QED
      BY <3>1, <3>3, <3>4, <3>5
  <2> HIDE DEF E, r
  <2> QED
    BY <2>1, <2>2, Zenon DEF WithEntries
<1>10. p = q \/ E[p] = At(B, t, p).max_entry \/ E[p] = E[p - 1] + At(B, t, p - 1).mm
  <2> SUFFICES ASSUME stops # {} PROVE E[p] = At(B, t, p).max_entry \/ E[p] = E[p - 1] + At(B, t, p - 1).mm
    OBVIOUS
  <2> DEFINE M == Max(stops)
  <2>1. M \in stops /\ p = q + M /\ M \in 1..m
    BY <1>8
  <2>2. fwd[M] < rev[M] \/ fwd[M] = B[Ahead(s, M)].max_entry
    BY <2>1 DEF Breakpoints
  <2> HIDE DEF M, stops, p, E
  <2>3. p \in q..n - 1 /\ p - 1 \in q..n - 1 /\ p - q = M /\ (p - 1) - q = M - 1 /\ M \in 0..m
        /\ M > 0 /\ M \in 0..Size - 1 - q /\ q \in 0..Size - 1
    BY <2>1 DEF m
  <2>4. E[p] = fwd[M] /\ E[p - 1] = fwd[M - 1] /\ d[M - 1] = At(B, t, p - 1).mm
    BY <1>5, <1>7, <2>3
  <2>5. fwd[M] = rev[M] \/ (M > 0 /\ fwd[M] < rev[M] /\ fwd[M] = fwd[M - 1] + d[M - 1])
    <3>1. M \in 0..m
      BY <2>3
    <3> HIDE DEF r
    <3> HIDE PlannerAssumption
    <3> QED
      BY <1>1, <3>1, ForwardLaw, ZenonT(60)
  <2>6. Ahead(s, M) = Ahead(t, p)
    BY <2>1, <2>3, AheadLaw DEF s
  <2>7. CASE fwd[M] < rev[M]
    <3>1. fwd[M] # rev[M]
      <4>1. fwd[M] \in Nat /\ rev[M] \in Nat
        BY <1>1, <2>3
      <4> QED
        BY <2>7, <4>1
    <3> QED
      BY <2>4, <2>5, <3>1
  <2>8. CASE fwd[M] = B[Ahead(s, M)].max_entry
    BY <2>4, <2>6, <2>8 DEF At
  <2> QED
    BY <2>2, <2>7, <2>8
<1> HIDE DEF stops, p, E, r
<1>11. ASSUME NEW k \in q + 1..n - 1 PROVE E[k] <= E[k - 1] + At(B, t, k - 1).mm
  <2>1. k \in q..n - 1 /\ k - 1 \in q..n - 1 /\ (k - 1) - q = (k - q) - 1 /\ k - q \in 0..m /\ k - q > 0
    BY DEF m
  <2>2. E[k] = fwd[k - q] /\ E[k - 1] = fwd[(k - q) - 1] /\ d[(k - q) - 1] = At(B, t, k - 1).mm
    BY <1>5, <1>7, <2>1
  <2>3. fwd[k - q] <= fwd[(k - q) - 1] + d[(k - q) - 1]
    BY <1>1, <2>1, ForwardLaw
  <2> QED
    BY <2>2, <2>3
<1>12. ASSUME NEW T \in [0..n -> Nat], Distance(B, t, n, T), Within(B, t, n, q, T),
              NEW k \in q..n - 1
       PROVE  E[k] <= T[k]
  <2> DEFINE U == [j \in 0..m + 1 |-> T[q + j]]
  <2>1. \A j \in 0..m + 1 : q + j \in 0..n /\ (j <= m => q + j \in q..n - 1)
    BY DEF m
  <2>2. U \in [0..m + 1 -> Nat]
    BY <2>1
  <2>3. U[m + 1] = 0
    <3>1. m + 1 \in 0..m + 1 /\ q + (m + 1) = n
      BY <1>1 DEF m
    <3> QED
      BY <1>12, <3>1 DEF Distance
  <2>4. ASSUME NEW j \in 0..m PROVE U[j] = U[j + 1] + d[j] /\ e[j] <= U[j]
    <3>1. j \in 0..m + 1 /\ j + 1 \in 0..m + 1 /\ q + (j + 1) = (q + j) + 1 /\ q + j \in q..n - 1 /\ (q + j) - q = j
      BY <2>1, <1>1 DEF m
    <3>2. U[j] = T[q + j] /\ U[j + 1] = T[(q + j) + 1]
      BY <3>1
    <3> HIDE DEF U
    <3>3. d[j] = At(B, t, q + j).mm /\ e[j] = At(B, t, q + j).entry
      BY <1>5, <3>1
    <3>4. T[q + j] = T[(q + j) + 1] + At(B, t, q + j).mm /\ At(B, t, q + j).entry <= T[q + j]
      <4>1. q + j \in 0..n - 1
        BY <3>1
      <4> QED
        BY <1>12, <3>1, <4>1 DEF Distance, Within
    <3> QED
      BY <3>2, <3>3, <3>4
  <2> HIDE DEF U
  <2>5. ToEnd(m, e, d, U)
    BY <2>3, <2>4 DEF ToEnd
  <2>6. k - q \in 0..m /\ k - q \in 0..m + 1 /\ q + (k - q) = k
    BY <1>1 DEF m
  <2>7. fwd[k - q] <= U[k - q]
    BY <1>0, <2>2, <2>5, <2>6, PassesWithinReach
  <2>8. U[k - q] = T[k] /\ E[k] = fwd[k - q]
    BY <1>7, <2>6 DEF U
  <2> QED
    BY <2>7, <2>8
<1>13. ASSUME Lengthy(B, t, n), Brakes(B, t, n, q)
       PROVE  /\ \A k \in q..n - 1 : E[k] <= At(B, t, k).mm + (IF k = n - 1 THEN 0 ELSE E[k + 1])
              /\ \A k \in q + 1..n - 1 :
                   /\ E[k] <= At(B, t, k).max_entry
                   /\ \/ E[k] = At(B, t, k).max_entry
                      \/ E[k] = E[k - 1] + At(B, t, k - 1).mm
                      \/ E[k] = At(B, t, k).mm + (IF k = n - 1 THEN 0 ELSE E[k + 1])
  <2> DEFINE X(F, k) == IF k = n - 1 THEN 0 ELSE F[k + 1]
  <2>1. ASSUME NEW j \in 0..m
        PROVE  /\ q + j \in q..n - 1 /\ (q + j) - q = j
               /\ j = m => q + j = n - 1
               /\ j # m => /\ q + j # n - 1 /\ j + 1 \in 0..m
                          /\ (q + j) + 1 \in q..n - 1 /\ ((q + j) + 1) - q = j + 1
    BY <1>1 DEF m
  <2>2. ASSUME NEW j \in 0..m PROVE d[j] > 0 /\ e[j] <= d[j] + After(m, e, j)
    <3>1. d[j] = At(B, t, q + j).mm /\ e[j] = At(B, t, q + j).entry
      BY <1>5, <2>1
    <3>2. After(m, e, j) = IF q + j = n - 1 THEN 0 ELSE At(B, t, (q + j) + 1).entry
      <4>1. CASE j = m
        BY <2>1, <4>1 DEF After
      <4>2. CASE j # m
        <5>1. e[j + 1] = At(B, t, (q + j) + 1).entry
          BY <1>5, <2>1, <4>2
        <5> QED
          BY <2>1, <4>2, <5>1 DEF After
      <4> QED
        BY <4>1, <4>2
    <3>3. /\ At(B, t, q + j).mm > 0
          /\ At(B, t, q + j).entry <= At(B, t, q + j).mm
               + (IF q + j = n - 1 THEN 0 ELSE At(B, t, (q + j) + 1).entry)
      <4>1. q + j \in 0..n - 1
        BY <2>1
      <4> QED
        BY <1>13, <2>1, <4>1 DEF Brakes, Lengthy, Out
    <3> QED
      BY <3>1, <3>2, <3>3
  <2>3. ASSUME NEW j \in 1..m PROVE e[j] <= x[j]
    <3>1. j \in 0..m /\ q + j > 0
      BY <1>1
    <3>2. e[j] = At(B, t, q + j).entry /\ x[j] = At(B, t, q + j).max_entry
      BY <1>5, <2>1, <3>1
    <3>3. At(B, t, q + j).entry <= At(B, t, q + j).max_entry
      BY <1>13, <2>1, <3>1 DEF Brakes
    <3> QED
      BY <3>2, <3>3
  <2>4. Keeps(m, e, x, d)
    BY <2>2, <2>3 DEF Keeps
  <2>5. \A k \in 0..m : Tight(m, x, d, fwd, k)
    BY <1>0, <2>4, PassesKeepPlan, Zenon
  <2>6. ASSUME NEW k \in q..n - 1
        PROVE  /\ k - q \in 0..m /\ fwd[k - q] = E[k] /\ d[k - q] = At(B, t, k).mm
               /\ x[k - q] = At(B, t, k).max_entry
               /\ After(m, fwd, k - q) = X(E, k)
    <3>1. k - q \in 0..m /\ fwd[k - q] = E[k]
      BY <1>5, <1>7
    <3>2. CASE k = n - 1
      <4>1. k - q = m
        BY <3>2 DEF m
      <4> QED
        BY <1>5, <3>1, <3>2, <4>1 DEF After
    <3>3. CASE k # n - 1
      <4>1. k - q # m /\ k + 1 \in q..n - 1 /\ (k + 1) - q = (k - q) + 1
        BY <3>3 DEF m
      <4>2. E[k + 1] = fwd[(k - q) + 1]
        BY <1>7, <4>1
      <4> QED
        BY <1>5, <3>1, <3>3, <4>1, <4>2 DEF After
    <3> QED
      BY <3>2, <3>3
  <2>7. ASSUME NEW k \in q..n - 1 PROVE E[k] <= At(B, t, k).mm + X(E, k)
    BY <2>5, <2>6 DEF Tight
  <2>8. ASSUME NEW k \in q + 1..n - 1
        PROVE  /\ E[k] <= At(B, t, k).max_entry
               /\ \/ E[k] = At(B, t, k).max_entry
                  \/ E[k] = E[k - 1] + At(B, t, k - 1).mm
                  \/ E[k] = At(B, t, k).mm + X(E, k)
    <3>1. k \in q..n - 1 /\ k - 1 \in q..n - 1 /\ (k - 1) - q = (k - q) - 1 /\ k - q > 0
      OBVIOUS
    <3> DEFINE j == k - q
    <3>2. j \in 0..m /\ j > 0
      BY <2>6, <3>1
    <3>3. j \in 1..m
      BY <1>1, <3>2
    <3>4. /\ fwd[j] <= x[j]
          /\ \/ fwd[j] = x[j] \/ fwd[j] = fwd[j - 1] + d[j - 1]
             \/ fwd[j] = d[j] + After(m, fwd, j)
      BY <2>5, <3>2, <3>3 DEF Tight
    <3>5. /\ fwd[j] = E[k] /\ d[j] = At(B, t, k).mm /\ x[j] = At(B, t, k).max_entry
          /\ After(m, fwd, j) = X(E, k)
      BY <2>6, <3>1
    <3>6. fwd[j - 1] = E[k - 1] /\ d[j - 1] = At(B, t, k - 1).mm
      BY <2>6, <3>1
    <3> HIDE DEF j, X
    <3> QED
      BY <3>4, <3>5, <3>6
  <2> QED
    BY <2>7, <2>8
<1>14. Plan(B, t, n, q, E, p)
  <2> HIDE DEF E, p
  <2>1. \A k \in 0..q : E[k] = At(B, t, k).entry
    BY <1>4 DEF E
  <2> QED
    BY <1>10, <1>11, <1>12, <1>13, <2>1, Zenon DEF Plan
<1> QED
  <2>1. /\ Replanned(B, Ahead(t, q), Ahead(t, n)).planned = Ahead(t, p)
        /\ Replanned(B, Ahead(t, q), Ahead(t, n)).buffer = WithEntries(B, t, n, E)
    BY <1>8, <1>9, Zenon DEF r, s
  <2> QED
    BY <1>7, <1>8, <1>14, <2>1, Zenon

(* Setting entry speeds changes nothing else of the blocks of the queue,   *)
(* and no slot outside it.                                                 *)
LEMMA EntriesSet ==
  ASSUME NEW B \in [Index -> BlockType], NEW t \in Index, NEW n \in 1..Size - 1,
         NEW E \in [0..n - 1 -> Nat]
  PROVE  LET W == WithEntries(B, t, n, E)
         IN  /\ W \in [Index -> BlockType]
             /\ \A k \in 0..n - 1 : At(W, t, k) = [At(B, t, k) EXCEPT !.entry = E[k]]
             /\ \A i \in Index : Span(t, i) >= n => W[i] = B[i]
<1> USE PlannerAssumption
<1> DEFINE W == WithEntries(B, t, n, E)
<1>1. ASSUME NEW i \in Index
      PROVE  /\ W[i] = IF Span(t, i) < n THEN [B[i] EXCEPT !.entry = E[Span(t, i)]] ELSE B[i]
             /\ W[i] \in BlockType
  <2>1. W[i] = IF Span(t, i) < n THEN [B[i] EXCEPT !.entry = E[Span(t, i)]] ELSE B[i]
    BY DEF WithEntries
  <2>2. B[i] \in BlockType
    OBVIOUS
  <2>3. Span(t, i) < n => E[Span(t, i)] \in Nat
    <3>1. Span(t, i) \in 0..Size - 1
      BY SpanLaw
    <3>2. Span(t, i) < n => Span(t, i) \in 0..n - 1
      BY <3>1
    <3> QED
      BY <3>2
  <2> HIDE DEF W
  <2> QED
    BY <2>1, <2>2, <2>3, ZenonT(60) DEF BlockType
<1>2. W \in [Index -> BlockType]
  <2>1. W = [i \in Index |-> W[i]]
    BY DEF WithEntries
  <2> HIDE DEF W
  <2> QED
    BY <1>1, <2>1
<1> HIDE DEF W
<1>3. ASSUME NEW k \in 0..n - 1 PROVE At(W, t, k) = [At(B, t, k) EXCEPT !.entry = E[k]]
  <2>1. Ahead(t, k) \in Index /\ Span(t, Ahead(t, k)) = k /\ k < n
    BY AheadLaw
  <2> QED
    BY <1>1, <2>1 DEF At
<1>4. ASSUME NEW i \in Index, Span(t, i) >= n PROVE W[i] = B[i]
  <2>1. Span(t, i) \in 0..Size - 1 /\ ~(Span(t, i) < n)
    BY <1>4, SpanLaw
  <2> QED
    BY <1>1, <2>1
<1> QED
  BY <1>2, <1>3, <1>4 DEF W

(* A queue with a planned end stays one over planner_recalculate: blocks   *)
(* have lengths, brake in time, can stop at the end, are accelerated to,   *)
(* and are as fast as they were.                                           *)
LEMMA Replanning ==
  ASSUME NEW B \in [Index -> BlockType], NEW t \in Index, NEW n \in 1..Size - 1,
         NEW q \in 0..n - 1, NEW E \in [0..n - 1 -> Nat], NEW p \in q..n - 1,
         Plan(B, t, n, q, E, p)
  PROVE  LET W == WithEntries(B, t, n, E)
         IN  /\ Lengthy(B, t, n) => Lengthy(W, t, n)
             /\ \A lo \in 0..q :
                  Lengthy(B, t, n) /\ Brakes(B, t, n, lo) => Brakes(W, t, n, lo)
             /\ \A T \in [0..n -> Nat], lo \in 0..q :
                  Distance(B, t, n, T) /\ Within(B, t, n, lo, T)
                  => Distance(W, t, n, T) /\ Within(W, t, n, lo, T)
             /\ \A s \in Nat : q > 0 \/ s = At(B, t, 0).entry =>
                  /\ Follows(B, t, q, s) => Follows(W, t, n - 1, s)
                  /\ /\ Lengthy(B, t, n) /\ Brakes(B, t, n, q)
                     /\ Fastest(B, t, n, q, s, q)
                     => Fastest(W, t, n, n - 1, s, p)
<1> DEFINE W == WithEntries(B, t, n, E)
<1>1. \A k \in 0..n - 1 : At(W, t, k) = [At(B, t, k) EXCEPT !.entry = E[k]]
  <2>1. /\ W \in [Index -> BlockType]
        /\ \A k \in 0..n - 1 : At(W, t, k) = [At(B, t, k) EXCEPT !.entry = E[k]]
        /\ \A i \in Index : Span(t, i) >= n => W[i] = B[i]
    BY EntriesSet
  <2> QED
    BY <2>1
<1>2. \A k \in 0..n - 1 : At(B, t, k) \in BlockType
  BY PlannerAssumption, AheadLaw DEF At
<1> HIDE DEF W
<1>3. ASSUME NEW k \in 0..n - 1
      PROVE  /\ At(W, t, k).entry = E[k] /\ At(W, t, k).mm = At(B, t, k).mm
             /\ At(W, t, k).max_entry = At(B, t, k).max_entry
             /\ At(B, t, k).entry \in Nat /\ At(B, t, k).mm \in Nat
             /\ At(B, t, k).max_entry \in Nat /\ E[k] \in Nat
             /\ k <= q => E[k] = At(B, t, k).entry
  <2>1. At(B, t, k) \in BlockType /\ At(W, t, k) = [At(B, t, k) EXCEPT !.entry = E[k]]
    BY <1>1, <1>2
  <2>2. k <= q => k \in 0..q
    OBVIOUS
  <2> QED
    BY <2>1, <2>2 DEF BlockType, Plan
<1>4. ASSUME NEW k \in 0..n - 1
      PROVE  /\ Out(W, t, n, k) = IF k = n - 1 THEN 0 ELSE E[k + 1]
             /\ k < q => Out(W, t, n, k) = Out(B, t, n, k)
             /\ Out(W, t, n, k) \in Nat /\ Out(B, t, n, k) \in Nat
  <2>1. k # n - 1 => k + 1 \in 0..n - 1
    OBVIOUS
  <2>2. k < q => k # n - 1 /\ k + 1 <= q
    OBVIOUS
  <2> QED
    BY <1>3, <2>1, <2>2 DEF Out
<1>5. Lengthy(B, t, n) => Lengthy(W, t, n)
  BY <1>3 DEF Lengthy
<1>6. ASSUME Lengthy(B, t, n), NEW lo \in 0..q, Brakes(B, t, n, lo)
      PROVE  Brakes(W, t, n, lo)
  <2>1. Brakes(B, t, n, q)
    <3>1. q..n - 1 \subseteq lo..n - 1
      OBVIOUS
    <3> QED
      BY <1>6, <3>1 DEF Brakes
  <2>2. ASSUME NEW k \in lo..n - 1
        PROVE  E[k] <= At(B, t, k).mm + Out(W, t, n, k) /\ (k > 0 => E[k] <= At(B, t, k).max_entry)
    <3>1. k \in 0..n - 1
      OBVIOUS
    <3>2. /\ At(B, t, k).entry <= At(B, t, k).mm + Out(B, t, n, k)
          /\ k > 0 => At(B, t, k).entry <= At(B, t, k).max_entry
      BY <1>6 DEF Brakes
    <3>3. CASE k < q
      <4>1. E[k] = At(B, t, k).entry /\ Out(W, t, n, k) = Out(B, t, n, k)
        BY <1>3, <1>4, <3>1, <3>3
      <4> QED
        BY <3>2, <4>1
    <3>4. CASE k >= q
      <4>1. k \in q..n - 1 /\ (k = q \/ k \in q + 1..n - 1)
        BY <3>4
      <4>2. E[k] <= At(B, t, k).mm + Out(W, t, n, k)
        BY <1>4, <1>6, <2>1, <3>1, <4>1 DEF Plan
      <4>3. k # q => E[k] <= At(B, t, k).max_entry
        BY <1>6, <2>1, <4>1 DEF Plan
      <4>4. k = q => E[k] = At(B, t, k).entry
        BY <1>3, <3>1
      <4> QED
        BY <3>2, <4>2, <4>3, <4>4
    <3> QED
      BY <3>3, <3>4
  <2>3. ASSUME NEW k \in lo..n - 1
        PROVE  /\ At(W, t, k).entry <= At(W, t, k).mm + Out(W, t, n, k)
               /\ k > 0 => At(W, t, k).entry <= At(W, t, k).max_entry
    <3>1. k \in 0..n - 1
      OBVIOUS
    <3>2. /\ At(W, t, k).entry = E[k] /\ At(W, t, k).mm = At(B, t, k).mm
          /\ At(W, t, k).max_entry = At(B, t, k).max_entry
      BY <1>3, <3>1
    <3> QED
      BY <2>2, <3>2
  <2> QED
    BY <2>3 DEF Brakes
<1>7. ASSUME NEW T \in [0..n -> Nat], NEW lo \in 0..q, Distance(B, t, n, T), Within(B, t, n, lo, T)
      PROVE  Distance(W, t, n, T) /\ Within(W, t, n, lo, T)
  <2>1. Distance(W, t, n, T)
    BY <1>3, <1>7 DEF Distance
  <2>2. Within(B, t, n, q, T)
    <3>1. q..n - 1 \subseteq lo..n - 1
      OBVIOUS
    <3> QED
      BY <1>7, <3>1 DEF Within
  <2>3. ASSUME NEW k \in lo..n - 1 PROVE At(W, t, k).entry <= T[k]
    <3>1. k \in 0..n - 1 /\ (k \in q..n - 1 \/ k < q)
      OBVIOUS
    <3>2. k < q => E[k] <= T[k]
      <4>1. k < q => E[k] = At(B, t, k).entry
        BY <1>3, <3>1
      <4>2. At(B, t, k).entry <= T[k]
        BY <1>7 DEF Within
      <4> QED
        BY <4>1, <4>2
    <3>3. k \in q..n - 1 => E[k] <= T[k]
      BY <1>7, <2>2 DEF Plan
    <3> QED
      BY <1>3, <3>1, <3>2, <3>3
  <2> QED
    BY <2>1, <2>3 DEF Within
<1>8. ASSUME NEW s \in Nat, q > 0 \/ s = At(B, t, 0).entry, Follows(B, t, q, s)
      PROVE  Follows(W, t, n - 1, s)
  <2>1. ASSUME NEW k \in 1..n - 1
        PROVE  At(W, t, k).entry <= Ahead1(W, t, s, k) + At(W, t, k - 1).mm
    <3>1. k \in 0..n - 1 /\ k - 1 \in 0..n - 1 /\ (k > q => k \in q + 1..n - 1)
          /\ (k <= q => k \in 1..q /\ k - 1 <= q)
      OBVIOUS
    <3>2. /\ At(W, t, k).entry = E[k] /\ At(W, t, k - 1).entry = E[k - 1]
          /\ At(W, t, k - 1).mm = At(B, t, k - 1).mm
          /\ k <= q => E[k] = At(B, t, k).entry /\ E[k - 1] = At(B, t, k - 1).entry
      BY <1>3, <3>1
    <3>3. CASE k <= q
      <4>1. At(B, t, k).entry <= Ahead1(B, t, s, k) + At(B, t, k - 1).mm
        BY <1>8, <3>1, <3>3 DEF Follows
      <4> QED
        BY <3>2, <3>3, <4>1 DEF Ahead1
    <3>4. CASE k > q
      <4>1. E[k] <= E[k - 1] + At(B, t, k - 1).mm
        BY <3>1, <3>4 DEF Plan
      <4>2. Ahead1(W, t, s, k) = E[k - 1]
        <5>1. CASE k = 1
          <6>1. q = 0 /\ k - 1 = 0
            BY <3>4, <5>1
          <6> QED
            BY <1>3, <1>8, <5>1, <6>1 DEF Ahead1
        <5>2. CASE k # 1
          BY <3>2, <5>2 DEF Ahead1
        <5> QED
          BY <5>1, <5>2
      <4> QED
        BY <3>2, <4>1, <4>2
    <3> QED
      BY <3>3, <3>4
  <2> QED
    BY <2>1 DEF Follows
<1>9. ASSUME NEW s \in Nat, q > 0 \/ s = At(B, t, 0).entry, Lengthy(B, t, n),
             Brakes(B, t, n, q), Fastest(B, t, n, q, s, q)
      PROVE  Fastest(W, t, n, n - 1, s, p)
  <2>1. ASSUME NEW k \in 1..n - 1
        PROVE  \/ At(W, t, k).entry = At(W, t, k).max_entry
               \/ At(W, t, k).entry = Ahead1(W, t, s, k) + At(W, t, k - 1).mm
               \/ k # p /\ At(W, t, k).entry = At(W, t, k).mm + Out(W, t, n, k)
    <3>1. k \in 0..n - 1 /\ k - 1 \in 0..n - 1 /\ (k > q => k \in q + 1..n - 1)
          /\ (k <= q => k \in 1..q /\ k - 1 <= q) /\ (k < q => k # p)
      OBVIOUS
    <3>2. /\ At(W, t, k).entry = E[k] /\ At(W, t, k - 1).entry = E[k - 1]
          /\ At(W, t, k - 1).mm = At(B, t, k - 1).mm
          /\ At(W, t, k).mm = At(B, t, k).mm
          /\ At(W, t, k).max_entry = At(B, t, k).max_entry
          /\ k <= q => E[k] = At(B, t, k).entry /\ E[k - 1] = At(B, t, k - 1).entry
      BY <1>3, <3>1
    <3>3. CASE k <= q
      <4>1. \/ At(B, t, k).entry = At(B, t, k).max_entry
            \/ At(B, t, k).entry = Ahead1(B, t, s, k) + At(B, t, k - 1).mm
            \/ k # q /\ At(B, t, k).entry = At(B, t, k).mm + Out(B, t, n, k)
        BY <1>9, <3>1, <3>3 DEF Fastest
      <4>2. k # q => k < q /\ Out(W, t, n, k) = Out(B, t, n, k) /\ k # p
        BY <1>4, <3>1, <3>3
      <4>3. Ahead1(W, t, s, k) = Ahead1(B, t, s, k)
        BY <3>2, <3>3 DEF Ahead1
      <4> QED
        BY <3>2, <3>3, <4>1, <4>2, <4>3
    <3>4. CASE k > q
      <4>1. /\ \/ E[k] = At(B, t, k).max_entry
               \/ E[k] = E[k - 1] + At(B, t, k - 1).mm
               \/ E[k] = At(B, t, k).mm + (IF k = n - 1 THEN 0 ELSE E[k + 1])
            /\ p = q \/ E[p] = At(B, t, p).max_entry \/ E[p] = E[p - 1] + At(B, t, p - 1).mm
        BY <1>9, <3>1, <3>4 DEF Plan
      <4>2. Ahead1(W, t, s, k) = E[k - 1]
        <5>1. CASE k = 1
          <6>1. q = 0 /\ k - 1 = 0
            BY <3>4, <5>1
          <6> QED
            BY <1>3, <1>9, <5>1, <6>1 DEF Ahead1
        <5>2. CASE k # 1
          BY <3>2, <5>2 DEF Ahead1
        <5> QED
          BY <5>1, <5>2
      <4>3. Out(W, t, n, k) = IF k = n - 1 THEN 0 ELSE E[k + 1]
        BY <1>4, <3>1
      <4>4. k = p => p # q
        BY <3>4
      <4> QED
        BY <3>2, <4>1, <4>2, <4>3, <4>4
    <3> QED
      BY <3>3, <3>4
  <2> QED
    BY <2>1 DEF Fastest
<1> QED
  BY <1>5, <1>6, <1>7, <1>8, <1>9, Zenon DEF W

(* W is the queue B planned anew from the q-th block on, p its breakpoint. *)
Replaced(B, W, t, n, q, p) ==
  /\ W \in [Index -> BlockType] /\ p \in q..n - 1
  /\ \A k \in 0..n - 1 : At(W, t, k) = [At(B, t, k) EXCEPT !.entry = At(W, t, k).entry]
  /\ \A k \in 0..q : At(W, t, k) = At(B, t, k)
  /\ Lengthy(B, t, n) => Lengthy(W, t, n)
  /\ \A lo \in 0..q :
       Lengthy(B, t, n) /\ Brakes(B, t, n, lo) => Brakes(W, t, n, lo)
  /\ \A T \in [0..n -> Nat], lo \in 0..q :
       Distance(B, t, n, T) /\ Within(B, t, n, lo, T)
       => Distance(W, t, n, T) /\ Within(W, t, n, lo, T)
  /\ \A s \in Nat : q > 0 \/ s = At(B, t, 0).entry =>
       /\ Follows(B, t, q, s) => Follows(W, t, n - 1, s)
       /\ /\ Lengthy(B, t, n) /\ Brakes(B, t, n, q)
          /\ Fastest(B, t, n, q, s, q)
          => Fastest(W, t, n, n - 1, s, p)

(* planner_recalculate as an action gives such a plan.                     *)
LEMMA Recalculated ==
  ASSUME NEW B \in [Index -> BlockType], block_buffer_tail \in Index,
         NEW n \in 1..Size - 1, NEW q \in 0..n - 1,
         planner_recalculate(B, Ahead(block_buffer_tail, q), Ahead(block_buffer_tail, n))
  PROVE  \E E \in [0..n - 1 -> Nat], p \in q..n - 1 :
           /\ block_buffer' = WithEntries(B, block_buffer_tail, n, E)
           /\ block_buffer_planned' = Ahead(block_buffer_tail, p)
           /\ Plan(B, block_buffer_tail, n, q, E, p)
<1> USE PlannerAssumption
<1> DEFINE t == block_buffer_tail
<1>1. Span(t, Ahead(t, n)) = n
  BY AheadLaw
<1>2. CASE n > 1
  <2> DEFINE r == Replanned(B, Ahead(t, q), Ahead(t, n))
  <2>1. n # 0 /\ n # 1
    BY <1>2
  <2>2. block_buffer' = r.buffer /\ block_buffer_planned' = r.planned
    <3> HIDE DEF r
    <3> QED
      BY <1>1, <1>2, <2>1 DEF planner_recalculate, r
  <2>3. n \in 2..Size - 1
    BY <1>2
  <2>4. \E E \in [0..n - 1 -> Nat], p \in q..n - 1 :
               /\ r.planned = Ahead(t, p)
               /\ r.buffer = WithEntries(B, t, n, E)
               /\ Plan(B, t, n, q, E, p)
    <3> HIDE PlannerAssumption
    <3> QED
      BY <2>3, Replan
  <2> HIDE DEF r
  <2> QED
    BY <2>2, <2>4
<1>3. CASE n = 1
  <2>1. q = 0 /\ Ahead(t, 0) = t /\ n # 0
    BY <1>3 DEF Ahead, Index
  <2>2. block_buffer' = B /\ block_buffer_planned' = t
    BY <1>1, <1>3, <2>1 DEF planner_recalculate
  <2> DEFINE E == [k \in 0..n - 1 |-> At(B, t, k).entry]
  <2>3. /\ 0 \in 0..n - 1 /\ E \in [0..n - 1 -> Nat] /\ E[0] = At(B, t, 0).entry
        /\ \A k \in 0..n - 1 : k = 0
    BY <1>3, <2>1 DEF At, BlockType
  <2>4. B = WithEntries(B, t, n, E)
    <3>1. ASSUME NEW i \in Index
          PROVE  B[i] = IF Span(t, i) < n THEN [B[i] EXCEPT !.entry = E[Span(t, i)]] ELSE B[i]
      <4>1. Span(t, i) \in 0..Size - 1 /\ Ahead(t, Span(t, i)) = i
        BY SpanLaw
      <4>2. CASE Span(t, i) < n
        <5>1. Span(t, i) = 0 /\ i = t
          BY <1>3, <2>1, <4>1, <4>2
        <5>2. E[Span(t, i)] = B[i].entry
          BY <2>1, <2>3, <5>1 DEF At
        <5> HIDE DEF E
        <5>3. B[i] \in BlockType
          OBVIOUS
        <5> QED
          BY <4>2, <5>2, <5>3 DEF BlockType
      <4>3. CASE ~(Span(t, i) < n)
        BY <4>3
      <4> QED
        BY <4>2, <4>3
    <3> HIDE DEF E
    <3> QED
      BY <3>1 DEF WithEntries
  <2>5. Plan(B, t, n, q, E, 0)
    <3> HIDE DEF E
    <3>1. \A k \in 0..q : E[k] = At(B, t, k).entry
      BY <2>1, <2>3
    <3>2. \A k \in q + 1..n - 1 : FALSE
      BY <1>3, <2>1
    <3>3. \A k \in q..n - 1 : k = 0
      BY <1>3, <2>1
    <3>4. ASSUME NEW T \in [0..n -> Nat], Within(B, t, n, q, T), NEW k \in q..n - 1 PROVE E[k] <= T[k]
      BY <2>3, <3>3, <3>4 DEF Within
    <3>5. ASSUME Brakes(B, t, n, q), NEW k \in q..n - 1
          PROVE  E[k] <= At(B, t, k).mm + (IF k = n - 1 THEN 0 ELSE E[k + 1])
      BY <1>3, <2>3, <3>3, <3>5 DEF Brakes, Out
    <3> QED
      BY <2>1, <3>1, <3>2, <3>4, <3>5, Zenon DEF Plan
  <2>6. 0 \in q..n - 1
    BY <1>3, <2>1
  <2> HIDE DEF E
  <2> QED
    BY <2>1, <2>2, <2>3, <2>4, <2>5, <2>6
<1> QED
  BY <1>2, <1>3

(* What the queue is after planner_recalculate, for the steps below: it is *)
(* Replaced, and planned is a slot.                                        *)
LEMMA Recalculation ==
  ASSUME NEW B \in [Index -> BlockType], block_buffer_tail \in Index,
         NEW n \in 1..Size - 1, NEW q \in 0..n - 1,
         planner_recalculate(B, Ahead(block_buffer_tail, q), Ahead(block_buffer_tail, n))
  PROVE  /\ block_buffer_planned' \in Index
         /\ Replaced(B, block_buffer', block_buffer_tail, n, q,
                     Span(block_buffer_tail, block_buffer_planned'))
<1> DEFINE t == block_buffer_tail
<1>1. PICK E \in [0..n - 1 -> Nat], p \in q..n - 1 :
           /\ block_buffer' = WithEntries(B, t, n, E)
           /\ block_buffer_planned' = Ahead(t, p)
           /\ Plan(B, t, n, q, E, p)
  BY Recalculated
<1> DEFINE W == WithEntries(B, t, n, E)
<1>2. p \in 0..Size - 1 /\ Ahead(t, p) \in Index /\ Span(t, Ahead(t, p)) = p
  BY PlannerAssumption, AheadLaw
<1>3. /\ W \in [Index -> BlockType]
      /\ \A k \in 0..n - 1 : At(W, t, k) = [At(B, t, k) EXCEPT !.entry = E[k]]
  BY EntriesSet
<1>4. /\ Lengthy(B, t, n) => Lengthy(W, t, n)
      /\ \A lo \in 0..q :
           Lengthy(B, t, n) /\ Brakes(B, t, n, lo) => Brakes(W, t, n, lo)
      /\ \A T \in [0..n -> Nat], lo \in 0..q :
           Distance(B, t, n, T) /\ Within(B, t, n, lo, T)
           => Distance(W, t, n, T) /\ Within(W, t, n, lo, T)
      /\ \A s \in Nat : q > 0 \/ s = At(B, t, 0).entry =>
           /\ Follows(B, t, q, s) => Follows(W, t, n - 1, s)
           /\ /\ Lengthy(B, t, n) /\ Brakes(B, t, n, q)
              /\ Fastest(B, t, n, q, s, q)
              => Fastest(W, t, n, n - 1, s, p)
  BY <1>1, Replanning
<1>5. \A k \in 0..n - 1 : At(B, t, k) \in BlockType
  BY PlannerAssumption, AheadLaw DEF At
<1> HIDE DEF W
<1>6. ASSUME NEW k \in 0..n - 1
      PROVE  At(W, t, k) = [At(B, t, k) EXCEPT !.entry = At(W, t, k).entry]
  <2>1. At(B, t, k) \in BlockType /\ At(W, t, k) = [At(B, t, k) EXCEPT !.entry = E[k]]
    BY <1>3, <1>5
  <2> QED
    BY <2>1 DEF BlockType
<1>7. ASSUME NEW k \in 0..q
      PROVE  At(W, t, k) = At(B, t, k)
  <2>1. k \in 0..n - 1
    OBVIOUS
  <2>2. At(B, t, k) \in BlockType /\ At(W, t, k) = [At(B, t, k) EXCEPT !.entry = E[k]]
    BY <1>3, <1>5, <2>1
  <2>3. E[k] = At(B, t, k).entry
    BY <1>1 DEF Plan
  <2> QED
    BY <2>2, <2>3 DEF BlockType
<1>8. Replaced(B, W, t, n, q, p)
  BY <1>3, <1>4, <1>6, <1>7, Zenon DEF Replaced
<1> QED
  BY <1>1, <1>2, <1>8 DEF W

-----------------------------------------------------------------------------
(* The invariant.                                                          *)

(* The inductive invariant.  v is the speed of the machine, Offset where   *)
(* the planned pointer is in the queue.                                    *)
v == prep.current

Loading == pl_block = NULL

Exec == block_buffer[Work]

Offset == Span(block_buffer_tail, block_buffer_planned)

Nominal(b) == plan_compute_profile_nominal_speed(b, f_override, r_override)

Top(b) == Nominal(b) * Nominal(b)

Exit == Out(block_buffer, block_buffer_tail, Count, 0)

(* The pointers of the ring: the stepper works on the block at Work, and   *)
(* planned is in the queue.                                                *)
RingInv ==
  /\ next_buffer_head = plan_next_block_index(block_buffer_head)
  /\ pl_block \in {NULL, Work}
  /\ ~Empty => Offset < Count

(* What sys.state and step_control have to do with the queue and with the  *)
(* block that is loaded.                                                   *)
StateInv ==
  /\ SystemMotion <=> state = "HOMING"
  /\ Holding <=> state = "HOLD" /\ ~hold_complete
  /\ state = "HOMING" => Empty
  /\ hold_complete => state = "HOLD"
  /\ ~Loading => (SystemMotion \/ ~Empty) /\ state # "IDLE"
  /\ prep.recalculate => Loading /\ ~Empty
  /\ "END_MOTION" \in step_control =>
       \/ SystemMotion /\ ~Loading
       \/ /\ state = "HOLD" /\ ~Empty /\ v = 0
          /\ prep.recalculate \/ (~Loading /\ ~hold_complete)
  /\ Empty => ~slowed

(* The speed of the machine is that of the plan where a block is loaded.   *)
SpeedInv ==
  /\ Empty /\ ~(SystemMotion /\ ~Loading) => v = 0 /\ prep.exit = 0
  /\ prep.recalculate => v = Block(0).entry
  /\ Loading /\ ~prep.recalculate => v = prep.exit
  /\ SystemMotion /\ Loading => Exec.entry = 0 /\ Exec.mm > 0

(* The profile p of block b: it ends where it says.                        *)
Fits(b, p) ==
  /\ p.mm_complete <= b.mm
  /\ p.mm_complete > 0 => Holding /\ p.exit = 0
  /\ Holding => p.ramp = "DECEL"
  /\ p.ramp = "DECEL" => p.current >= p.exit + (b.mm - p.mm_complete)
  /\ SystemMotion => p.ramp = "TRAPEZOID" /\ p.exit = 0

ProfileInv == ~Loading => Fits(Exec, prep)

(* No block of the queue is without length.                                *)
LengthInv == Lengthy(block_buffer, block_buffer_tail, Count)

(* Whatever the overrides, the machine can stop at the end of the queue.   *)
Stops(T) ==
  /\ Distance(block_buffer, block_buffer_tail, Count, T)
  /\ Within(block_buffer, block_buffer_tail, Count, 1, T)
  /\ v <= T[0]
  /\ IF Loading THEN Empty \/ Block(0).entry <= T[0] ELSE prep.exit <= T[1]

EndInv == ~SystemMotion => \E T \in [0..Count -> Nat] : Stops(T)

SafeInv == /\ TypeOK /\ RingInv /\ StateInv /\ SpeedInv /\ ProfileInv
           /\ LengthInv /\ EndInv

(* While no override has been lowered, the profile p of block b can follow *)
(* the acceleration, at no more than the speed of the block.               *)
Follow(b, p) ==
  /\ p.ramp # "DECEL_OVERRIDE" /\ ~p.decel_override
  /\ p.ramp = "DECEL" => p.current = p.exit + (b.mm - p.mm_complete)
  /\ p.ramp = "TRAPEZOID" =>
       /\ p.current <= p.exit + b.mm /\ p.exit <= p.current + b.mm
       /\ p.current <= p.maximum /\ p.exit <= p.maximum
  /\ ~SystemMotion =>
       /\ p.current <= Top(b)
       /\ p.ramp = "TRAPEZOID" => p.maximum <= Top(b)
       /\ p.exit <= Exit

(* It is followed by the profile that is loaded, while no override has been*)
(* lowered.                                                                *)
SmoothInv == ~slowed /\ ~Loading => Follow(Exec, prep)

(* What the limits of the blocks are: the nominal speeds and the junctions.*)
LimitInv ==
  /\ ~Empty => previous_nominal_speed = Nominal(Block(Count - 1))
  /\ ~slowed => \A k \in 1..Count - 1 :
       /\ Block(k).max_entry <= Top(Block(k))
       /\ Block(k).max_entry <= Top(Block(k - 1))
       /\ Block(k).max_entry <= Block(k).max_junction

(* The plan, while no override has been lowered.                           *)
PlanInv ==
  ~slowed =>
    /\ Brakes(block_buffer, block_buffer_tail, Count, IF Loading THEN 0 ELSE 1)
    /\ ~Holding =>
         /\ Follows(block_buffer, block_buffer_tail, Count - 1, SpeedNow)
         /\ Fastest(block_buffer, block_buffer_tail, Count, Count - 1, SpeedNow, Offset)
    /\ Loading /\ ~Empty =>
         /\ Block(0).entry <= Top(Block(0))
         /\ ~Holding => Block(0).entry = v
         /\ Holding => v <= Block(0).entry

-----------------------------------------------------------------------------
(* The ring, the speeds and the profile of the block in execution.         *)

(* The slots of the queue are the Count slots from the tail on.            *)
LEMMA QueueRing ==
  ASSUME TypeOK
  PROVE  /\ block_buffer_tail \in Index /\ block_buffer_head \in Index
         /\ Count \in 0..Size - 1
         /\ Empty <=> Count = 0
         /\ block_buffer_head = Ahead(block_buffer_tail, Count)
         /\ block_buffer_tail = Ahead(block_buffer_tail, 0)
         /\ block_buffer \in [Index -> BlockType]
         /\ \A k \in 0..Size - 1 : /\ Ahead(block_buffer_tail, k) \in Index
                                   /\ At(block_buffer, block_buffer_tail, k) \in BlockType
         /\ \A k : Block(k) = At(block_buffer, block_buffer_tail, k)
         /\ block_buffer[block_buffer_tail] = At(block_buffer, block_buffer_tail, 0)
<1> USE PlannerAssumption
<1>1. /\ block_buffer_tail \in Index /\ block_buffer_head \in Index
      /\ block_buffer \in [Index -> BlockType]
  BY DEF TypeOK, BlockType
<1>2. block_buffer_tail = Ahead(block_buffer_tail, 0)
  BY <1>1 DEF Ahead, Index
<1>3. Count \in 0..Size - 1 /\ block_buffer_head = Ahead(block_buffer_tail, Count)
  BY <1>1, SpanLaw DEF Count
<1>4. Empty <=> Count = 0
  BY <1>1 DEF Empty, Count, Span, Index
<1>5. ASSUME NEW k \in 0..Size - 1
      PROVE  /\ Ahead(block_buffer_tail, k) \in Index
             /\ At(block_buffer, block_buffer_tail, k) \in BlockType
  BY <1>1, AheadLaw DEF At
<1> QED
  BY <1>1, <1>2, <1>3, <1>4, <1>5 DEF Block, At

(* plan_get_exec_block_exit_speed_sqr is the speed at the end of the first *)
(* block.                                                                  *)
LEMMA ExitLaw ==
  ASSUME TypeOK, ~Empty
  PROVE  plan_get_exec_block_exit_speed_sqr = Exit /\ Exit \in Nat
<1> USE PlannerAssumption
<1> DEFINE t == block_buffer_tail
<1>1. /\ t \in Index /\ Count \in 1..Size - 1 /\ block_buffer_head = Ahead(t, Count)
      /\ \A k \in 0..Size - 1 : At(block_buffer, t, k) \in BlockType
  BY QueueRing
<1>2. plan_next_block_index(t) = Ahead(t, 1)
  BY <1>1 DEF plan_next_block_index, Ahead, Index
<1>3. Ahead(t, 1) = block_buffer_head <=> Count = 1
  BY <1>1 DEF Ahead, Index
<1>4. block_buffer[Ahead(t, 1)] = At(block_buffer, t, 0 + 1)
  BY DEF At
<1>5. plan_get_exec_block_exit_speed_sqr = Exit
  BY <1>1, <1>2, <1>3, <1>4 DEF plan_get_exec_block_exit_speed_sqr, Exit, Out
<1>6. Exit \in Nat
  <2>1. At(block_buffer, t, 0 + 1).entry \in Nat
    BY <1>1 DEF BlockType
  <2> QED
    BY <2>1 DEF Exit, Out
<1> QED
  BY <1>5, <1>6

(* A nominal speed is a number above zero (MINIMUM_FEED_RATE).             *)
LEMMA NominalOf ==
  ASSUME NEW b, b.rate \in Nat, b.kind \in {"feed", "fixed", "rapid"},
         NEW f \in Nat, NEW r \in Nat
  PROVE  plan_compute_profile_nominal_speed(b, f, r) \in Nat \ {0}
<1> DEFINE x == b.rate * f
           y == b.rate * r
<1>1. x \in Nat /\ y \in Nat /\ RapidRate \in Nat
  BY PlannerAssumption
<1>2. x \div 100 \in Nat /\ y \div 100 \in Nat
  <2> HIDE DEF x, y
  <2> QED BY <1>1
<1> HIDE DEF x, y
<1> QED
  BY <1>1, <1>2 DEF plan_compute_profile_nominal_speed, Scaled, Min2, Max2,
     MinimumFeedRate, x, y

(* The same of a block.                                                    *)
LEMMA NominalTyped ==
  ASSUME NEW b \in BlockType, NEW f \in Nat, NEW r \in Nat
  PROVE  plan_compute_profile_nominal_speed(b, f, r) \in Nat \ {0}
<1>1. b.rate \in Nat /\ b.kind \in {"feed", "fixed", "rapid"}
  BY DEF BlockType
<1> QED
  BY <1>1, NominalOf

ProfileType == [current : Nat, exit : Nat, mm_complete : Nat,
                ramp : {"DECEL", "DECEL_OVERRIDE", "TRAPEZOID"}, maximum : Nat,
                recalculate : BOOLEAN, decel_override : BOOLEAN]

(* The profile p of a block of length d that is entered at e and left at x *)
(* in a hold; where an override has lowered its speed, squared, to n; and  *)
(* as it was planned.                                                      *)
Held(e, d, p) ==
  /\ p.ramp = "DECEL" /\ ~p.decel_override
  /\ p.mm_complete <= d /\ e = p.exit + (d - p.mm_complete)
  /\ p.mm_complete > 0 => p.exit = 0
  /\ p.exit > 0 => p.mm_complete = 0

Lowered(e, d, n, x, p) ==
  /\ e > n /\ p.mm_complete = 0
  /\ \/ p.ramp = "DECEL" /\ p.exit + d = e /\ p.decel_override
     \/ p.ramp = "DECEL_OVERRIDE" /\ p.maximum = n /\ p.exit = x /\ ~p.decel_override

AsPlanned(e, d, n, x, p) ==
  /\ e <= n /\ p.mm_complete = 0 /\ p.exit = x /\ ~p.decel_override
  /\ \/ p.ramp = "DECEL" /\ e >= x + d
     \/ p.ramp = "TRAPEZOID" /\ e < x + d /\ p.maximum = IF e + d <= x THEN x ELSE n

ExitSpeed == IF SystemMotion THEN 0 ELSE plan_get_exec_block_exit_speed_sqr

(* The profiles st_prep_buffer computes: in a hold one that brakes as hard *)
(* as it can, else one that brakes to the lowered speed, or as planned.    *)
LEMMA ProfileLaw ==
  ASSUME TypeOK, NEW b \in BlockType, ExitSpeed \in Nat,
         prep.recalculate => prep.current = b.entry
  PROVE  /\ Profile(b) \in ProfileType
         /\ Profile(b).current = b.entry /\ ~Profile(b).recalculate
         /\ Holding => Held(b.entry, b.mm, Profile(b))
         /\ ~Holding => \/ Lowered(b.entry, b.mm, Top(b), ExitSpeed, Profile(b))
                        \/ AsPlanned(b.entry, b.mm, Top(b), ExitSpeed, Profile(b))
<1> DEFINE n == plan_compute_profile_nominal_speed(b, f_override, r_override)
           N == n * n
           X == ExitSpeed
           p == [current |-> IF prep.recalculate THEN prep.current ELSE b.entry,
                 exit |-> X, mm_complete |-> 0, ramp |-> "DECEL", maximum |-> 0,
                 recalculate |-> FALSE, decel_override |-> FALSE]
           e == b.entry
           d == b.mm
           P == Profile(b)
<1>1. n \in Nat
  <2>1. f_override \in Nat /\ r_override \in Nat
    BY PlannerAssumption DEF TypeOK, DefaultOverride, RapidMedium, RapidLow
  <2> QED
    BY <2>1, NominalTyped
<1> HIDE DEF n
<1>2. N \in Nat /\ N = Top(b)
  BY <1>1 DEF Top, Nominal, n
<1> HIDE DEF N
<1>3. X \in Nat /\ e \in Nat /\ d \in Nat
  BY DEF BlockType
<1>4. p = [current |-> e, exit |-> X, mm_complete |-> 0, ramp |-> "DECEL", maximum |-> 0,
           recalculate |-> FALSE, decel_override |-> FALSE]
  OBVIOUS
<1>5. P = CASE Holding /\ e > d -> [p EXCEPT !.exit = e - d]
            [] Holding /\ e <= d -> [p EXCEPT !.exit = 0, !.mm_complete = d - e]
            [] ~Holding /\ e > N /\ d <= e - N ->
                 [p EXCEPT !.exit = e - d, !.decel_override = TRUE]
            [] ~Holding /\ e > N /\ d > e - N ->
                 [p EXCEPT !.ramp = "DECEL_OVERRIDE", !.maximum = N]
            [] ~Holding /\ e <= N /\ d <= e - X -> p
            [] ~Holding /\ e <= N /\ d > e - X ->
                 [p EXCEPT !.ramp = "TRAPEZOID", !.maximum = IF d <= X - e THEN X ELSE N]
  BY DEF Profile, N, n, ExitSpeed
<1> HIDE DEF X, p, e, d, P
<1>6. CASE Holding /\ e > d
  <2>0. P = [p EXCEPT !.exit = e - d]
    BY <1>3, <1>5, <1>6
  <2>1. P = [current |-> e, exit |-> e - d, mm_complete |-> 0, ramp |-> "DECEL", maximum |-> 0,
            recalculate |-> FALSE, decel_override |-> FALSE]
    BY <1>4, <2>0
  <2>2. e - d \in Nat
    BY <1>3, <1>6
  <2>3. P \in ProfileType /\ P.current = e /\ ~P.recalculate /\ Held(e, d, P)
    BY <1>3, <2>1, <2>2, <1>6 DEF ProfileType, Held
  <2> QED
    BY <1>6, <2>3 DEF P, e, d
<1>7. CASE Holding /\ e <= d
  <2>0. P = [p EXCEPT !.exit = 0, !.mm_complete = d - e]
    BY <1>3, <1>5, <1>7
  <2>1. P = [current |-> e, exit |-> 0, mm_complete |-> d - e, ramp |-> "DECEL", maximum |-> 0,
            recalculate |-> FALSE, decel_override |-> FALSE]
    BY <1>4, <2>0
  <2>2. d - e \in Nat
    BY <1>3, <1>7
  <2>3. P \in ProfileType /\ P.current = e /\ ~P.recalculate /\ Held(e, d, P)
    BY <1>3, <2>1, <2>2, <1>7 DEF ProfileType, Held
  <2> QED
    BY <1>7, <2>3 DEF P, e, d
<1>8. CASE ~Holding /\ e > N /\ d <= e - N
  <2>0. P = [p EXCEPT !.exit = e - d, !.decel_override = TRUE]
    BY <1>2, <1>3, <1>5, <1>8
  <2>1. P = [current |-> e, exit |-> e - d, mm_complete |-> 0, ramp |-> "DECEL", maximum |-> 0,
            recalculate |-> FALSE, decel_override |-> TRUE]
    BY <1>4, <2>0
  <2>2. e - d \in Nat
    BY <1>2, <1>3, <1>8
  <2>3. P \in ProfileType /\ P.current = e /\ ~P.recalculate /\ Lowered(e, d, N, X, P)
    BY <1>2, <1>3, <2>1, <2>2, <1>8 DEF ProfileType, Lowered
  <2> QED
    BY <1>2, <1>8, <2>3 DEF P, e, d, X
<1>9. CASE ~Holding /\ e > N /\ d > e - N
  <2>1. P = [p EXCEPT !.ramp = "DECEL_OVERRIDE", !.maximum = N]
    BY <1>2, <1>3, <1>5, <1>9
  <2>3. P \in ProfileType /\ P.current = e /\ ~P.recalculate /\ Lowered(e, d, N, X, P)
    BY <1>2, <1>3, <1>4, <2>1, <1>9 DEF ProfileType, Lowered
  <2> QED
    BY <1>2, <1>9, <2>3 DEF P, e, d, X
<1>10. CASE ~Holding /\ e <= N /\ d <= e - X
  <2>1. P = p
    BY <1>2, <1>3, <1>5, <1>10
  <2>3. P \in ProfileType /\ P.current = e /\ ~P.recalculate /\ AsPlanned(e, d, N, X, P)
    BY <1>2, <1>3, <1>4, <2>1, <1>10 DEF ProfileType, AsPlanned
  <2> QED
    BY <1>2, <1>10, <2>3 DEF P, e, d, X
<1>11. CASE ~Holding /\ e <= N /\ d > e - X
  <2>0. P = [p EXCEPT !.ramp = "TRAPEZOID", !.maximum = IF d <= X - e THEN X ELSE N]
    BY <1>2, <1>3, <1>5, <1>11
  <2>1. P = [current |-> e, exit |-> X, mm_complete |-> 0, ramp |-> "TRAPEZOID",
            maximum |-> IF d <= X - e THEN X ELSE N,
            recalculate |-> FALSE, decel_override |-> FALSE]
    BY <1>4, <2>0
  <2>2. (IF d <= X - e THEN X ELSE N) = (IF e + d <= X THEN X ELSE N)
    BY <1>2, <1>3
  <2>3. P \in ProfileType /\ P.current = e /\ ~P.recalculate /\ AsPlanned(e, d, N, X, P)
    BY <1>2, <1>3, <2>1, <2>2, <1>11 DEF ProfileType, AsPlanned
  <2> QED
    BY <1>2, <1>11, <2>3 DEF P, e, d, X
<1> QED
  BY <1>2, <1>3, <1>6, <1>7, <1>8, <1>9, <1>10, <1>11

(* The block st_prep_buffer works on is the tail of the queue or the system*)
(* motion, and is entered at the speed of the machine or of the plan.      *)
LEMMA LoadedLaw ==
  ASSUME TypeOK, RingInv, StateInv, SpeedInv, LengthInv, Running
  PROVE  /\ Work \in Index /\ Exec \in BlockType
         /\ ~SystemMotion => /\ Work = block_buffer_tail /\ Count \in 1..Size - 1
                             /\ Exec = At(block_buffer, block_buffer_tail, 0)
                             /\ Exec.mm > 0
         /\ Loaded \in BlockType /\ Loaded.mm = Exec.mm
         /\ Loaded = [Exec EXCEPT !.entry = Loaded.entry]
         /\ ~Loading => Loaded = Exec /\ pl_block = Work /\ ~prep.recalculate
         /\ Loading /\ ~SystemMotion => Loaded.entry \in {v, Exec.entry}
         /\ Loading /\ SystemMotion => Loaded.entry = 0 /\ Exec.mm > 0
         /\ Loading /\ prep.recalculate => Loaded.entry = Exec.entry /\ v = Loaded.entry
         /\ Loading /\ ~prep.recalculate => Loaded.entry \in {v, Exec.entry}
<1> DEFINE t == block_buffer_tail
<1>1. /\ t \in Index /\ block_buffer_head \in Index /\ Count \in 0..Size - 1
      /\ Empty <=> Count = 0
      /\ block_buffer \in [Index -> BlockType]
      /\ block_buffer[t] = At(block_buffer, t, 0) /\ Block(0) = At(block_buffer, t, 0)
  BY QueueRing
<1>2. SystemMotion <=> state = "HOMING"
  BY DEF StateInv
<1>3. Work \in Index /\ Exec \in BlockType
  BY <1>1 DEF Work, Exec
<1>4. ASSUME ~SystemMotion
      PROVE  Work = t /\ Count \in 1..Size - 1 /\ Exec = At(block_buffer, t, 0)
             /\ Exec.mm > 0
  <2>1. ~Empty /\ Work = t
    BY <1>4 DEF Running, Work
  <2>2. Count \in 1..Size - 1 /\ Exec = At(block_buffer, t, 0)
    BY PlannerAssumption, <1>1, <2>1 DEF Exec
  <2>3. At(block_buffer, t, 0).mm > 0
    BY PlannerAssumption, <2>2 DEF LengthInv, Lengthy
  <2> QED
    BY <2>1, <2>2, <2>3
<1>5. prep.current \in Nat /\ prep.exit \in Nat /\ prep.recalculate \in BOOLEAN
  BY DEF TypeOK
<1>6. CASE ~Loading
  <2>1. Loaded = Exec /\ pl_block = Work /\ ~prep.recalculate
    BY <1>6 DEF Loading, Loaded, Exec, RingInv, StateInv
  <2>2. Exec = [Exec EXCEPT !.entry = Exec.entry]
    BY <1>3 DEF BlockType
  <2> QED
    BY <1>3, <1>4, <1>6, <2>1, <2>2
<1>7. CASE Loading
  <2> DEFINE x == LoadedEntry(Exec)
  <2>1. Loaded = [Exec EXCEPT !.entry = x]
    BY <1>7 DEF Loading, Loaded, Exec
  <2>2. x = Exec.entry \/ (x = prep.exit /\ ~prep.recalculate)
    BY DEF LoadedEntry
  <2>3. ~prep.recalculate => prep.exit = v
    BY <1>7 DEF SpeedInv
  <2>4. x \in {v, Exec.entry}
    BY <2>2, <2>3
  <2>5. prep.recalculate => x = Exec.entry /\ v = x
    <3> SUFFICES ASSUME prep.recalculate PROVE x = Exec.entry /\ v = x
      OBVIOUS
    <3>1. ~Empty
      BY DEF StateInv
    <3>2. ~SystemMotion
      BY <3>1 DEF StateInv
    <3>3. v = Block(0).entry /\ Exec = Block(0)
      BY <1>1, <1>4, <3>2 DEF SpeedInv
    <3> QED
      BY <2>2, <3>3
  <2>6. SystemMotion => x = 0 /\ Exec.mm > 0
    <3> SUFFICES ASSUME SystemMotion PROVE x = 0 /\ Exec.mm > 0
      OBVIOUS
    <3>1. Empty
      BY DEF StateInv
    <3>2. v = 0
      BY <1>7, <3>1 DEF SpeedInv
    <3>3. Exec.entry = 0 /\ Exec.mm > 0
      BY <1>7 DEF SpeedInv
    <3> QED
      BY <2>4, <3>2, <3>3
  <2> HIDE DEF x
  <2>7. x \in Nat
    BY <1>3, <1>5, <2>4 DEF v, BlockType
  <2>8. Loaded \in BlockType /\ Loaded.mm = Exec.mm /\ Loaded.entry = x
    BY <1>3, <2>1, <2>7 DEF BlockType
  <2> QED
    BY <1>3, <1>4, <1>7, <2>1, <2>4, <2>5, <2>6, <2>8
<1> QED
  BY <1>6, <1>7

(* Its profile ends where it says and, if the machine can stop at the end  *)
(* of the queue, stays below what can be stopped there.                    *)
LEMMA PlannedLaw ==
  ASSUME TypeOK, RingInv, StateInv, SpeedInv, LengthInv, ProfileInv, Running
  PROVE  /\ Planned \in ProfileType /\ ~Planned.recalculate
         /\ Fits(Loaded, Planned)
         /\ Loading => Planned.current = Loaded.entry
         /\ \A T \in [0..Count -> Nat] : Stops(T) /\ ~SystemMotion =>
              /\ Loaded.mm \in Nat /\ T[0] = T[1] + Loaded.mm /\ T[0] \in Nat /\ T[1] \in Nat
              /\ Planned.current <= T[0] /\ Planned.exit <= T[1]
<1> DEFINE t == block_buffer_tail
           P == Planned
           b == Loaded
           e == b.entry
           d == b.mm
<1>1. /\ Exec \in BlockType /\ b \in BlockType /\ d = Exec.mm
      /\ ~SystemMotion => /\ Work = t /\ Count \in 1..Size - 1
                          /\ Exec = At(block_buffer, t, 0) /\ Exec.mm > 0
      /\ ~Loading => b = Exec /\ ~prep.recalculate
      /\ Loading /\ ~SystemMotion => e \in {v, Exec.entry}
      /\ Loading /\ SystemMotion => e = 0 /\ Exec.mm > 0
      /\ Loading /\ prep.recalculate => v = e
  BY LoadedLaw
<1>2. e \in Nat /\ d \in Nat
  BY <1>1 DEF BlockType
<1>3. prep \in ProfileType
  BY DEF TypeOK, ProfileType
<1>4. SystemMotion => ~Holding /\ Empty
  BY DEF StateInv
<1>5. ExitSpeed \in Nat /\ (~SystemMotion => ExitSpeed = Exit)
  <2>1. CASE SystemMotion
    BY <2>1 DEF ExitSpeed
  <2>2. CASE ~SystemMotion
    <3>1. ~Empty
      BY <2>2 DEF Running
    <3> QED
      BY <2>2, <3>1, ExitLaw DEF ExitSpeed
  <2> QED
    BY <2>1, <2>2
<1>6. ASSUME NEW T \in [0..Count -> Nat], Stops(T), ~SystemMotion
      PROVE  /\ T[0] = T[1] + d /\ T[0] \in Nat /\ T[1] \in Nat
             /\ v <= T[0] /\ ExitSpeed <= T[1]
             /\ Loading => e <= T[0]
             /\ ~Loading => prep.exit <= T[1]
  <2>1. Count \in 1..Size - 1 /\ ~Empty
    BY <1>1, <1>6 DEF Running
  <2>2. T[0] \in Nat /\ T[1] \in Nat
    BY PlannerAssumption, <2>1
  <2>3. T[0] = T[1] + d
    <3>1. T[0] = T[0 + 1] + At(block_buffer, t, 0).mm
      BY PlannerAssumption, <1>6, <2>1 DEF Stops, Distance
    <3> QED
      BY <1>1, <1>6, <3>1
  <2>4. v <= T[0] /\ (~Loading => prep.exit <= T[1])
    BY <1>6 DEF Stops
  <2>5. Loading => e <= T[0]
    <3>1. Block(0) = At(block_buffer, t, 0)
      BY QueueRing
    <3>2. Loading => Block(0).entry <= T[0]
      BY <1>6, <2>1 DEF Stops
    <3> QED
      BY <1>1, <1>6, <2>4, <3>1, <3>2
  <2>6. ExitSpeed <= T[1]
    <3>1. CASE Count = 1
      <4>1. Exit = 0
        BY <3>1 DEF Exit, Out
      <4> QED
        BY <1>5, <1>6, <2>2, <4>1
    <3>2. CASE Count # 1
      <4>1. 1 \in 1..Count - 1
        BY PlannerAssumption, <2>1, <3>2
      <4>2. At(block_buffer, t, 1).entry <= T[1]
        BY <1>6, <4>1 DEF Stops, Within
      <4>3. Exit = At(block_buffer, t, 0 + 1).entry
        BY PlannerAssumption, <2>1, <3>2 DEF Exit, Out
      <4> QED
        BY <1>5, <1>6, <4>2, <4>3
    <3> QED
      BY <3>1, <3>2
  <2> QED
    BY <2>2, <2>3, <2>4, <2>5, <2>6
<1>7. CASE ~Loading
  <2>1. P = prep
    BY <1>7 DEF Loading, Planned
  <2>2. Fits(b, P)
    BY <1>1, <1>7, <2>1 DEF ProfileInv
  <2> HIDE DEF P, b, e, d
  <2> QED
    BY <1>1, <1>2, <1>3, <1>6, <1>7, <2>1, <2>2 DEF P, b, e, d, v
<1>8. CASE Loading
  <2>1. P = Profile(b)
    BY <1>8 DEF Loading, Planned
  <2>2. prep.recalculate => prep.current = e
    BY <1>1, <1>8 DEF v
  <2> HIDE DEF b
  <2>3. /\ P \in ProfileType /\ P.current = e /\ ~P.recalculate
        /\ Holding => Held(e, d, P)
        /\ ~Holding => \/ Lowered(e, d, Top(b), ExitSpeed, P)
                       \/ AsPlanned(e, d, Top(b), ExitSpeed, P)
    BY <1>1, <1>5, <2>1, <2>2, ProfileLaw
  <2>4. Top(b) \in Nat /\ Top(b) > 0
    <3>1. Nominal(b) \in Nat \ {0}
      <4>1. f_override \in Nat /\ r_override \in Nat
        BY PlannerAssumption DEF TypeOK, DefaultOverride, RapidMedium, RapidLow
      <4> QED
        BY <1>1, <4>1, NominalTyped DEF Nominal
    <3> DEFINE n == Nominal(b)
    <3> HIDE DEF n
    <3>2. n \in Nat \ {0}
      BY <3>1 DEF n
    <3>3. n * n \in Nat /\ n * n > 0
      BY <3>2
    <3> QED
      BY <3>3 DEF n, Top
  <2> DEFINE N == Top(b)
             X == ExitSpeed
  <2> HIDE DEF N, X, P, e, d
  <2>5. P.exit \in Nat /\ P.mm_complete \in Nat /\ N \in Nat /\ N > 0 /\ X \in Nat
    BY <1>5, <2>3, <2>4 DEF ProfileType, N, X
  <2>6. \/ Holding /\ Held(e, d, P)
        \/ ~Holding /\ Lowered(e, d, N, X, P)
        \/ ~Holding /\ AsPlanned(e, d, N, X, P)
    BY <2>3 DEF N, X
  <2>7. /\ P.mm_complete <= d
        /\ P.mm_complete > 0 => Holding /\ P.exit = 0
        /\ Holding => P.ramp = "DECEL"
        /\ P.ramp = "DECEL" => P.current >= P.exit + (d - P.mm_complete)
    BY <1>2, <2>3, <2>5, <2>6 DEF Held, Lowered, AsPlanned
  <2>8. SystemMotion => P.ramp = "TRAPEZOID" /\ P.exit = 0
    <3> SUFFICES ASSUME SystemMotion PROVE P.ramp = "TRAPEZOID" /\ P.exit = 0
      OBVIOUS
    <3>1. e = 0 /\ d > 0 /\ X = 0 /\ ~Holding
      BY <1>1, <1>4, <1>8 DEF d, e, b, X, ExitSpeed
    <3> QED
      BY <1>2, <2>5, <2>6, <3>1 DEF Lowered, AsPlanned
  <2>9. Fits(b, P)
    BY <2>7, <2>8 DEF Fits, d
  <2>10. ASSUME NEW T \in [0..Count -> Nat], Stops(T), ~SystemMotion
         PROVE  /\ d \in Nat /\ T[0] = T[1] + d /\ T[0] \in Nat /\ T[1] \in Nat
                /\ P.current <= T[0] /\ P.exit <= T[1]
    <3> DEFINE t0 == T[0]
               t1 == T[1]
    <3>1. t0 = t1 + d /\ t0 \in Nat /\ t1 \in Nat /\ e <= t0 /\ X <= t1
      BY <1>6, <1>8, <2>10 DEF X
    <3> HIDE DEF t0, t1
    <3>2. P.current <= t0 /\ P.exit <= t1
      BY <1>2, <2>3, <2>5, <2>6, <3>1 DEF Held, Lowered, AsPlanned
    <3> QED
      BY <1>2, <3>1, <3>2 DEF t0, t1
  <2> QED
    BY <1>8, <2>3, <2>9, <2>10 DEF P, b, e, d
<1> QED
  BY <1>7, <1>8

-----------------------------------------------------------------------------
(* Writing one slot of the ring.                                           *)

(* W is the buffer B with c written at i.                                   *)
Written(B, W, i, c) == W = [B EXCEPT ![i] = c]

(* The speed of a profile at mm from the end of its block, by the ramp; and*)
(* if the profile can stop a distance t1 behind the block, the machine can *)
(* from there.                                                             *)
LEMMA SpeedLaw ==
  ASSUME NEW p \in ProfileType, NEW d \in Nat, NEW mm \in p.mm_complete..d,
         p.ramp = "DECEL" => p.current >= p.exit + (d - p.mm_complete)
  PROVE  /\ SpeedAt(p, d, mm) \in Nat
         /\ mm = p.mm_complete => SpeedAt(p, d, mm) = p.exit
         /\ p.ramp = "DECEL" => SpeedAt(p, d, mm) >= p.exit + (mm - p.mm_complete)
         /\ p.ramp = "DECEL" /\ mm # p.mm_complete =>
              SpeedAt(p, d, mm) = p.current - (d - mm)
         /\ p.ramp = "DECEL_OVERRIDE" /\ mm # p.mm_complete =>
              SpeedAt(p, d, mm) = Min2(Max2(p.maximum, p.current - (d - mm)), p.exit + mm)
         /\ p.ramp = "TRAPEZOID" /\ mm # p.mm_complete =>
              SpeedAt(p, d, mm) = Min2(Min2(p.maximum, p.current + (d - mm)), p.exit + mm)
         /\ \A t1 \in Nat : p.current <= t1 + d /\ p.exit <= t1 =>
              SpeedAt(p, d, mm) <= t1 + mm
<1> DEFINE c == p.current
           x == p.exit
           mc == p.mm_complete
           g == p.maximum
           s == SpeedAt(p, d, mm)
<1>1. c \in Nat /\ x \in Nat /\ mc \in Nat /\ g \in Nat /\ mm \in Nat
  BY DEF ProfileType
<1>2. p.ramp \in {"DECEL", "DECEL_OVERRIDE", "TRAPEZOID"}
  BY DEF ProfileType
<1>3. /\ mm = mc => s = x
      /\ p.ramp = "DECEL" /\ mm # mc => s = c - (d - mm)
      /\ p.ramp = "DECEL_OVERRIDE" /\ mm # mc => s = Min2(Max2(g, c - (d - mm)), x + mm)
      /\ p.ramp = "TRAPEZOID" /\ mm # mc => s = Min2(Min2(g, c + (d - mm)), x + mm)
  BY DEF SpeedAt
<1>4. mc <= mm /\ mm <= d
  BY <1>1
<1>5. p.ramp = "DECEL" => c >= x + (d - mc)
  OBVIOUS
<1> HIDE DEF c, x, mc, g, s
<1>6. CASE mm = mc
  BY <1>1, <1>2, <1>3, <1>4, <1>6 DEF c, x, mc, g, s
<1>7. CASE mm # mc /\ p.ramp = "DECEL"
  <2>1. s = c - (d - mm)
    BY <1>3, <1>7
  <2>2. s \in Nat /\ s >= x + (mm - mc) /\ \A t1 \in Nat : c <= t1 + d => s <= t1 + mm
    BY <1>1, <1>4, <1>5, <1>7, <2>1
  <2> QED
    BY <1>7, <2>1, <2>2 DEF c, x, mc, g, s
<1>8. CASE mm # mc /\ p.ramp = "DECEL_OVERRIDE"
  <2>1. s = Min2(Max2(g, c - (d - mm)), x + mm)
    BY <1>3, <1>8
  <2>2. s \in Nat /\ s <= x + mm
    BY <1>1, <1>4, <2>1 DEF Min2, Max2
  <2> QED
    BY <1>1, <1>8, <2>1, <2>2 DEF c, x, mc, g, s
<1>9. CASE mm # mc /\ p.ramp = "TRAPEZOID"
  <2>1. s = Min2(Min2(g, c + (d - mm)), x + mm)
    BY <1>3, <1>9
  <2>2. s \in Nat /\ s <= x + mm
    BY <1>1, <1>4, <2>1 DEF Min2
  <2> QED
    BY <1>1, <1>9, <2>1, <2>2 DEF c, x, mc, g, s
<1> QED
  BY <1>2, <1>6, <1>7, <1>8, <1>9

(* Writing the first block of a queue leaves the others.                   *)
LEMMA FirstChanged ==
  ASSUME NEW B \in [Index -> BlockType], NEW t \in Index, NEW c \in BlockType,
         NEW W, Written(B, W, t, c)
  PROVE  /\ W \in [Index -> BlockType] /\ At(W, t, 0) = c
         /\ \A k \in 1..Size - 1 : At(W, t, k) = At(B, t, k)
<1> USE DEF Written
<1>1. W \in [Index -> BlockType] /\ Ahead(t, 0) = t
  BY PlannerAssumption DEF Ahead, Index
<1>2. W[t] = c
  OBVIOUS
<1>3. ASSUME NEW k \in 1..Size - 1 PROVE At(W, t, k) = At(B, t, k)
  <2>1. Ahead(t, k) # t /\ Ahead(t, k) \in Index
    BY PlannerAssumption DEF Ahead, Index
  <2> QED
    BY <2>1 DEF At
<1> QED
  BY <1>1, <1>2, <1>3 DEF At

(* Discarding the first block makes the k-th block the one before it.      *)
LEMMA Discarded ==
  ASSUME NEW B \in [Index -> BlockType], NEW t \in Index, NEW c \in BlockType,
         NEW n \in 1..Size - 1, NEW W, Written(B, W, t, c),
         NEW u, u = plan_next_block_index(t)
  PROVE  /\ W \in [Index -> BlockType] /\ u \in Index
         /\ \A k \in 1..Size - 1 : Span(u, Ahead(t, k)) = k - 1
         /\ \A k \in 0..n - 2 : At(W, u, k) = At(B, t, k + 1)
<1> USE DEF Written
<1>1. W \in [Index -> BlockType] /\ u \in Index
  BY PlannerAssumption DEF Index, plan_next_block_index
<1>2. ASSUME NEW k \in 1..Size - 1 PROVE Span(u, Ahead(t, k)) = k - 1
  BY PlannerAssumption DEF Index, plan_next_block_index, Span, Ahead
<1>3. ASSUME NEW k \in 0..n - 2 PROVE At(W, u, k) = At(B, t, k + 1)
  <2>1. Ahead(u, k) = Ahead(t, k + 1) /\ Ahead(u, k) # t /\ Ahead(u, k) \in Index
    BY PlannerAssumption DEF Index, plan_next_block_index, Ahead
  <2> QED
    BY <2>1 DEF At
<1> QED
  BY <1>1, <1>2, <1>3

(* Writing the slot at the head adds a block behind the queue.             *)
LEMMA Appended ==
  ASSUME NEW B \in [Index -> BlockType], NEW t \in Index, NEW c \in BlockType,
         NEW n \in 0..Size - 2, NEW W, Written(B, W, Ahead(t, n), c)
  PROVE  /\ W \in [Index -> BlockType]
         /\ plan_next_block_index(Ahead(t, n)) = Ahead(t, n + 1)
         /\ At(W, t, n) = c
         /\ \A k \in 0..n - 1 : At(W, t, k) = At(B, t, k)
<1> USE DEF Written
<1> DEFINE h == Ahead(t, n)
<1>1. h \in Index /\ plan_next_block_index(h) = Ahead(t, n + 1)
  BY PlannerAssumption DEF Ahead, Index, plan_next_block_index
<1>2. \A k \in 0..n - 1 : Ahead(t, k) \in Index /\ Ahead(t, k) # h
  BY PlannerAssumption DEF Ahead, Index
<1>h. W = [B EXCEPT ![h] = c]
  OBVIOUS
<1> HIDE DEF h
<1>3. W \in [Index -> BlockType] /\ W[h] = c
  BY <1>1, <1>h
<1>4. ASSUME NEW k \in 0..n - 1 PROVE At(W, t, k) = At(B, t, k)
  BY <1>2, <1>h DEF At
<1> QED
  BY <1>1, <1>3, <1>4 DEF At, h

-----------------------------------------------------------------------------
(* Steps of st_prep_buffer keep the machine able to stop.                  *)

(* A segment within a block, or of a system motion, keeps the machine able *)
(* to stop (st_prep_buffer).                                               *)
LEMMA SegmentWithin ==
  ASSUME SafeInv, NEW mm, PrepSegment(mm), mm > 0 \/ SystemMotion
  PROVE  SafeInv'
<1> USE DEF SafeInv
<1> DEFINE t == block_buffer_tail
           b == Loaded
           p == Planned
           d == b.mm
           s == SpeedAt(p, d, mm)
           c == [b EXCEPT !.mm = mm]
<1>1. /\ Running /\ mm \in p.mm_complete..d - 1
      /\ prep' = [p EXCEPT !.current = s]
      /\ step_control' = IF mm = p.mm_complete THEN step_control \cup {"END_MOTION"}
                         ELSE step_control
      /\ block_buffer' = [block_buffer EXCEPT ![Work] = c]
      /\ pl_block' = Work
      /\ UNCHANGED <<block_buffer_tail, block_buffer_planned, slowed>>
      /\ UNCHANGED <<block_buffer_head, next_buffer_head, previous_nominal_speed,
                     state, hold_complete, f_override, r_override>>
  <2>1. mm # 0 \/ SystemMotion
    <3>1. mm > 0 => mm # 0
      OBVIOUS
    <3> QED
      BY <3>1
  <2>2. mm \in p.mm_complete..d - 1
    BY DEF PrepSegment
  <2> QED
    BY <2>1, <2>2 DEF PrepSegment
<1>2. /\ Work \in Index /\ Exec \in BlockType
      /\ ~SystemMotion => /\ Work = t /\ Count \in 1..Size - 1
                          /\ Exec = At(block_buffer, t, 0) /\ Exec.mm > 0
      /\ b \in BlockType /\ d = Exec.mm
  BY <1>1, LoadedLaw
<1>3. p \in ProfileType /\ ~p.recalculate /\ Fits(b, p)
      /\ \A T \in [0..Count -> Nat] : Stops(T) /\ ~SystemMotion =>
              /\ d \in Nat /\ T[0] = T[1] + d /\ T[0] \in Nat /\ T[1] \in Nat
              /\ p.current <= T[0] /\ p.exit <= T[1]
  BY <1>1, PlannedLaw
<1>4. d \in Nat /\ p.mm_complete \in Nat /\ p.exit \in Nat /\ p.current \in Nat
  BY <1>2, <1>3 DEF BlockType, ProfileType
<1>5. mm \in Nat /\ mm \in p.mm_complete..d
  BY <1>1, <1>4
<1>6. /\ s \in Nat
      /\ mm = p.mm_complete => s = p.exit
      /\ p.ramp = "DECEL" => s >= p.exit + (mm - p.mm_complete)
      /\ \A t1 \in Nat : p.current <= t1 + d /\ p.exit <= t1 => s <= t1 + mm
  <2>1. p.ramp = "DECEL" => p.current >= p.exit + (d - p.mm_complete)
    BY <1>3 DEF Fits
  <2> HIDE DEF p, b
  <2> QED
    BY <1>3, <1>4, <1>5, <2>1, SpeedLaw
<1> HIDE DEF s
<1>7. c \in BlockType /\ c.mm = mm /\ c.entry = b.entry
  <2> HIDE DEF b
  <2> QED
    BY <1>2, <1>5 DEF BlockType
<1> HIDE DEF c, p, b, d
<1>8. /\ prep' \in ProfileType /\ prep'.current = s /\ prep'.exit = p.exit
      /\ prep'.mm_complete = p.mm_complete /\ prep'.ramp = p.ramp
      /\ ~prep'.recalculate
  BY <1>1, <1>3, <1>6 DEF ProfileType
<1>9. /\ SystemMotion' = SystemMotion /\ Holding' = Holding
      /\ "END_MOTION" \in step_control' => mm = p.mm_complete
  BY <1>1 DEF SystemMotion, Holding, Running
<1>10. /\ Empty' = Empty /\ Count' = Count /\ Work' = Work /\ Offset' = Offset
       /\ Exec' = c /\ Loading' = FALSE
  <2>1. Empty' = Empty /\ Count' = Count /\ Work' = Work /\ Offset' = Offset
    BY <1>1, <1>9 DEF Empty, Count, Work, Offset
  <2>2. block_buffer \in [Index -> BlockType]
    BY DEF TypeOK, BlockType
  <2>3. Exec' = c
    BY <1>1, <1>2, <2>1, <2>2 DEF Exec
  <2>4. Loading' = FALSE
    BY PlannerAssumption, <1>1, <1>2 DEF Loading, NULL, Index
  <2> QED
    BY <2>1, <2>3, <2>4
<1>11. ~SystemMotion => /\ Count > 0 /\ ~Empty /\ mm > 0
                        /\ At(block_buffer', t, 0) = c
                        /\ \A k \in 1..Size - 1 : At(block_buffer', t, k) = At(block_buffer, t, k)
  <2>1. block_buffer \in [Index -> BlockType] /\ t \in Index
    BY DEF TypeOK, BlockType
  <2> SUFFICES ASSUME ~SystemMotion
               PROVE  /\ Count > 0 /\ ~Empty /\ mm > 0
                      /\ At(block_buffer', t, 0) = c
                      /\ \A k \in 1..Size - 1 :
                           At(block_buffer', t, k) = At(block_buffer, t, k)
    OBVIOUS
  <2>2. Count > 0 /\ ~Empty /\ mm > 0
    BY PlannerAssumption, <1>1, <1>2 DEF Running
  <2>3. Written(block_buffer, block_buffer', t, c)
    BY <1>1, <1>2 DEF Written
  <2>4. c \in BlockType
    BY <1>7
  <2>5. /\ At(block_buffer', t, 0) = c
        /\ \A k \in 1..Size - 1 : At(block_buffer', t, k) = At(block_buffer, t, k)
    BY <2>1, <2>3, <2>4, FirstChanged
  <2> QED
    BY <2>2, <2>5
<1>12. TypeOK'
  <2>1. block_buffer' \in [Index -> BlockType]
    <3>1. block_buffer \in [Index -> BlockType]
      BY DEF TypeOK, BlockType
    <3> QED
      BY <1>1, <1>2, <1>7, <3>1
  <2>2. pl_block' \in Index \cup {NULL}
    BY <1>1, <1>2
  <2>3. step_control' \subseteq {"EXECUTE_HOLD", "EXECUTE_SYS_MOTION", "END_MOTION"}
    BY <1>1 DEF TypeOK
  <2> QED
    BY <1>1, <1>8, <2>1, <2>2, <2>3 DEF TypeOK, BlockType, ProfileType
<1>13. RingInv'
  BY <1>1, <1>9, <1>10 DEF RingInv
<1>14. StateInv'
  <2>1. /\ SystemMotion <=> state = "HOMING"
        /\ Holding <=> state = "HOLD" /\ ~hold_complete
        /\ state = "HOMING" => Empty
        /\ hold_complete => state = "HOLD"
        /\ Empty => ~slowed
    BY DEF StateInv
  <2>2. state # "IDLE" /\ (SystemMotion \/ ~Empty)
    BY <1>1 DEF Running
  <2>3. ~SystemMotion /\ mm = p.mm_complete => Holding /\ s = 0
    BY <1>3, <1>6, <1>11 DEF Fits
  <2>4. "END_MOTION" \in step_control' =>
          \/ SystemMotion' /\ ~Loading'
          \/ /\ state' = "HOLD" /\ ~Empty' /\ prep'.current = 0
             /\ prep'.recalculate \/ (~Loading' /\ ~hold_complete')
    BY <1>1, <1>8, <1>9, <1>10, <2>1, <2>2, <2>3
  <2> QED
    BY <1>1, <1>8, <1>9, <1>10, <2>1, <2>2, <2>4 DEF StateInv, v
<1>15. SpeedInv'
  BY <1>1, <1>8, <1>9, <1>10, <1>11 DEF SpeedInv
<1>16. ProfileInv'
  <2>1. Fits(b, p) /\ mm >= p.mm_complete
    BY <1>3, <1>4, <1>5
  <2>2. /\ prep'.mm_complete <= c.mm
        /\ prep'.mm_complete > 0 => Holding' /\ prep'.exit = 0
        /\ Holding' => prep'.ramp = "DECEL"
        /\ prep'.ramp = "DECEL" =>
             prep'.current >= prep'.exit + (c.mm - prep'.mm_complete)
        /\ SystemMotion' => prep'.ramp = "TRAPEZOID" /\ prep'.exit = 0
    BY <1>6, <1>7, <1>8, <1>9, <2>1 DEF Fits
  <2> QED
    BY <1>10, <2>2 DEF ProfileInv, Fits
<1>17. LengthInv'
  <2>1. ASSUME NEW k \in 0..Count - 1 PROVE At(block_buffer', t, k).mm > 0
    <3>1. Count \in 1..Size - 1 /\ ~SystemMotion
      <4>1. ~Empty
        BY <2>1, QueueRing
      <4> QED
        BY <4>1, <1>2 DEF StateInv
    <3>2. CASE k = 0
      BY <1>7, <1>11, <3>1, <3>2
    <3>3. CASE k # 0
      <4>1. k \in 1..Size - 1
        BY PlannerAssumption, <3>1, <3>3
      <4>2. At(block_buffer, t, k).mm > 0
        BY DEF LengthInv, Lengthy
      <4> QED
        BY <1>11, <3>1, <4>1, <4>2
    <3> QED
      BY <3>2, <3>3
  <2> QED
    BY <1>1, <1>10, <2>1 DEF LengthInv, Lengthy
<1>18. EndInv'
  <2> SUFFICES ASSUME ~SystemMotion PROVE \E T \in [0..Count -> Nat] : Stops(T)'
    BY <1>9, <1>10, Zenon DEF EndInv
  <2>1. PICK T \in [0..Count -> Nat] : Stops(T)
    BY DEF EndInv
  <2> DEFINE t1 == T[1]
             R == [T EXCEPT ![0] = t1 + mm]
  <2>2. Count \in 1..Size - 1 /\ 0 \in 0..Count /\ 1 \in 0..Count
    BY PlannerAssumption, <1>2
  <2>3. t1 \in Nat /\ p.current <= t1 + d /\ p.exit <= t1
    BY <1>3, <2>1 DEF d
  <2>4. s <= t1 + mm
    BY <1>6, <2>3
  <2>5. R \in [0..Count -> Nat] /\ R[0] = t1 + mm
    BY <1>5, <2>2, <2>3
  <2>6. \A k \in 1..Count : R[k] = T[k]
    BY <2>2
  <2> HIDE DEF R
  <2>7. Distance(block_buffer', t, Count, R)
    <3>1. R[Count] = 0
      BY <2>1, <2>2, <2>6 DEF Stops, Distance
    <3>2. ASSUME NEW k \in 0..Count - 1
          PROVE  R[k] = R[k + 1] + At(block_buffer', t, k).mm
      <4>0. k + 1 \in 1..Count
        BY <2>2
      <4>1. R[k + 1] = T[k + 1]
        BY <2>6, <4>0
      <4>2. CASE k = 0
        BY <1>7, <1>11, <2>5, <4>1, <4>2
      <4>3. CASE k # 0
        <5>1. k \in 1..Count /\ k \in 1..Size - 1
          BY PlannerAssumption, <2>2, <4>3
        <5>2. T[k] = T[k + 1] + At(block_buffer, t, k).mm
          BY <2>1 DEF Stops, Distance
        <5> QED
          BY <1>11, <2>6, <4>1, <5>1, <5>2
      <4> QED
        BY <4>2, <4>3
    <3> QED
      BY <3>1, <3>2 DEF Distance
  <2>8. Within(block_buffer', t, Count, 1, R)
    <3>1. ASSUME NEW k \in 1..Count - 1 PROVE At(block_buffer', t, k).entry <= R[k]
      <4>1. k \in 1..Count /\ k \in 1..Size - 1
        BY PlannerAssumption, <2>2
      <4>2. At(block_buffer, t, k).entry <= T[k]
        BY <2>1 DEF Stops, Within
      <4> QED
        BY <1>11, <2>6, <4>1, <4>2
    <3> QED
      BY <3>1 DEF Within
  <2>9. prep'.current <= R[0] /\ prep'.exit <= R[1]
    BY <1>8, <2>2, <2>3, <2>4, <2>5, <2>6
  <2>10. Stops(R)'
    BY <1>1, <1>10, <2>7, <2>8, <2>9 DEF Stops, v
  <2> QED
    BY <2>5, <2>10
<1> QED
  BY <1>12, <1>13, <1>14, <1>15, <1>16, <1>17, <1>18

(* So does the segment that ends a block (plan_discard_current_block).     *)
LEMMA SegmentDiscards ==
  ASSUME SafeInv, NEW mm, PrepSegment(mm), mm = 0, ~SystemMotion
  PROVE  SafeInv'
<1> USE DEF SafeInv
<1> DEFINE t == block_buffer_tail
           u == plan_next_block_index(t)
           b == Loaded
           p == Planned
           d == b.mm
           s == SpeedAt(p, d, mm)
           n == Count
<1>1. /\ Running /\ mm \in p.mm_complete..d - 1
      /\ prep' = [p EXCEPT !.current = s]
      /\ step_control' = step_control
      /\ block_buffer' = [block_buffer EXCEPT ![Work] = FreeBlock]
      /\ pl_block' = NULL /\ plan_discard_current_block
      /\ UNCHANGED <<block_buffer_head, next_buffer_head, previous_nominal_speed,
                     state, hold_complete, f_override, r_override>>
  BY DEF PrepSegment
<1>2. /\ Work = t /\ n \in 1..Size - 1 /\ Exec = At(block_buffer, t, 0)
      /\ b \in BlockType /\ d = Exec.mm
  BY <1>1, LoadedLaw
<1>3. p \in ProfileType /\ ~p.recalculate /\ Fits(b, p)
      /\ \A T \in [0..n -> Nat] : Stops(T) /\ ~SystemMotion =>
              /\ d \in Nat /\ T[0] = T[1] + d /\ T[0] \in Nat /\ T[1] \in Nat
              /\ p.current <= T[0] /\ p.exit <= T[1]
  BY <1>1, PlannedLaw
<1>4. d \in Nat /\ p.mm_complete \in Nat /\ p.exit \in Nat /\ p.current \in Nat
  BY <1>2, <1>3 DEF BlockType, ProfileType
<1>5. mm = p.mm_complete /\ mm \in p.mm_complete..d
  BY <1>1, <1>4
<1>6. s = p.exit
  BY <1>5 DEF SpeedAt
<1> HIDE DEF s
<1> HIDE DEF p, b, d
<1>7. /\ prep' \in ProfileType /\ prep'.current = s /\ prep'.exit = s
      /\ ~prep'.recalculate /\ s \in Nat
  BY <1>1, <1>3, <1>4, <1>6 DEF ProfileType
<1>8. /\ t \in Index /\ block_buffer_head = Ahead(t, n)
      /\ block_buffer \in [Index -> BlockType]
      /\ Empty <=> n = 0
  BY QueueRing
<1>9. FreeBlock \in BlockType
  BY DEF FreeBlock, BlockType
<1>10. /\ block_buffer' \in [Index -> BlockType] /\ u \in Index
       /\ \A k \in 1..Size - 1 : Span(u, Ahead(t, k)) = k - 1
       /\ \A k \in 0..n - 2 : At(block_buffer', u, k) = At(block_buffer, t, k + 1)
  <2>1. Written(block_buffer, block_buffer', t, FreeBlock)
    BY <1>1, <1>2 DEF Written
  <2>2. n \in 1..Size - 1
    BY <1>2
  <2> HIDE DEF u, n
  <2>3. u = plan_next_block_index(t)
    BY DEF u
  <2> QED
    BY <1>8, <1>9, <2>1, <2>2, <2>3, Discarded
<1>11. /\ block_buffer_tail' = u /\ Count' = n - 1 /\ Loading'
       /\ SystemMotion' = SystemMotion /\ Holding' = Holding
       /\ Empty' <=> n = 1
       /\ "END_MOTION" \notin step_control'
  <2>1. block_buffer_tail' = u
    BY <1>1 DEF plan_discard_current_block
  <2>2. Count' = Span(u, Ahead(t, n))
    BY <1>1, <1>8, <2>1 DEF Count
  <2>3. Count' = n - 1
    BY <1>2, <1>10, <2>2
  <2>4. Empty' <=> n = 1
    <3>1. (block_buffer_head = u) <=> n = 1
      BY PlannerAssumption, <1>2, <1>8 DEF u, plan_next_block_index, Ahead, Index
    <3> QED
      BY <1>1, <2>1, <3>1 DEF Empty
  <2> QED
    BY <1>1, <2>1, <2>3, <2>4 DEF Loading, SystemMotion, Holding, Running
<1>12. TypeOK'
  <2>1. block_buffer_planned' \in Index
    BY <1>1, <1>10 DEF plan_discard_current_block, TypeOK
  <2>2. slowed' \in BOOLEAN
    BY <1>1 DEF plan_discard_current_block
  <2>3. pl_block' \in Index \cup {NULL}
    BY <1>1
  <2> QED
    BY <1>1, <1>7, <1>10, <1>11, <2>1, <2>2, <2>3 DEF TypeOK, BlockType, ProfileType
<1>13. RingInv'
  <2>1. ~Empty' => Offset' < Count'
    <3> SUFFICES ASSUME ~Empty' PROVE Offset' < n - 1
      BY <1>11
    <3>1. n > 1
      BY <1>2, <1>11
    <3>2. Offset \in 0..Size - 1 /\ Ahead(t, Offset) = block_buffer_planned /\ Offset < n
      <4>1. block_buffer_planned \in Index
        BY DEF TypeOK
      <4>2. ~Empty
        BY PlannerAssumption, <1>8, <3>1
      <4> QED
        BY <1>8, <4>1, <4>2, SpanLaw DEF Offset, RingInv
    <3>3. CASE Offset = 0
      <4>1. block_buffer_planned = t
        BY PlannerAssumption, <3>2, <3>3, QueueRing
      <4>2. block_buffer_planned' = u
        BY <1>1, <4>1 DEF plan_discard_current_block
      <4>3. Offset' = 0
        BY PlannerAssumption, <1>10, <1>11, <4>2 DEF Offset, Span, Index
      <4> QED
        BY <1>2, <3>1, <4>3
    <3>4. CASE Offset # 0
      <4>1. block_buffer_planned # t
        BY PlannerAssumption, <1>8, <3>4 DEF Offset, Span, Index
      <4>2. block_buffer_planned' = block_buffer_planned
        BY <1>1, <4>1 DEF plan_discard_current_block
      <4>3. Offset' = Span(u, Ahead(t, Offset))
        BY <1>11, <3>2, <4>2 DEF Offset
      <4>4. Offset \in 1..Size - 1
        BY PlannerAssumption, <3>2, <3>4
      <4>5. Offset' = Offset - 1
        BY <1>10, <4>3, <4>4
      <4> QED
        BY <1>2, <3>2, <4>5
    <3> QED
      BY <3>3, <3>4
  <2> QED
    BY <1>1, <2>1 DEF RingInv
<1>14. StateInv'
  <2>1. /\ SystemMotion <=> state = "HOMING"
        /\ Holding <=> state = "HOLD" /\ ~hold_complete
        /\ hold_complete => state = "HOLD"
    BY DEF StateInv
  <2>2. Empty' => ~slowed'
    BY <1>1, <1>11 DEF plan_discard_current_block, Empty
  <2> QED
    BY <1>1, <1>7, <1>11, <2>1, <2>2 DEF StateInv
<1>15. PICK T \in [0..n -> Nat] : Stops(T)
  BY DEF EndInv
<1>16. T[1] \in Nat /\ s <= T[1]
  BY <1>3, <1>6, <1>15
<1>17. SpeedInv'
  <2>1. n = 1 => s = 0
    <3>1. T[n] = 0
      BY <1>15 DEF Stops, Distance
    <3> QED
      BY <1>7, <1>16, <3>1
  <2> QED
    BY <1>1, <1>7, <1>11, <2>1 DEF SpeedInv, v
<1>18. ProfileInv'
  BY <1>11 DEF ProfileInv
<1>19. LengthInv'
  <2>1. ASSUME NEW k \in 0..n - 2 PROVE At(block_buffer', u, k).mm > 0
    <3>1. k + 1 \in 0..n - 1
      BY <1>2
    <3>2. At(block_buffer, t, k + 1).mm > 0
      BY <3>1 DEF LengthInv, Lengthy
    <3> QED
      BY <1>10, <3>2
  <2>2. 0..(n - 1) - 1 = 0..n - 2
    BY <1>2
  <2> QED
    BY <1>11, <2>1, <2>2 DEF LengthInv, Lengthy
<1>20. EndInv'
  <2>1. PICK R \in [0..n - 1 -> Nat] : \A k \in 0..n - 1 : R[k] = T[k + 1]
    <3> DEFINE Q == [k \in 0..n - 1 |-> T[k + 1]]
    <3>1. Q \in [0..n - 1 -> Nat] /\ \A k \in 0..n - 1 : Q[k] = T[k + 1]
      BY <1>2
    <3> HIDE DEF Q
    <3> QED
      BY <3>1
  <2> HIDE DEF n
  <2>2. Distance(block_buffer', u, n - 1, R)
    <3>1. R[n - 1] = 0
      <4>1. n - 1 \in 0..n - 1 /\ (n - 1) + 1 = n
        BY <1>2
      <4>2. T[n] = 0
        BY <1>15 DEF Stops, Distance, n
      <4> QED
        BY <2>1, <4>1, <4>2
    <3>2. ASSUME NEW k \in 0..(n - 1) - 1
          PROVE  R[k] = R[k + 1] + At(block_buffer', u, k).mm
      <4>1. k + 1 \in 0..n - 1 /\ k \in 0..n - 1 /\ k \in 0..n - 2
        BY <1>2
      <4>2. T[k + 1] = T[(k + 1) + 1] + At(block_buffer, t, k + 1).mm
        BY <1>15, <4>1 DEF Stops, Distance, n
      <4> QED
        BY <1>10, <2>1, <4>1, <4>2
    <3> QED
      BY <3>1, <3>2 DEF Distance
  <2>3. ASSUME NEW k \in 0..(n - 1) - 1
        PROVE  At(block_buffer', u, k).entry <= R[k]
    <3>1. k + 1 \in 1..n - 1 /\ k \in 0..n - 1 /\ k \in 0..n - 2
      BY <1>2
    <3>2. At(block_buffer, t, k + 1).entry <= T[k + 1]
      BY <1>15, <3>1 DEF Stops, Within, n
    <3> QED
      BY <1>10, <2>1, <3>1, <3>2
  <2>4. Within(block_buffer', u, n - 1, 1, R)
    <3>1. \A k \in 1..(n - 1) - 1 : k \in 0..(n - 1) - 1
      BY <1>2
    <3> QED
      BY <2>3, <3>1 DEF Within
  <2>5. R[0] = T[1] /\ s <= R[0]
    <3>1. 0 \in 0..n - 1
      BY <1>2
    <3> QED
      BY <1>16, <2>1, <3>1
  <2>6. Empty' \/ Block(0)'.entry <= R[0]
    <3>1. Block(0)' = At(block_buffer', u, 0)
      BY <1>11 DEF Block, At
    <3>2. ~Empty' => 0 \in 0..(n - 1) - 1
      BY <1>2, <1>11 DEF n
    <3> QED
      BY <2>3, <3>1, <3>2
  <2>7. Stops(R)'
    BY <1>7, <1>11, <2>2, <2>4, <2>5, <2>6 DEF Stops, v, n
  <2> QED
    BY <1>11, <2>1, <2>7 DEF EndInv, n
<1> QED
  BY <1>12, <1>13, <1>14, <1>17, <1>18, <1>19, <1>20

-----------------------------------------------------------------------------
(* Planning anew keeps it able to stop.                                    *)

(* The queue B of n blocks, which begins with the block in execution, can   *)
(* be stopped at its end, T its distances to there.                        *)
Room(B, n, T) ==
  /\ Distance(B, block_buffer_tail, n, T) /\ Within(B, block_buffer_tail, n, 1, T)
  /\ v <= T[0]
  /\ Loading /\ n > 0 => At(B, block_buffer_tail, 0).entry <= T[0]

(* st_update_plan_block_parameters changes the entry speed of the first    *)
(* block only, to the speed now.                                           *)
LEMMA UpdatedLaw ==
  ASSUME SafeInv, ~SystemMotion, ~Empty, NEW B \in [Index -> BlockType]
  PROVE  LET t == block_buffer_tail
         IN  /\ Updated(B) \in [Index -> BlockType]
             /\ At(Updated(B), t, 0) =
                  [At(B, t, 0) EXCEPT !.entry = IF Loading THEN At(B, t, 0).entry ELSE v]
             /\ \A k \in 1..Size - 1 : At(Updated(B), t, k) = At(B, t, k)
<1> DEFINE t == block_buffer_tail
<1>1. t \in Index /\ Ahead(t, 0) = t /\ v \in Nat
  BY QueueRing DEF SafeInv, TypeOK, v
<1>2. At(B, t, 0) \in BlockType /\ B[t] = At(B, t, 0)
  BY <1>1 DEF At
<1>3. CASE Loading
  <2>1. Updated(B) = B
    BY <1>3 DEF Updated, Loading
  <2>2. At(B, t, 0) = [At(B, t, 0) EXCEPT !.entry = At(B, t, 0).entry]
    BY <1>2 DEF BlockType
  <2> QED
    BY <1>3, <2>1, <2>2
<1>4. CASE ~Loading
  <2> DEFINE c == [B[t] EXCEPT !.entry = v]
  <2>1. pl_block = t
    BY <1>4 DEF Loading, SafeInv, RingInv, Work
  <2>2. Updated(B) = [B EXCEPT ![t] = c]
    BY <1>4, <2>1 DEF Updated, Loading, v
  <2>3. c \in BlockType
    BY <1>1, <1>2 DEF BlockType
  <2>4. c = [At(B, t, 0) EXCEPT !.entry = v]
    BY <1>2
  <2> HIDE DEF c
  <2>5. Written(B, Updated(B), t, c)
    BY <2>2 DEF Written
  <2>6. /\ Updated(B) \in [Index -> BlockType] /\ At(Updated(B), t, 0) = c
        /\ \A k \in 1..Size - 1 : At(Updated(B), t, k) = At(B, t, k)
    BY <1>1, <2>3, <2>5, FirstChanged
  <2> QED
    BY <1>4, <2>4, <2>6
<1> QED
  BY <1>3, <1>4

(* A queue that can be stopped at its end still can after it.              *)
LEMMA UpdatedRoom ==
  ASSUME SafeInv, ~SystemMotion, ~Empty, NEW B \in [Index -> BlockType],
         NEW n \in 1..Size - 1, NEW T \in [0..n -> Nat], Room(B, n, T)
  PROVE  LET t == block_buffer_tail
         IN  /\ Distance(Updated(B), t, n, T)
             /\ Within(Updated(B), t, n, 0, T)
             /\ Lengthy(B, t, n) => Lengthy(Updated(B), t, n)
<1> DEFINE t == block_buffer_tail
           U == Updated(B)
<1>1. /\ U \in [Index -> BlockType]
      /\ At(U, t, 0) = [At(B, t, 0) EXCEPT !.entry = IF Loading THEN At(B, t, 0).entry ELSE v]
      /\ \A k \in 1..Size - 1 : At(U, t, k) = At(B, t, k)
  BY UpdatedLaw
<1>2. At(B, t, 0) \in BlockType /\ n \in Nat /\ Size \in Nat
  BY PlannerAssumption, QueueRing, AheadLaw DEF At, SafeInv
<1>3. /\ At(U, t, 0).entry = IF Loading THEN At(B, t, 0).entry ELSE v
      /\ At(U, t, 0).mm = At(B, t, 0).mm
  BY <1>1, <1>2 DEF BlockType
<1>4. \A k \in 0..n - 1 : k = 0 \/ k \in 1..Size - 1
  BY <1>2
<1> HIDE DEF U
<1>5. \A k \in 0..n - 1 : At(U, t, k).mm = At(B, t, k).mm
  BY <1>1, <1>3, <1>4
<1>6. Distance(U, t, n, T)
  BY <1>5 DEF Room, Distance
<1>7. ASSUME NEW k \in 0..n - 1 PROVE At(U, t, k).entry <= T[k]
  <2>1. CASE k = 0
    BY <1>2, <1>3, <2>1 DEF Room
  <2>2. CASE k # 0
    <3>1. k \in 1..n - 1 /\ k \in 1..Size - 1
      BY <1>2, <2>2
    <3> QED
      BY <1>1, <3>1 DEF Room, Within
  <2> QED
    BY <2>1, <2>2
<1>8. Within(U, t, n, 0, T)
  BY <1>7 DEF Within
<1>9. Lengthy(B, t, n) => Lengthy(U, t, n)
  BY <1>5 DEF Lengthy
<1> QED
  BY <1>6, <1>8, <1>9 DEF U

(* plan_cycle_reinitialize: the queue is planned anew from the speed now,  *)
(* and can still be stopped at its end.                                    *)
LEMMA Reinitialized ==
  ASSUME SafeInv, ~SystemMotion, ~Empty, NEW B \in [Index -> BlockType],
         NEW n \in 1..Size - 1,
         st_update_plan_block_parameters,
         planner_recalculate(Updated(B), block_buffer_tail, Ahead(block_buffer_tail, n)),
         block_buffer_tail' = block_buffer_tail,
         block_buffer_head' = Ahead(block_buffer_tail, n),
         SystemMotion' = FALSE,
         At(B, block_buffer_tail, 0).entry = At(block_buffer, block_buffer_tail, 0).entry,
         Lengthy(B, block_buffer_tail, n),
         \E T \in [0..n -> Nat] : Room(B, n, T)
  PROVE  /\ block_buffer' \in [Index -> BlockType] /\ block_buffer_planned' \in Index
         /\ pl_block' = NULL /\ prep' \in ProfileType /\ prep'.current = v
         /\ Loading' /\ ~Empty' /\ Count' = n /\ Offset' < Count'
         /\ prep'.recalculate <=> prep.recalculate \/ ~Loading
         /\ SpeedInv' /\ ProfileInv' /\ LengthInv' /\ EndInv'
<1> DEFINE t == block_buffer_tail
           U == Updated(B)
           W == block_buffer'
<1>1. /\ t \in Index /\ Ahead(t, 0) = t
      /\ block_buffer[t] = At(block_buffer, t, 0) /\ Block(0) = At(block_buffer, t, 0)
  BY QueueRing DEF SafeInv
<1>2. /\ U \in [Index -> BlockType]
      /\ At(U, t, 0) = [At(B, t, 0) EXCEPT !.entry = IF Loading THEN At(B, t, 0).entry ELSE v]
  BY UpdatedLaw
<1>3. At(B, t, 0) \in BlockType
  BY <1>1 DEF At
<1>4. At(U, t, 0).entry = IF Loading THEN At(B, t, 0).entry ELSE v
  BY <1>2, <1>3 DEF BlockType
<1>5. PICK T \in [0..n -> Nat] : Room(B, n, T)
  OBVIOUS
<1>6. Distance(U, t, n, T) /\ Within(U, t, n, 0, T) /\ Lengthy(U, t, n)
  BY <1>5, UpdatedRoom
<1>7. block_buffer_planned' \in Index
      /\ Replaced(U, W, t, n, 0, Span(t, block_buffer_planned'))
  <2>1. 0 \in 0..n - 1
    OBVIOUS
  <2>2. planner_recalculate(U, Ahead(t, 0), Ahead(t, n))
    BY <1>1
  <2> HIDE DEF U, W
  <2>3. U \in [Index -> BlockType]
    BY <1>2
  <2> QED
    BY <1>1, <2>1, <2>2, <2>3, Recalculation DEF W
<1> HIDE DEF U
<1>8. /\ W \in [Index -> BlockType] /\ Span(t, block_buffer_planned') \in 0..n - 1
      /\ At(W, t, 0) = At(U, t, 0) /\ Lengthy(W, t, n)
      /\ Distance(W, t, n, T) /\ Within(W, t, n, 0, T)
  <2>1. 0 \in 0..0
    OBVIOUS
  <2> QED
    BY <1>6, <1>7, <2>1 DEF Replaced
<1>9. /\ Count' = n /\ Offset' = Span(t, block_buffer_planned')
      /\ Block(0)' = At(W, t, 0)
  <2>1. Span(t, Ahead(t, n)) = n
    BY <1>1, AheadLaw
  <2> QED
    BY <2>1 DEF Count, Offset, Block, At
<1>10. ~Empty'
  <2>1. Ahead(t, n) # t
    BY PlannerAssumption, <1>1 DEF Ahead, Index
  <2> QED
    BY <2>1 DEF Empty
<1>11. /\ pl_block' = NULL /\ Loading'
       /\ prep' = IF Loading THEN prep ELSE [prep EXCEPT !.recalculate = TRUE]
  BY DEF st_update_plan_block_parameters, Loading
<1>12. prep \in ProfileType
  BY DEF SafeInv, TypeOK, ProfileType
<1>13. /\ prep' \in ProfileType /\ prep'.current = v /\ prep'.exit = prep.exit
       /\ prep'.recalculate <=> prep.recalculate \/ ~Loading
  BY <1>11, <1>12 DEF ProfileType, v
<1>14. SpeedInv'
  <2>1. prep.recalculate => v = At(block_buffer, t, 0).entry /\ Loading
    BY <1>1 DEF SafeInv, SpeedInv, StateInv
  <2>2. prep'.recalculate => prep'.current = Block(0)'.entry
    BY <1>4, <1>8, <1>9, <1>13, <2>1
  <2>3. ~prep'.recalculate => prep'.current = prep'.exit
    BY <1>13 DEF SafeInv, SpeedInv
  <2> QED
    BY <1>10, <2>2, <2>3 DEF SpeedInv, v
<1>15. ProfileInv'
  BY <1>11 DEF ProfileInv
<1>16. LengthInv'
  BY <1>8, <1>9 DEF LengthInv
<1>17. EndInv'
  <2>1. At(W, t, 0).entry <= T[0]
    BY <1>8 DEF Within
  <2>2. Within(W, t, n, 1, T)
    <3>1. \A k \in 1..n - 1 : k \in 0..n - 1
      OBVIOUS
    <3> QED
      BY <1>8, <3>1 DEF Within
  <2>3. prep'.current <= T[0]
    BY <1>5, <1>13 DEF Room
  <2>4. Stops(T)'
    BY <1>8, <1>9, <1>11, <2>1, <2>2, <2>3 DEF Stops, v
  <2> QED
    BY <1>9, <2>4 DEF EndInv
<1> QED
  BY <1>7, <1>8, <1>9, <1>10, <1>11, <1>13, <1>14, <1>15, <1>16, <1>17

-----------------------------------------------------------------------------
(* The steps that leave the queue as it is, or empty it.                   *)

(* Steps that touch neither the queue nor the stepper keep what is known of*)
(* them.                                                                   *)
LEMMA Quiet ==
  ASSUME SafeInv, UNCHANGED <<queue, stepper>>, Holding' = Holding,
         SystemMotion' = SystemMotion
  PROVE  RingInv' /\ SpeedInv' /\ ProfileInv' /\ LengthInv' /\ EndInv'
<1>1. /\ UNCHANGED <<block_buffer, block_buffer_tail, block_buffer_head, next_buffer_head,
                     block_buffer_planned>>
      /\ UNCHANGED <<pl_block, prep>>
  BY DEF queue, ring, stepper
<1>2. /\ Count' = Count /\ Empty' = Empty /\ Work' = Work /\ Exec' = Exec
      /\ Offset' = Offset /\ Loading' = Loading /\ Block(0)' = Block(0) /\ v' = v
  BY <1>1 DEF Count, Empty, Work, Exec, Offset, Loading, Block, v
<1>3. RingInv'
  BY <1>1, <1>2 DEF SafeInv, RingInv
<1>4. SpeedInv'
  BY <1>1, <1>2 DEF SafeInv, SpeedInv
<1>5. ProfileInv'
  BY <1>1, <1>2 DEF SafeInv, ProfileInv, Fits
<1>6. LengthInv'
  BY <1>1, <1>2 DEF SafeInv, LengthInv
<1>7. EndInv'
  <2>1. \A T : Stops(T)' <=> Stops(T)
    BY <1>1, <1>2 DEF Stops
  <2> QED
    BY <1>1, <1>2, <2>1, Zenon DEF SafeInv, EndInv
<1> QED
  BY <1>3, <1>4, <1>5, <1>6, <1>7

(* An empty queue and a stepper that is reset: nothing moves.              *)
LEMMA FreshStart ==
  ASSUME TypeOK', Empty', Loading', prep' = Stopped, ~SystemMotion', Count' = 0
  PROVE  SpeedInv' /\ ProfileInv' /\ LengthInv' /\ EndInv'
<1>1. SpeedInv' /\ ProfileInv'
  BY DEF SpeedInv, ProfileInv, Stopped, v
<1>2. LengthInv'
  BY DEF LengthInv, Lengthy
<1>3. EndInv'
  <2> DEFINE T == [k \in 0..0 |-> 0]
  <2>1. T \in [0..0 -> Nat] /\ T[0] = 0
    OBVIOUS
  <2> HIDE DEF T
  <2>2. Distance(block_buffer', block_buffer_tail', 0, T)
    BY <2>1 DEF Distance
  <2>3. Within(block_buffer', block_buffer_tail', 0, 1, T)
    BY DEF Within
  <2>4. prep'.current = 0
    BY DEF Stopped
  <2>5. \E R \in [0..Count' -> Nat] : Stops(R)'
    <3>1. PICK R \in [0..0 -> Nat] : R = T
      BY <2>1
    <3>2. Stops(R)'
      BY <2>1, <2>2, <2>3, <2>4, <3>1 DEF Stops, v
    <3> QED
      BY <3>2
  <2> QED
    BY <2>5, Zenon DEF EndInv
<1> QED
  BY <1>1, <1>2, <1>3

(* The controller starts safe.                                             *)
LEMMA StartSafe ==
  ASSUME Init
  PROVE  SafeInv
<1> USE PlannerAssumption
<1>1. Init
  OBVIOUS
<1>2. TypeOK
  <2>1. FreeBlock \in BlockType /\ Stopped \in ProfileType
    BY DEF FreeBlock, BlockType, Stopped, ProfileType
  <2>2. [i \in Index |-> FreeBlock] \in [Index -> BlockType]
    BY <2>1
  <2>3. /\ {0, 1} \subseteq Index /\ NULL = Size
        /\ DefaultOverride \in MinFeed..MaxFeed
    BY DEF Index, NULL, DefaultOverride
  <2> QED
    <3>1. block_buffer \in [Index -> BlockType]
      BY <1>1, <2>2 DEF Init
    <3>2. prep \in ProfileType
      BY <1>1, <2>1 DEF Init
    <3>3. /\ {block_buffer_tail, block_buffer_head, next_buffer_head,
               block_buffer_planned} \subseteq Index
          /\ previous_nominal_speed \in Nat /\ pl_block \in Index \cup {NULL}
      BY <1>1, <2>3 DEF Init
    <3>4. /\ state \in {"IDLE", "CYCLE", "HOLD", "HOMING"}
          /\ step_control \subseteq {"EXECUTE_HOLD", "EXECUTE_SYS_MOTION", "END_MOTION"}
          /\ {hold_complete, slowed} \subseteq BOOLEAN
          /\ f_override \in MinFeed..MaxFeed
          /\ r_override \in {DefaultOverride, RapidMedium, RapidLow}
      BY <1>1, <2>3 DEF Init
    <3> QED
      BY <3>1, <3>2, <3>3, <3>4 DEF TypeOK, BlockType, ProfileType
<1>3. Empty /\ Count = 0 /\ Loading /\ ~SystemMotion /\ ~Holding /\ prep = Stopped
  BY <1>1 DEF Init, Empty, Count, Span, Loading, SystemMotion, Holding
<1>4. RingInv
  BY <1>1, <1>3 DEF Init, RingInv, Loading, plan_next_block_index
<1>5. StateInv
  BY <1>1, <1>3 DEF Init, StateInv, Stopped
<1>6. SpeedInv /\ ProfileInv
  BY <1>3 DEF SpeedInv, ProfileInv, Stopped, v
<1>7. LengthInv
  BY <1>3 DEF LengthInv, Lengthy
<1>8. EndInv
  <2> DEFINE T == [k \in 0..0 |-> 0]
  <2>1. T \in [0..0 -> Nat] /\ T[0] = 0
    OBVIOUS
  <2> HIDE DEF T
  <2>2. Distance(block_buffer, block_buffer_tail, 0, T)
    BY <2>1 DEF Distance
  <2>3. Within(block_buffer, block_buffer_tail, 0, 1, T)
    BY DEF Within
  <2>4. prep.current = 0
    BY <1>3 DEF Stopped
  <2>5. Stops(T)
    BY <1>3, <2>1, <2>2, <2>3, <2>4 DEF Stops, v
  <2> QED
    BY <1>3, <2>1, <2>5 DEF EndInv
<1> QED
  BY <1>2, <1>4, <1>5, <1>6, <1>7, <1>8 DEF SafeInv

(* A reset leaves it safe (main.c, plan_reset and st_reset).               *)
LEMMA ResetSafe ==
  ASSUME Reset
  PROVE  SafeInv'
<1> USE PlannerAssumption
<1>2. TypeOK'
  <2>1. FreeBlock \in BlockType /\ Stopped \in ProfileType
    BY DEF FreeBlock, BlockType, Stopped, ProfileType
  <2>2. [i \in Index |-> FreeBlock] \in [Index -> BlockType]
    BY <2>1
  <2>3. /\ {0, 1} \subseteq Index /\ NULL = Size
        /\ DefaultOverride \in MinFeed..MaxFeed
    BY DEF Index, NULL, DefaultOverride
  <2> QED
    BY <2>1, <2>2, <2>3 DEF Reset, TypeOK, BlockType, ProfileType
<1>3. Empty' /\ Count' = 0 /\ Loading' /\ ~SystemMotion' /\ ~Holding' /\ prep' = Stopped
  BY DEF Reset, Empty, Count, Span, Loading, SystemMotion, Holding
<1>4. RingInv'
  BY <1>3 DEF Reset, RingInv, Loading, plan_next_block_index
<1>5. StateInv'
  BY <1>3 DEF Reset, StateInv, Stopped
<1> QED
  BY <1>2, <1>3, <1>4, <1>5, FreshStart DEF SafeInv

(* So does beginning a system motion (plan_buffer_line for homing)         *)
LEMMA SystemMotionSafe ==
  ASSUME SafeInv, NEW m \in SystemLengths, BeginSystemMotion(m)
  PROVE  SafeInv'
<1> USE PlannerAssumption DEF SafeInv
<1> DEFINE c == [FreeBlock EXCEPT !.kind = "fixed", !.rate = RapidRate, !.mm = m]
<1>1. c \in BlockType /\ c.mm = m /\ c.entry = 0 /\ m > 0 /\ m \in Nat
  <2>1. m \in Nat /\ m > 0 /\ RapidRate \in Nat
    OBVIOUS
  <2>2. FreeBlock \in BlockType /\ FreeBlock.entry = 0
    BY DEF BlockType, FreeBlock
  <2> HIDE PlannerAssumption
  <2> HIDE DEF SafeInv
  <2> QED
    BY <2>1, <2>2 DEF BlockType
<1>2. /\ state = "IDLE" /\ Empty
      /\ block_buffer' = [block_buffer EXCEPT ![block_buffer_head] = c]
      /\ state' = "HOMING" /\ step_control' = {"EXECUTE_SYS_MOTION"}
      /\ UNCHANGED <<block_buffer_tail, block_buffer_head, next_buffer_head,
                     block_buffer_planned, previous_nominal_speed, pl_block, prep,
                     hold_complete, f_override, r_override, slowed>>
  BY DEF BeginSystemMotion, ring, stepper, override
<1> HIDE DEF c
<1>3. block_buffer_head \in Index /\ block_buffer \in [Index -> BlockType]
  BY QueueRing
<1>4. /\ Loading /\ ~hold_complete /\ v = 0 /\ prep.exit = 0 /\ ~prep.recalculate /\ ~slowed
      /\ ~SystemMotion
  BY <1>2 DEF StateInv, SpeedInv
<1>5. TypeOK'
  <2>1. block_buffer' \in [Index -> BlockType]
    BY <1>1, <1>2, <1>3
  <2> QED
    BY <1>2, <2>1 DEF TypeOK, BlockType
<1>6. /\ Empty' /\ Loading' /\ SystemMotion' /\ ~Holding' /\ Work' = block_buffer_head
      /\ Count' = Count /\ Exec' = c
  BY <1>2, <1>3, <1>4 DEF Empty, Loading, SystemMotion, Holding, Work, Exec, Count
<1>7. RingInv'
  BY <1>2, <1>4, <1>6 DEF RingInv, Loading
<1>8. StateInv'
  BY <1>2, <1>4, <1>6 DEF StateInv
<1>9. SpeedInv'
  BY <1>1, <1>2, <1>4, <1>6 DEF SpeedInv, v
<1>10. ProfileInv' /\ EndInv'
  BY <1>6 DEF ProfileInv, EndInv
<1>11. LengthInv'
  <2>1. Count = 0
    BY <1>2, QueueRing
  <2> QED
    BY <1>6, <2>1 DEF LengthInv, Lengthy
<1> QED
  BY <1>5, <1>7, <1>8, <1>9, <1>10, <1>11

(* and ending it (limits_go_home).                                         *)
LEMMA SystemMotionEndSafe ==
  ASSUME SafeInv, EndSystemMotion
  PROVE  SafeInv'
<1> USE DEF SafeInv
<1>1. /\ state = "HOMING"
      /\ block_buffer' = [block_buffer EXCEPT ![block_buffer_head] = FreeBlock]
      /\ pl_block' = NULL /\ prep' = Stopped
      /\ state' = "IDLE" /\ step_control' = {}
      /\ UNCHANGED <<block_buffer_tail, block_buffer_head, next_buffer_head,
                     block_buffer_planned, previous_nominal_speed,
                     hold_complete, f_override, r_override, slowed>>
  BY DEF EndSystemMotion, ring, override
<1>2. Empty /\ ~hold_complete /\ ~slowed /\ Count = 0
  BY <1>1, QueueRing DEF StateInv
<1>3. TypeOK'
  <2>1. block_buffer \in [Index -> BlockType] /\ FreeBlock \in BlockType
    BY DEF TypeOK, BlockType, FreeBlock
  <2>2. block_buffer' \in [Index -> BlockType]
    BY <1>1, <2>1
  <2>3. prep' \in ProfileType
    BY <1>1 DEF Stopped, ProfileType
  <2> QED
    BY <1>1, <2>2, <2>3 DEF TypeOK, BlockType, ProfileType
<1>4. Empty' /\ Loading' /\ ~SystemMotion' /\ ~Holding' /\ Count' = 0
  BY <1>1, <1>2 DEF Empty, Loading, SystemMotion, Holding, Count
<1>5. RingInv'
  BY <1>1, <1>4 DEF RingInv, Loading
<1>6. StateInv'
  BY <1>1, <1>2, <1>4 DEF StateInv, Stopped
<1> QED
  BY <1>1, <1>3, <1>4, <1>5, <1>6, FreshStart

(* A cycle start keeps the machine able to stop.                           *)
LEMMA CycleStartSafe ==
  ASSUME SafeInv, CycleStart
  PROVE  SafeInv'
<1> USE DEF SafeInv
<1>1. /\ state = "IDLE" \/ (state = "HOLD" /\ hold_complete)
      /\ step_control' = {} /\ hold_complete' = FALSE
      /\ state' = (IF Empty THEN "IDLE" ELSE "CYCLE")
      /\ UNCHANGED <<block_buffer, block_buffer_tail, block_buffer_head, next_buffer_head,
                     block_buffer_planned, previous_nominal_speed, pl_block, prep,
                     f_override, r_override, slowed>>
      /\ UNCHANGED <<queue, stepper>>
  BY DEF CycleStart, queue, ring, stepper, override
<1>2. /\ ~Holding /\ ~Holding' /\ ~SystemMotion /\ ~SystemMotion'
      /\ Holding' = Holding /\ SystemMotion' = SystemMotion
  BY <1>1 DEF StateInv, Holding, SystemMotion
<1>3. RingInv' /\ SpeedInv' /\ ProfileInv' /\ LengthInv' /\ EndInv'
  BY <1>1, <1>2, Quiet
<1>4. TypeOK'
  BY <1>1 DEF TypeOK
<1>5. StateInv'
  BY <1>1, <1>2 DEF StateInv, Loading, Empty
<1> QED
  BY <1>3, <1>4, <1>5

(* So does the end of a program, which only restores the overrides.        *)
LEMMA ProgramEndSafe ==
  ASSUME SafeInv, ProgramEnd
  PROVE  SafeInv'
<1> USE DEF SafeInv
<1>1. /\ UNCHANGED <<block_buffer, block_buffer_tail, block_buffer_head, next_buffer_head,
                     block_buffer_planned, previous_nominal_speed, pl_block, prep,
                     state, step_control, hold_complete, slowed>>
      /\ UNCHANGED <<queue, stepper>>
      /\ f_override' = DefaultOverride /\ r_override' = DefaultOverride
  BY DEF ProgramEnd, queue, ring, stepper, control
<1>2. Holding' = Holding /\ SystemMotion' = SystemMotion
  BY <1>1 DEF Holding, SystemMotion
<1>3. RingInv' /\ SpeedInv' /\ ProfileInv' /\ LengthInv' /\ EndInv'
  BY <1>1, <1>2, Quiet
<1>4. TypeOK'
  BY PlannerAssumption, <1>1 DEF TypeOK, DefaultOverride
<1>5. StateInv'
  BY <1>1, <1>2 DEF StateInv, Loading, Empty, v
<1> QED
  BY <1>3, <1>4, <1>5

(* So does a step of something else.                                       *)
LEMMA StutterSafe ==
  ASSUME SafeInv, UNCHANGED vars
  PROVE  SafeInv'
<1> USE DEF SafeInv
<1>1. /\ UNCHANGED <<block_buffer, block_buffer_tail, block_buffer_head, next_buffer_head,
                     block_buffer_planned, previous_nominal_speed, pl_block, prep,
                     state, step_control, hold_complete, f_override, r_override, slowed>>
      /\ UNCHANGED <<queue, stepper>>
  BY DEF vars, queue, ring, stepper
<1>2. Holding' = Holding /\ SystemMotion' = SystemMotion
  BY <1>1 DEF Holding, SystemMotion
<1>3. RingInv' /\ SpeedInv' /\ ProfileInv' /\ LengthInv' /\ EndInv'
  BY <1>1, <1>2, Quiet
<1>4. TypeOK'
  BY <1>1 DEF TypeOK
<1>5. StateInv'
  BY <1>1, <1>2 DEF StateInv, Loading, Empty, v
<1> QED
  BY <1>3, <1>4, <1>5

-----------------------------------------------------------------------------
(* Overrides, holds and the end of a cycle.                                *)

(* The queue can be stopped at its end now.                                *)
LEMMA RoomNow ==
  ASSUME SafeInv, ~SystemMotion
  PROVE  \E T \in [0..Count -> Nat] : Room(block_buffer, Count, T)
<1>1. PICK T \in [0..Count -> Nat] : Stops(T)
  BY DEF SafeInv, EndInv
<1>2. Block(0) = At(block_buffer, block_buffer_tail, 0) /\ (Empty <=> Count = 0)
  BY QueueRing DEF SafeInv
<1>3. Count > 0 => Count # 0
  OBVIOUS
<1>4. Room(block_buffer, Count, T)
  BY <1>1, <1>2, <1>3 DEF Room, Stops
<1> QED
  BY <1>4

(* The maximum entry speed of a block: no more than the junction, the      *)
(* nominal speed and that of the block before.                             *)
LEMMA MaxEntryTyped ==
  ASSUME NEW j \in Nat, NEW n \in Nat, NEW p \in Nat
  PROVE  /\ MaxEntry(j, n, p) \in Nat /\ MaxEntry(j, n, p) <= j
         /\ MaxEntry(j, n, p) <= n * n /\ MaxEntry(j, n, p) <= p * p
<1> DEFINE m == Min2(n, p)
<1>1. m \in Nat /\ m <= n /\ m <= p
  BY DEF Min2
<1> HIDE DEF m
<1>2. m * m \in Nat /\ m * m <= n * n /\ m * m <= p * p
  <2>1. ASSUME NEW x \in Nat, m <= x PROVE m * m <= x * x
    <3>1. m * m <= m * x
      BY <1>1, <2>1
    <3>2. m * x <= x * x
      BY <1>1, <2>1
    <3>3. m * m \in Nat /\ m * x \in Nat /\ x * x \in Nat
      BY <1>1
    <3> QED
      BY <3>1, <3>2, <3>3
  <2> QED
    BY <1>1, <2>1
<1> DEFINE s == m * m
           a == n * n
           b == p * p
<1>3. a \in Nat /\ b \in Nat
  OBVIOUS
<1>4. MaxEntry(j, n, p) = Min2(s, j)
  BY DEF MaxEntry, m
<1>5. s \in Nat /\ s <= a /\ s <= b
  BY <1>2
<1> HIDE DEF s, a, b
<1>6. Min2(s, j) \in Nat /\ Min2(s, j) <= j /\ Min2(s, j) <= a /\ Min2(s, j) <= b
  BY <1>3, <1>5 DEF Min2
<1> QED
  BY <1>4, <1>6 DEF a, b

(* plan_update_velocity_profile_parameters changes the maximum entry speeds*)
(* only, to what the overrides give.                                       *)
LEMMA ReprofiledLaw ==
  ASSUME TypeOK, NEW f \in Nat, NEW r \in Nat
  PROVE  LET t == block_buffer_tail
             n(k) == plan_compute_profile_nominal_speed(At(block_buffer, t, k), f, r)
         IN  /\ Reprofiled(f, r) \in [Index -> BlockType]
             /\ \A k \in 0..Count - 1 :
                  At(Reprofiled(f, r), t, k) =
                    [At(block_buffer, t, k) EXCEPT !.max_entry =
                       MaxEntry(At(block_buffer, t, k).max_junction, n(k),
                                IF k = 0 THEN SomeLargeValue ELSE n(k - 1))]
<1> DEFINE t == block_buffer_tail
           n(k) == plan_compute_profile_nominal_speed(At(block_buffer, t, k), f, r)
           x(k) == MaxEntry(At(block_buffer, t, k).max_junction, n(k),
                            IF k = 0 THEN SomeLargeValue ELSE n(k - 1))
           R == Reprofiled(f, r)
<1>1. /\ t \in Index /\ Count \in 0..Size - 1 /\ block_buffer \in [Index -> BlockType]
      /\ \A k \in 0..Size - 1 : /\ Ahead(t, k) \in Index
                                /\ At(block_buffer, t, k) \in BlockType
  BY QueueRing
<1>2. Size \in Nat
  BY PlannerAssumption
<1>3. ASSUME NEW k \in 0..Size - 1 PROVE n(k) \in Nat
  BY <1>1, <1>2, NominalTyped
<1> HIDE DEF n
<1>4. ASSUME NEW k \in 0..Count - 1 PROVE x(k) \in Nat
  <2>1. k \in 0..Size - 1 /\ (k # 0 => k - 1 \in 0..Size - 1)
    BY <1>1, <1>2
  <2> DEFINE p == IF k = 0 THEN SomeLargeValue ELSE n(k - 1)
  <2>2. p \in Nat /\ n(k) \in Nat /\ At(block_buffer, t, k).max_junction \in Nat
    BY <1>1, <1>3, <2>1 DEF SomeLargeValue, BlockType
  <2> HIDE DEF p
  <2>3. x(k) = MaxEntry(At(block_buffer, t, k).max_junction, n(k), p)
    BY DEF p
  <2>4. MaxEntry(At(block_buffer, t, k).max_junction, n(k), p) \in Nat
    BY <2>2, MaxEntryTyped, Zenon
  <2> HIDE DEF x
  <2> QED
    BY <2>3, <2>4
<1>5. R = [i \in Index |-> LET k == Span(t, i)
                          IN  IF k < Count
                              THEN [block_buffer[i] EXCEPT !.max_entry =
                                      MaxEntry(block_buffer[i].max_junction, n(k),
                                               IF k = 0 THEN SomeLargeValue ELSE n(k - 1))]
                              ELSE block_buffer[i]]
  BY DEF Reprofiled, n, Block, At
<1> HIDE DEF R
<1>6. ASSUME NEW i \in Index
      PROVE  /\ R[i] \in BlockType
             /\ Span(t, i) < Count => R[i] = [block_buffer[i] EXCEPT !.max_entry = x(Span(t, i))]
  <2>1. Span(t, i) \in 0..Size - 1 /\ Ahead(t, Span(t, i)) = i
    BY <1>1, SpanLaw
  <2>2. block_buffer[i] = At(block_buffer, t, Span(t, i)) /\ block_buffer[i] \in BlockType
    BY <1>1, <2>1 DEF At
  <2>3. CASE Span(t, i) < Count
    <3>1. R[i] = [block_buffer[i] EXCEPT !.max_entry = x(Span(t, i))]
      BY <1>5, <2>2, <2>3
    <3>2. x(Span(t, i)) \in Nat
      <4>1. Span(t, i) \in 0..Count - 1
        BY <1>1, <1>2, <2>1, <2>3
      <4> HIDE DEF x
      <4> QED
        BY <1>4, <4>1
    <3> HIDE DEF x
    <3>3. R[i] \in BlockType
      BY <2>2, <3>1, <3>2 DEF BlockType
    <3> QED
      BY <3>1, <3>3
  <2>4. CASE ~(Span(t, i) < Count)
    <3>1. R[i] = block_buffer[i]
      BY <1>5, <2>4
    <3> QED
      BY <2>2, <2>4, <3>1
  <2> QED
    BY <2>3, <2>4
<1>7. R \in [Index -> BlockType]
  <2>1. DOMAIN R = Index /\ R = [i \in Index |-> R[i]]
    BY <1>5
  <2> QED
    BY <1>6, <2>1
<1>8. ASSUME NEW k \in 0..Count - 1
      PROVE  At(R, t, k) = [At(block_buffer, t, k) EXCEPT !.max_entry = x(k)]
  <2>1. k \in 0..Size - 1
    BY <1>1, <1>2
  <2>2. Ahead(t, k) \in Index /\ Span(t, Ahead(t, k)) = k
    BY <1>1, <2>1, AheadLaw
  <2>3. k < Count
    BY <1>1, <1>2
  <2> HIDE DEF x
  <2>4. R[Ahead(t, k)] = [block_buffer[Ahead(t, k)] EXCEPT !.max_entry = x(k)]
    BY <1>6, <2>2, <2>3
  <2> QED
    BY <2>4 DEF At
<1> QED
  BY <1>7, <1>8 DEF n, R

(* A pass over the override commands leaves the overrides within their     *)
(* ranges, whatever the bytes do.                                          *)
LEMMA OverridesTyped ==
  ASSUME TypeOK, NEW c
  PROVE  /\ FeedOverride(c) \in MinFeed..MaxFeed /\ FeedOverride(c) \in Nat
         /\ RapidOverride(c) \in {DefaultOverride, RapidMedium, RapidLow}
         /\ RapidOverride(c) \in Nat
<1>1. /\ MinFeed \in Nat /\ MaxFeed \in Nat /\ MinFeed <= MaxFeed
      /\ Coarse \in Nat /\ Fine \in Nat
  BY PlannerAssumption DEF DefaultOverride
<1>2. f_override \in Int /\ r_override \in {DefaultOverride, RapidMedium, RapidLow}
  BY <1>1 DEF TypeOK
<1> DEFINE f0 == IF "F_RESET" \in c THEN DefaultOverride ELSE f_override
           f1 == IF "COARSE_PLUS" \in c THEN Byte(f0 + Coarse) ELSE f0
           f2 == IF "COARSE_MINUS" \in c THEN Byte(f1 - Coarse) ELSE f1
           f3 == IF "FINE_PLUS" \in c THEN Byte(f2 + Fine) ELSE f2
           f4 == IF "FINE_MINUS" \in c THEN Byte(f3 - Fine) ELSE f3
<1>3. \A x \in Int : Byte(x) \in Int
  BY DEF Byte
<1>4. f0 \in Int
  BY <1>2 DEF DefaultOverride
<1> HIDE DEF f0
<1>5. f1 \in Int
  BY <1>1, <1>3, <1>4
<1> HIDE DEF f1
<1>6. f2 \in Int
  BY <1>1, <1>3, <1>5
<1> HIDE DEF f2
<1>7. f3 \in Int
  BY <1>1, <1>3, <1>6
<1> HIDE DEF f3
<1>8. f4 \in Int
  BY <1>1, <1>3, <1>7
<1>9. FeedOverride(c) = Max2(Min2(f4, MaxFeed), MinFeed)
  BY DEF FeedOverride, f3, f2, f1, f0
<1> HIDE DEF f4
<1>10. FeedOverride(c) \in MinFeed..MaxFeed
  BY <1>1, <1>8, <1>9 DEF Max2, Min2
<1>11. RapidOverride(c) \in {DefaultOverride, RapidMedium, RapidLow}
  BY <1>2 DEF RapidOverride, RapidCommand
<1> QED
  BY <1>1, <1>10, <1>11 DEF DefaultOverride, RapidMedium, RapidLow

(* Changing the overrides keeps the machine able to stop, up or down.      *)
LEMMA OverridesSafe ==
  ASSUME SafeInv, NEW c, ExecuteOverrides(c)
  PROVE  SafeInv'
<1> USE DEF SafeInv
<1> DEFINE t == block_buffer_tail
           f == FeedOverride(c)
           r == RapidOverride(c)
           B == Reprofiled(f, r)
           n == Count
<1>1. /\ state # "HOMING" /\ f_override' = f /\ r_override' = r
      /\ slowed' = (~Empty /\ (slowed \/ f < f_override \/ r < r_override))
      /\ previous_nominal_speed' = LastNominal(f, r)
      /\ st_update_plan_block_parameters
      /\ planner_recalculate(Updated(B), t, block_buffer_head)
      /\ UNCHANGED <<block_buffer_tail, block_buffer_head, next_buffer_head,
                     state, step_control, hold_complete>>
  BY DEF ExecuteOverrides, plan_cycle_reinitialize, control
<1>2. /\ f \in MinFeed..MaxFeed /\ f \in Nat /\ r \in Nat
      /\ r \in {DefaultOverride, RapidMedium, RapidLow}
  BY OverridesTyped
<1> HIDE DEF f, r
<1>3. /\ t \in Index /\ n \in 0..Size - 1 /\ block_buffer_head = Ahead(t, n)
      /\ Empty <=> n = 0
      /\ \A k \in 0..Size - 1 : At(block_buffer, t, k) \in BlockType
      /\ Size \in Nat
  BY QueueRing, PlannerAssumption
<1>4. /\ ~SystemMotion /\ SystemMotion' = FALSE /\ Holding' = Holding /\ Empty' = Empty
      /\ Count' = n
  BY <1>1 DEF StateInv, SystemMotion, Holding, Empty, Count
<1>5. B \in [Index -> BlockType]
      /\ \A k \in 0..n - 1 : /\ At(B, t, k).mm = At(block_buffer, t, k).mm
                             /\ At(B, t, k).entry = At(block_buffer, t, k).entry
  <2> DEFINE nn(k) == plan_compute_profile_nominal_speed(At(block_buffer, t, k), f, r)
             x(k) == MaxEntry(At(block_buffer, t, k).max_junction, nn(k),
                                IF k = 0 THEN SomeLargeValue ELSE nn(k - 1))
  <2>1. /\ B \in [Index -> BlockType]
        /\ \A k \in 0..n - 1 :
             At(B, t, k) = [At(block_buffer, t, k) EXCEPT !.max_entry = x(k)]
    BY <1>2, ReprofiledLaw
  <2> HIDE DEF B, x
  <2>2. ASSUME NEW k \in 0..n - 1
        PROVE  /\ At(B, t, k).mm = At(block_buffer, t, k).mm
               /\ At(B, t, k).entry = At(block_buffer, t, k).entry
    <3>1. At(block_buffer, t, k) \in BlockType
      BY <1>3
    <3> QED
      BY <2>1, <3>1 DEF BlockType
  <2> QED
    BY <2>1, <2>2
<1> HIDE DEF B
<1>6. previous_nominal_speed' \in Nat
  <2>1. CASE Empty
    BY <1>1, <2>1 DEF LastNominal, SomeLargeValue
  <2>2. CASE ~Empty
    <3>1. n - 1 \in 0..Size - 1
      BY <1>3, <2>2
    <3>2. Block(n - 1) \in BlockType
      BY <1>3, <3>1 DEF Block, At
    <3>3. plan_compute_profile_nominal_speed(Block(n - 1), f, r) \in Nat
      BY <1>2, <3>2, NominalTyped
    <3> QED
      BY <1>1, <2>2, <3>3 DEF LastNominal
  <2> QED
    BY <2>1, <2>2
<1>7. CASE Empty
  <2>1. n = 0 /\ Loading /\ ~prep.recalculate /\ v = 0 /\ prep.exit = 0
    BY <1>3, <1>4, <1>7 DEF StateInv, SpeedInv
  <2>2. Updated(B) = B /\ pl_block' = NULL /\ prep' = prep
    BY <1>1, <2>1 DEF Updated, Loading, st_update_plan_block_parameters
  <2>3. block_buffer' = B /\ block_buffer_planned' \in Index
    <3>1. Span(t, block_buffer_head) = 0
      BY <2>1 DEF Count
    <3> QED
      BY <1>1, <2>2, <3>1 DEF planner_recalculate
  <2>4. TypeOK'
    BY <1>1, <1>2, <1>5, <1>6, <2>2, <2>3 DEF TypeOK, BlockType
  <2>5. RingInv'
    BY <1>1, <1>4, <1>7, <2>2 DEF RingInv
  <2>6. StateInv'
    BY <1>1, <1>4, <1>7, <2>1, <2>2 DEF StateInv, Loading, v
  <2>7. SpeedInv' /\ ProfileInv'
    BY <1>4, <1>7, <2>1, <2>2 DEF SpeedInv, ProfileInv, Loading, v
  <2>8. LengthInv'
    BY <1>4, <2>1 DEF LengthInv, Lengthy
  <2>9. EndInv'
    <3>1. PICK T \in [0..n -> Nat] : Stops(T)
      BY <1>4 DEF EndInv
    <3>2. Distance(block_buffer', t, 0, T) /\ Within(block_buffer', t, 0, 1, T)
      BY <2>1, <3>1 DEF Stops, Distance, Within
    <3>3. Stops(T)'
      BY <1>1, <1>4, <1>7, <2>1, <2>2, <3>1, <3>2 DEF Stops, v, Loading
    <3> QED
      BY <1>4, <3>1, <3>3 DEF EndInv
  <2> QED
    BY <2>4, <2>5, <2>6, <2>7, <2>8, <2>9
<1>8. CASE ~Empty
  <2>1. n \in 1..Size - 1 /\ 0 \in 0..n - 1
    BY <1>3, <1>8
  <2>2. PICK T \in [0..n -> Nat] : Room(block_buffer, n, T)
    BY <1>4, RoomNow
  <2>3. Lengthy(B, t, n)
    BY <1>5 DEF LengthInv, Lengthy
  <2>4. Room(B, n, T)
    <3>1. Distance(B, t, n, T)
      BY <1>5, <2>2 DEF Room, Distance
    <3>2. Within(B, t, n, 1, T)
      <4>1. \A k \in 1..n - 1 : k \in 0..n - 1
        BY <2>1
      <4> QED
        BY <1>5, <2>2, <4>1 DEF Room, Within
    <3> QED
      BY <1>5, <2>1, <2>2, <3>1, <3>2 DEF Room
  <2>5. At(B, t, 0).entry = At(block_buffer, t, 0).entry
    BY <1>5, <2>1
  <2>6. /\ block_buffer' \in [Index -> BlockType] /\ block_buffer_planned' \in Index
        /\ pl_block' = NULL /\ prep' \in ProfileType /\ prep'.current = v
        /\ Loading' /\ Offset' < Count'
        /\ prep'.recalculate <=> prep.recalculate \/ ~Loading
        /\ SpeedInv' /\ ProfileInv' /\ LengthInv' /\ EndInv'
    <3> HIDE DEF n
    <3>1. planner_recalculate(Updated(B), t, Ahead(t, n)) /\ block_buffer_head' = Ahead(t, n)
      BY <1>1, <1>3
    <3>2. block_buffer_tail' = t /\ st_update_plan_block_parameters
      BY <1>1
    <3>3. \E R \in [0..n -> Nat] : Room(B, n, R)
      BY <2>4
    <3> QED
      BY <1>4, <1>5, <1>8, <2>1, <2>3, <2>5, <3>1, <3>2, <3>3, Reinitialized
  <2>7. TypeOK'
    BY <1>1, <1>2, <1>6, <2>6 DEF TypeOK, BlockType, ProfileType
  <2>8. RingInv'
    BY <1>1, <2>6 DEF RingInv
  <2>9. StateInv'
    BY <1>1, <1>4, <1>8, <2>6 DEF StateInv, v
  <2> QED
    BY <2>6, <2>7, <2>8, <2>9
<1> QED
  BY <1>7, <1>8

(* So does the end of a cycle or of a hold.                                *)
LEMMA CycleStopSafe ==
  ASSUME SafeInv, CycleStop
  PROVE  SafeInv'
<1> USE DEF SafeInv
<1> DEFINE t == block_buffer_tail
           n == Count
<1>1. /\ state \in {"CYCLE", "HOLD"} /\ ~hold_complete
      /\ Empty \/ "END_MOTION" \in step_control
      /\ UNCHANGED <<block_buffer_tail, block_buffer_head, next_buffer_head,
                     previous_nominal_speed, f_override, r_override, slowed>>
  BY DEF CycleStop, override
<1>2. ~SystemMotion /\ Empty' = Empty /\ Count' = n
  BY <1>1 DEF StateInv, Empty, Count
<1>3. CASE state = "CYCLE"
  <2>1. state' = "IDLE" /\ UNCHANGED <<block_buffer, block_buffer_planned, pl_block, prep,
                                       step_control, hold_complete>>
    BY <1>3 DEF CycleStop, stepper
  <2>2. Holding' = Holding /\ SystemMotion' = SystemMotion
        /\ UNCHANGED <<queue, stepper>>
    BY <1>1, <2>1 DEF Holding, SystemMotion, queue, stepper, ring
  <2>3. RingInv' /\ SpeedInv' /\ ProfileInv' /\ LengthInv' /\ EndInv'
    BY <2>2, Quiet
  <2>4. TypeOK'
    BY <1>1, <2>1 DEF TypeOK
  <2>5. Empty /\ "END_MOTION" \notin step_control
    BY <1>1, <1>2, <1>3 DEF StateInv
  <2>6. StateInv'
    BY <1>1, <1>2, <1>3, <2>1, <2>2, <2>5 DEF StateInv, Loading, v
  <2> QED
    BY <2>3, <2>4, <2>6
<1>4. CASE state = "HOLD"
  <2>1. /\ st_update_plan_block_parameters
        /\ planner_recalculate(Updated(block_buffer), t, block_buffer_head)
        /\ hold_complete' = TRUE /\ step_control' = step_control \ {"EXECUTE_HOLD"}
        /\ state' = "HOLD"
    BY <1>4 DEF CycleStop, plan_cycle_reinitialize
  <2>2. SystemMotion' = FALSE /\ ~Holding'
    BY <1>2, <2>1 DEF SystemMotion, Holding
  <2>3. /\ t \in Index /\ n \in 0..Size - 1 /\ block_buffer_head = Ahead(t, n)
        /\ Empty <=> n = 0
        /\ block_buffer \in [Index -> BlockType] /\ Size \in Nat
    BY QueueRing, PlannerAssumption
  <2>4. CASE Empty
    <3>1. n = 0 /\ Loading /\ ~prep.recalculate /\ v = 0 /\ prep.exit = 0
      BY <1>2, <2>3, <2>4 DEF StateInv, SpeedInv
    <3>2. Updated(block_buffer) = block_buffer /\ pl_block' = NULL /\ prep' = prep
      BY <2>1, <3>1 DEF Updated, Loading, st_update_plan_block_parameters
    <3>3. block_buffer' = block_buffer /\ block_buffer_planned' \in Index
      <4>1. Span(t, block_buffer_head) = 0
        BY <3>1 DEF Count
      <4> QED
        BY <2>1, <3>2, <4>1 DEF planner_recalculate
    <3>4. TypeOK'
      BY <1>1, <2>1, <3>2, <3>3 DEF TypeOK
    <3>5. RingInv'
      BY <1>1, <1>2, <2>4, <3>2 DEF RingInv
    <3>6. StateInv'
      BY <1>1, <1>2, <2>1, <2>2, <2>4, <3>1, <3>2 DEF StateInv, Loading, v
    <3>7. SpeedInv' /\ ProfileInv'
      BY <1>2, <2>2, <2>4, <3>1, <3>2 DEF SpeedInv, ProfileInv, Loading, v
    <3>8. LengthInv'
      BY <1>2, <3>1 DEF LengthInv, Lengthy
    <3>9. EndInv'
      <4>1. PICK T \in [0..n -> Nat] : Stops(T)
        BY <1>2 DEF EndInv
      <4>2. Stops(T)'
        BY <1>1, <1>2, <2>4, <3>1, <3>2, <3>3, <4>1 DEF Stops, v, Loading
      <4> QED
        BY <1>2, <4>1, <4>2 DEF EndInv
    <3> QED
      BY <3>4, <3>5, <3>6, <3>7, <3>8, <3>9
  <2>5. CASE ~Empty
    <3>1. n \in 1..Size - 1
      <4>1. n \in 0..Size - 1 /\ n # 0 /\ Size \in Nat
        BY <2>3, <2>5
      <4> HIDE DEF n
      <4> QED
        BY <4>1
    <3>2. /\ block_buffer' \in [Index -> BlockType] /\ block_buffer_planned' \in Index
          /\ pl_block' = NULL /\ prep' \in ProfileType /\ prep'.current = v
          /\ Loading' /\ Offset' < Count'
          /\ prep'.recalculate <=> prep.recalculate \/ ~Loading
          /\ SpeedInv' /\ ProfileInv' /\ LengthInv' /\ EndInv'
      <4>1. planner_recalculate(Updated(block_buffer), t, Ahead(t, n))
            /\ block_buffer_head' = Ahead(t, n) /\ block_buffer_tail' = t
        BY <1>1, <2>1, <2>3
      <4>2. Lengthy(block_buffer, t, n)
        BY DEF LengthInv
      <4>3. \E R \in [0..n -> Nat] : Room(block_buffer, n, R)
        BY <1>2, RoomNow
      <4>4. /\ At(block_buffer, t, 0).entry = At(block_buffer, t, 0).entry
            /\ block_buffer \in [Index -> BlockType]
        BY <2>3
      <4>5. st_update_plan_block_parameters /\ ~SystemMotion /\ SystemMotion' = FALSE
        BY <1>2, <2>1, <2>2
      <4> HIDE DEF n, SafeInv
      <4>6. SafeInv
        BY DEF SafeInv
      <4> QED
        BY <2>5, <3>1, <4>1, <4>2, <4>3, <4>4, <4>5, <4>6, Reinitialized
    <3>3. TypeOK'
      BY <1>1, <2>1, <3>2 DEF TypeOK, BlockType, ProfileType
    <3>4. RingInv'
      BY <1>1, <3>2 DEF RingInv
    <3>5. StateInv'
      BY <1>1, <1>2, <1>4, <2>1, <2>2, <2>5, <3>2 DEF StateInv, v
    <3> QED
      BY <3>2, <3>3, <3>4, <3>5
  <2> QED
    BY <2>4, <2>5
<1> QED
  BY <1>1, <1>3, <1>4

(* So does a feed hold.                                                    *)
LEMMA FeedHoldSafe ==
  ASSUME SafeInv, FeedHold
  PROVE  SafeInv'
<1> USE DEF SafeInv
<1> DEFINE t == block_buffer_tail
           n == Count
           W == block_buffer'
<1>1. /\ state \in {"IDLE", "CYCLE"} /\ state' = "HOLD"
      /\ UNCHANGED <<block_buffer_tail, block_buffer_head, next_buffer_head,
                     block_buffer_planned, previous_nominal_speed,
                     f_override, r_override, slowed>>
  BY DEF FeedHold, override, ring
<1>2. /\ ~SystemMotion /\ ~Holding /\ Empty' = Empty /\ Count' = n /\ Offset' = Offset
      /\ ~hold_complete /\ "END_MOTION" \notin step_control
  BY <1>1 DEF StateInv, Empty, Count, Offset
<1>3. CASE state = "IDLE"
  <2>1. hold_complete' = TRUE /\ UNCHANGED <<pl_block, prep, block_buffer, step_control>>
    BY <1>3 DEF FeedHold, stepper
  <2>2. Holding' = Holding /\ SystemMotion' = SystemMotion
        /\ UNCHANGED <<queue, stepper>>
    BY <1>1, <2>1 DEF Holding, SystemMotion, queue, stepper, ring
  <2>3. RingInv' /\ SpeedInv' /\ ProfileInv' /\ LengthInv' /\ EndInv'
    BY <2>2, Quiet
  <2>4. TypeOK'
    BY <1>1, <2>1 DEF TypeOK
  <2>5. StateInv'
    BY <1>1, <1>2, <1>3, <2>1, <2>2 DEF StateInv, Loading, v
  <2> QED
    BY <2>3, <2>4, <2>5
<1>4. CASE state = "CYCLE"
  <2>1. /\ st_update_plan_block_parameters
        /\ W = Updated(block_buffer)
        /\ step_control' = {"EXECUTE_HOLD"} /\ hold_complete' = FALSE
    BY <1>2, <1>4 DEF FeedHold
  <2>2. /\ SystemMotion' = FALSE /\ Holding' /\ pl_block' = NULL /\ Loading'
        /\ prep' = IF Loading THEN prep ELSE [prep EXCEPT !.recalculate = TRUE]
    BY <2>1 DEF SystemMotion, Holding, st_update_plan_block_parameters, Loading
  <2>3. prep \in ProfileType
    BY DEF TypeOK, ProfileType
  <2>4. /\ prep' \in ProfileType /\ prep'.current = v /\ prep'.exit = prep.exit
        /\ prep'.recalculate <=> prep.recalculate \/ ~Loading
    BY <2>2, <2>3 DEF ProfileType, v
  <2>5. /\ t \in Index /\ n \in 0..Size - 1
        /\ Empty <=> n = 0
        /\ block_buffer \in [Index -> BlockType] /\ Size \in Nat
        /\ Block(0) = At(block_buffer, t, 0) /\ Ahead(t, 0) = t
        /\ At(block_buffer, t, 0) \in BlockType
    BY QueueRing, PlannerAssumption
  <2>6. Block(0)' = At(W, t, 0)
    BY <1>1 DEF Block, At
  <2>7. RingInv'
    BY <1>1, <1>2, <2>2 DEF RingInv
  <2>8. Empty => n = 0 /\ Loading /\ ~prep.recalculate /\ v = 0 /\ prep.exit = 0
                 /\ W = block_buffer
    BY <1>2, <2>1, <2>5 DEF StateInv, SpeedInv, Updated, Loading
  <2>9. StateInv'
    BY <1>1, <1>2, <1>4, <2>1, <2>2, <2>4, <2>8 DEF StateInv
  <2>10. PICK T \in [0..n -> Nat] : Room(block_buffer, n, T)
    BY <1>2, RoomNow
  <2>11. ~Empty =>
           /\ W \in [Index -> BlockType]
           /\ At(W, t, 0).entry = (IF Loading THEN At(block_buffer, t, 0).entry ELSE v)
           /\ Distance(W, t, n, T) /\ Within(W, t, n, 0, T) /\ Lengthy(W, t, n)
           /\ 0 \in 0..n - 1
    <3> SUFFICES ASSUME ~Empty
                 PROVE  /\ W \in [Index -> BlockType]
                        /\ At(W, t, 0).entry =
                             (IF Loading THEN At(block_buffer, t, 0).entry ELSE v)
                        /\ Distance(W, t, n, T) /\ Within(W, t, n, 0, T)
                        /\ Lengthy(W, t, n) /\ 0 \in 0..n - 1
      OBVIOUS
    <3>0. n \in 0..Size - 1 /\ n # 0 /\ Size \in Nat
      BY <2>5
    <3>1. n \in 1..Size - 1 /\ 0 \in 0..n - 1
      <4> HIDE DEF n
      <4> QED
        BY <3>0
    <3>b. block_buffer \in [Index -> BlockType]
      BY <2>5
    <3>2. /\ W \in [Index -> BlockType]
          /\ At(W, t, 0) = [At(block_buffer, t, 0) EXCEPT
                              !.entry = IF Loading THEN At(block_buffer, t, 0).entry ELSE v]
      BY <1>2, <2>1, <3>b, UpdatedLaw
    <3>3. At(W, t, 0).entry = (IF Loading THEN At(block_buffer, t, 0).entry ELSE v)
      BY <2>5, <3>2 DEF BlockType
    <3>4. Lengthy(block_buffer, t, n)
      BY DEF LengthInv
    <3> HIDE DEF n
    <3>5. Distance(W, t, n, T) /\ Within(W, t, n, 0, T) /\ Lengthy(W, t, n)
      BY <1>2, <2>1, <2>10, <3>1, <3>4, <3>b, UpdatedRoom
    <3> QED
      BY <3>1, <3>2, <3>3, <3>5
  <2>12. TypeOK'
    <3>1. W \in [Index -> BlockType]
      BY <2>5, <2>8, <2>11
    <3> QED
      BY <1>1, <2>1, <2>2, <2>4, <3>1 DEF TypeOK, BlockType, ProfileType
  <2>13. SpeedInv'
    <3>1. prep'.recalculate => prep'.current = Block(0)'.entry
      <4>1. prep.recalculate => ~Empty /\ v = At(block_buffer, t, 0).entry
        BY <2>5 DEF StateInv, SpeedInv
      <4> QED
        BY <2>4, <2>6, <2>8, <2>11, <4>1
    <3>2. ~prep'.recalculate => prep'.current = prep'.exit
      BY <2>4 DEF SpeedInv
    <3> QED
      BY <1>2, <2>2, <2>4, <2>8, <3>1, <3>2 DEF SpeedInv, v
  <2>14. ProfileInv'
    BY <2>2 DEF ProfileInv
  <2>15. LengthInv'
    <3>1. Lengthy(W, t, n)
      BY <2>8, <2>11 DEF LengthInv
    <3> QED
      BY <1>1, <1>2, <3>1 DEF LengthInv
  <2>16. EndInv'
    <3>1. Distance(W, t, n, T)
      BY <2>8, <2>10, <2>11 DEF Room
    <3>2. Within(W, t, n, 1, T)
      <4>1. CASE Empty
        BY <2>8, <2>10, <4>1 DEF Room
      <4>2. CASE ~Empty
        <5>1. \A k \in 1..n - 1 : k \in 0..n - 1
          BY <2>5
        <5> QED
          BY <2>11, <4>2, <5>1 DEF Within
      <4> QED
        BY <4>1, <4>2
    <3>3. Empty \/ At(W, t, 0).entry <= T[0]
      BY <2>11 DEF Within
    <3>4. prep'.current <= T[0]
      BY <2>4, <2>10 DEF Room
    <3>5. Stops(T)'
      BY <1>1, <1>2, <2>2, <2>6, <3>1, <3>2, <3>3, <3>4 DEF Stops, v
    <3> QED
      BY <1>2, <3>5 DEF EndInv
  <2> QED
    BY <2>7, <2>9, <2>12, <2>13, <2>14, <2>15, <2>16
<1> QED
  BY <1>1, <1>3, <1>4

-----------------------------------------------------------------------------
(* A new block.                                                            *)

(* The queues A and B hold the same n blocks.                              *)
Same(A, B, t, n) == \A k \in 0..n - 1 : At(B, t, k) = At(A, t, k)

(* R is the distance to the end of a queue B that has one more block than   *)
(* the one T is for, and that can be stopped there.                        *)
Farther(B, t, n, T, R) ==
  /\ Distance(B, t, n + 1, R) /\ Within(B, t, n + 1, 1, R)
  /\ \A k \in 0..n : T[k] <= R[k]

(* So does a hold that ends where the last segment did.                    *)
LEMMA HoldEndSafe ==
  ASSUME SafeInv, PrepHoldEnd
  PROVE  SafeInv'
<1> USE DEF SafeInv
<1> DEFINE t == block_buffer_tail
           b == Loaded
           p == Planned
           d == b.mm
           n == Count
<1>1. /\ Running /\ Holding /\ p.mm_complete = d
      /\ prep' = [p EXCEPT !.current = p.exit]
      /\ step_control' = step_control \cup {"END_MOTION"}
      /\ block_buffer' = [block_buffer EXCEPT ![Work] = b]
      /\ pl_block' = Work
      /\ UNCHANGED <<block_buffer_tail, block_buffer_head, next_buffer_head,
                     block_buffer_planned, previous_nominal_speed, state, hold_complete,
                     f_override, r_override, slowed>>
  BY DEF PrepHoldEnd, ring, override
<1>2. ~SystemMotion /\ state = "HOLD" /\ ~hold_complete
  BY <1>1 DEF StateInv
<1>3. /\ Work = t /\ n \in 1..Size - 1 /\ Exec = At(block_buffer, t, 0) /\ Exec.mm > 0
      /\ b \in BlockType /\ d = Exec.mm /\ Exec \in BlockType
  BY <1>1, <1>2, LoadedLaw
<1>4. p \in ProfileType /\ ~p.recalculate /\ Fits(b, p)
  BY <1>1, PlannedLaw
<1>5. d \in Nat /\ d > 0 /\ p.mm_complete \in Nat
  BY <1>3, <1>4 DEF BlockType, ProfileType
<1>6. p.exit = 0 /\ p.ramp = "DECEL"
  <2>1. p.mm_complete > 0
    BY <1>1, <1>5
  <2> QED
    BY <1>1, <1>4, <2>1 DEF Fits
<1> HIDE DEF p, b
<1>7. /\ prep' \in ProfileType /\ prep'.current = 0 /\ prep'.exit = 0
      /\ prep'.mm_complete = d /\ prep'.ramp = "DECEL" /\ ~prep'.recalculate
  BY <1>1, <1>4, <1>6 DEF ProfileType
<1> HIDE DEF d
<1>8. SystemMotion' = FALSE /\ Holding'
  BY <1>1, <1>2 DEF SystemMotion, Holding
<1>9. /\ t \in Index /\ block_buffer \in [Index -> BlockType] /\ Size \in Nat
      /\ Empty <=> n = 0
  BY QueueRing, PlannerAssumption
<1>10. /\ block_buffer' \in [Index -> BlockType] /\ At(block_buffer', t, 0) = b
       /\ \A k \in 1..Size - 1 : At(block_buffer', t, k) = At(block_buffer, t, k)
  <2>1. Written(block_buffer, block_buffer', t, b)
    BY <1>1, <1>3 DEF Written
  <2> QED
    BY <1>3, <1>9, <2>1, FirstChanged
<1>11. /\ Empty' = Empty /\ Count' = n /\ Work' = t /\ Offset' = Offset
       /\ Exec' = b /\ Loading' = FALSE /\ ~Empty
  <2>1. Empty' = Empty /\ Count' = n /\ Work' = t /\ Offset' = Offset
    BY <1>1, <1>8 DEF Empty, Count, Work, Offset
  <2>2. Exec' = b
    BY <1>1, <1>3, <1>9, <2>1 DEF Exec
  <2>3. Loading' = FALSE
    BY PlannerAssumption, <1>1, <1>3, <1>9 DEF Loading, NULL, Index
  <2>4. ~Empty
    <3>1. n # 0
      BY <1>3
    <3> QED
      BY <1>9, <3>1
  <2> QED
    BY <2>1, <2>2, <2>3, <2>4
<1>12. TypeOK'
  <2>1. pl_block' \in Index \cup {NULL}
    BY <1>1, <1>3, <1>9
  <2>2. step_control' \subseteq {"EXECUTE_HOLD", "EXECUTE_SYS_MOTION", "END_MOTION"}
    BY <1>1 DEF TypeOK
  <2> QED
    BY <1>1, <1>7, <1>10, <2>1, <2>2 DEF TypeOK, BlockType, ProfileType
<1>13. RingInv'
  BY <1>1, <1>3, <1>11 DEF RingInv
<1>14. StateInv'
  BY <1>1, <1>2, <1>7, <1>8, <1>11 DEF StateInv, v
<1>15. SpeedInv'
  BY <1>7, <1>8, <1>11 DEF SpeedInv
<1>16. ProfileInv'
  <2>1. b.mm \in Nat /\ d = b.mm
    BY <1>5 DEF d
  <2> QED
    BY <1>7, <1>8, <1>11, <2>1 DEF ProfileInv, Fits
<1>17. \A k \in 0..n - 1 : At(block_buffer', t, k).mm = At(block_buffer, t, k).mm
  <2>1. \A k \in 0..n - 1 : k = 0 \/ k \in 1..Size - 1
    BY <1>3, <1>9
  <2>2. At(block_buffer', t, 0).mm = At(block_buffer, t, 0).mm
    BY <1>3, <1>10 DEF d
  <2> QED
    BY <1>10, <2>1, <2>2
<1>18. LengthInv'
  BY <1>1, <1>11, <1>17 DEF LengthInv, Lengthy
<1>19. EndInv'
  <2>1. PICK T \in [0..n -> Nat] : Stops(T)
    BY <1>2 DEF EndInv
  <2>2. Distance(block_buffer', t, n, T)
    BY <1>17, <2>1 DEF Stops, Distance
  <2>3. Within(block_buffer', t, n, 1, T)
    <3>1. \A k \in 1..n - 1 : k \in 1..Size - 1
      BY <1>3, <1>9
    <3> QED
      BY <1>10, <2>1, <3>1 DEF Stops, Within
  <2>4. T[0] \in Nat /\ T[1] \in Nat
    <3>1. 0 \in 0..n /\ 1 \in 0..n
      BY <1>3, <1>9
    <3> QED
      BY <3>1
  <2>5. Stops(T)'
    BY <1>1, <1>7, <1>11, <2>2, <2>3, <2>4 DEF Stops, v
  <2> QED
    BY <1>11, <2>5 DEF EndInv
<1> QED
  BY <1>12, <1>13, <1>14, <1>15, <1>16, <1>18, <1>19

(* One more block behind a queue only gives more room to stop.             *)
LEMMA RoomAhead ==
  ASSUME NEW t \in Index, NEW n \in 0..Size - 2,
         NEW A \in [Index -> BlockType], NEW B \in [Index -> BlockType],
         Same(A, B, t, n),
         At(B, t, n).entry = 0, NEW T \in [0..n -> Nat],
         Distance(A, t, n, T), Within(A, t, n, 1, T)
  PROVE  \E R \in [0..n + 1 -> Nat] : Farther(B, t, n, T, R)
<1>s. \A k \in 0..n - 1 : At(B, t, k) = At(A, t, k)
  BY DEF Same
<1> DEFINE d == At(B, t, n).mm
           R == [k \in 0..n + 1 |-> IF k <= n THEN T[k] + d ELSE 0]
<1>1. Size \in Nat /\ n \in Nat /\ d \in Nat
  <2>1. At(B, t, n) \in BlockType
    BY PlannerAssumption, AheadLaw DEF At
  <2> QED
    BY PlannerAssumption, <2>1 DEF BlockType
<1> HIDE DEF d
<1>2. /\ R \in [0..n + 1 -> Nat] /\ R[n + 1] = 0
      /\ \A k \in 0..n : R[k] = T[k] + d
  BY <1>1
<1> HIDE DEF R
<1>3. \A k \in 0..n : T[k] \in Nat
  OBVIOUS
<1>4. ASSUME NEW k \in 0..(n + 1) - 1 PROVE R[k] = R[k + 1] + At(B, t, k).mm
  <2>1. CASE k = n
    <3>1. T[n] = 0 /\ n \in 0..n
      BY <1>1 DEF Distance
    <3> QED
      BY <1>1, <1>2, <2>1, <3>1 DEF d
  <2>2. CASE k # n
    <3>1. k \in 0..n - 1 /\ k \in 0..n /\ k + 1 \in 0..n
      BY <1>1, <2>2
    <3>2. T[k] = T[k + 1] + At(A, t, k).mm
      BY <3>1 DEF Distance
    <3>3. At(A, t, k).mm \in Nat
      <4>1. At(A, t, k) \in BlockType
        <5>1. k \in 0..Size - 1
          BY <1>1, <3>1
        <5> QED
          BY <5>1, AheadLaw DEF At
      <4> QED
        BY <4>1 DEF BlockType
    <3>4. R[k] = T[k] + d /\ R[k + 1] = T[k + 1] + d /\ T[k] \in Nat /\ T[k + 1] \in Nat
      BY <1>2, <1>3, <3>1
    <3>5. At(B, t, k).mm = At(A, t, k).mm
      BY <1>s, <3>1
    <3> QED
      BY <1>1, <3>2, <3>3, <3>4, <3>5
  <2> QED
    BY <2>1, <2>2
<1>5. Distance(B, t, n + 1, R)
  BY <1>2, <1>4 DEF Distance
<1>6. ASSUME NEW k \in 1..(n + 1) - 1 PROVE At(B, t, k).entry <= R[k]
  <2>1. CASE k = n
    <3>1. R[n] \in Nat
      BY <1>1, <1>2
    <3> QED
      BY <2>1, <3>1
  <2>2. CASE k # n
    <3>1. k \in 1..n - 1 /\ k \in 0..n - 1 /\ k \in 0..n
      BY <1>1, <2>2
    <3>2. At(A, t, k).entry <= T[k]
      BY <3>1 DEF Within
    <3>3. At(A, t, k).entry \in Nat
      <4>1. At(A, t, k) \in BlockType
        <5>1. k \in 0..Size - 1
          BY <1>1, <3>1
        <5> QED
          BY <5>1, AheadLaw DEF At
      <4> QED
        BY <4>1 DEF BlockType
    <3> QED
      BY <1>1, <1>2, <1>3, <1>s, <3>1, <3>2, <3>3
  <2> QED
    BY <2>1, <2>2
<1>7. Within(B, t, n + 1, 1, R)
  BY <1>6 DEF Within
<1>8. ASSUME NEW k \in 0..n PROVE T[k] <= R[k]
  <2>1. T[k] \in Nat /\ R[k] = T[k] + d
    BY <1>2, <1>3
  <2> QED
    BY <1>1, <2>1
<1>9. Farther(B, t, n, T, R)
  BY <1>5, <1>7, <1>8 DEF Farther
<1> QED
  BY <1>2, <1>9

(* The queue with motion m behind it.                                      *)
Added(m, j) == NewBlock(m, j, previous_nominal_speed, Nominal(m))

Extended(m, j) == [block_buffer EXCEPT ![block_buffer_head] = Added(m, j)]

(* What plan_buffer_line writes in the new block.                          *)
LEMMA AddedLaw ==
  ASSUME TypeOK, NEW m \in Motion, NEW j \in Junctions \cup {0}
  PROVE  /\ Added(m, j) \in BlockType /\ Added(m, j).entry = 0 /\ Added(m, j).mm > 0
         /\ Nominal(m) \in Nat
         /\ Added(m, j).max_entry = MaxEntry(j, Nominal(m), previous_nominal_speed)
         /\ Added(m, j).max_junction = j
         /\ Added(m, j).kind = m.kind /\ Added(m, j).rate = m.rate
<1>1. /\ m.kind \in {"feed", "fixed", "rapid"} /\ m.rate \in Nat
      /\ m.mm \in Nat /\ m.mm > 0
  <2>1. /\ \A d \in Lengths : d \in Nat /\ d > 0
        /\ \A r \in FeedRates \cup FixedRates \cup {RapidRate} : r \in Nat
    BY PlannerAssumption
  <2>2. /\ m.kind \in {"feed", "fixed", "rapid"} /\ m.mm \in Lengths
        /\ m.rate \in FeedRates \cup FixedRates \cup {RapidRate}
    BY DEF Motion
  <2> QED
    BY <2>1, <2>2
<1>2. f_override \in Nat /\ r_override \in Nat /\ previous_nominal_speed \in Nat
  BY PlannerAssumption DEF TypeOK, DefaultOverride, RapidMedium, RapidLow
<1>3. j \in Nat
  BY PlannerAssumption
<1>4. Nominal(m) \in Nat
  BY <1>1, <1>2, NominalOf DEF Nominal
<1> DEFINE x == MaxEntry(j, Nominal(m), previous_nominal_speed)
<1>5. x \in Nat
  BY <1>2, <1>3, <1>4, MaxEntryTyped
<1> HIDE DEF x
<1>6. Added(m, j) = [kind |-> m.kind, rate |-> m.rate, mm |-> m.mm, entry |-> 0,
                     max_entry |-> x, max_junction |-> j]
  BY DEF Added, NewBlock, x
<1>7. Added(m, j) \in BlockType /\ Added(m, j).entry = 0 /\ Added(m, j).mm = m.mm
      /\ Added(m, j).max_entry = x /\ Added(m, j).max_junction = j
      /\ Added(m, j).kind = m.kind /\ Added(m, j).rate = m.rate
  BY <1>1, <1>3, <1>5, <1>6 DEF BlockType
<1> QED
  BY <1>1, <1>4, <1>7 DEF x

(* The queue with the new block: where it is, and that it can be stopped at*)
(* its end.                                                                *)
LEMMA ExtendedLaw ==
  ASSUME SafeInv, NEW m \in Motion, NEW j \in Junctions \cup {0}, plan_buffer_line(m, j)
  PROVE  LET t == block_buffer_tail
             n == Count
             B == Extended(m, j)
         IN  /\ ~SystemMotion /\ state \in {"IDLE", "CYCLE"}
             /\ B \in [Index -> BlockType] /\ t \in Index
             /\ n \in 0..Size - 2 /\ next_buffer_head = Ahead(t, n + 1)
             /\ next_buffer_head \in Index
             /\ \A k \in 0..n - 1 : At(B, t, k) = At(block_buffer, t, k)
             /\ At(B, t, n) = Added(m, j)
             /\ Lengthy(B, t, n + 1)
             /\ \E R \in [0..n + 1 -> Nat] :
                  /\ Distance(B, t, n + 1, R) /\ Within(B, t, n + 1, 1, R)
                  /\ v <= R[0]
                  /\ ~Empty => IF Loading THEN At(B, t, 0).entry <= R[0]
                               ELSE prep.exit <= R[1]
<1> USE DEF SafeInv
<1> DEFINE t == block_buffer_tail
           n == Count
           B == Extended(m, j)
<1>1. /\ t \in Index /\ n \in 0..Size - 1 /\ block_buffer_head = Ahead(t, n)
      /\ Empty <=> n = 0
      /\ block_buffer \in [Index -> BlockType] /\ Size \in Nat
      /\ block_buffer_head \in Index
      /\ Block(0) = At(block_buffer, t, 0)
  BY QueueRing, PlannerAssumption
<1>2. state \in {"IDLE", "CYCLE"} /\ next_buffer_head # t
  BY DEF plan_buffer_line, plan_check_full_buffer
<1>3. ~SystemMotion
  BY <1>2 DEF StateInv
<1>4. next_buffer_head = plan_next_block_index(Ahead(t, n)) /\ next_buffer_head \in Index
  BY <1>1 DEF RingInv, TypeOK
<1>5. n \in 0..Size - 2
  <2>1. CASE n = Size - 1
    <3>1. plan_next_block_index(Ahead(t, n)) = t
      BY <1>1, <2>1, PlannerAssumption DEF plan_next_block_index, Ahead, Index
    <3> QED
      BY <1>2, <1>4, <3>1
  <2>2. CASE n # Size - 1
    <3>1. n \in 0..Size - 1 /\ Size \in Nat
      BY <1>1
    <3> HIDE DEF n
    <3> QED
      BY <2>2, <3>1
  <2> QED
    BY <2>1, <2>2
<1>6. Added(m, j) \in BlockType /\ Added(m, j).entry = 0 /\ Added(m, j).mm > 0
  BY AddedLaw
<1>7. Written(block_buffer, B, Ahead(t, n), Added(m, j))
  BY <1>1 DEF Written, Extended
<1> HIDE DEF n, B
<1>8. /\ B \in [Index -> BlockType]
      /\ plan_next_block_index(Ahead(t, n)) = Ahead(t, n + 1)
      /\ At(B, t, n) = Added(m, j)
      /\ \A k \in 0..n - 1 : At(B, t, k) = At(block_buffer, t, k)
  BY <1>1, <1>5, <1>6, <1>7, Appended
<1>9. Lengthy(B, t, n + 1)
  <2>1. ASSUME NEW k \in 0..(n + 1) - 1 PROVE At(B, t, k).mm > 0
    <3>1. CASE k = n
      BY <1>6, <1>8, <3>1
    <3>2. CASE k # n
      <4>1. k \in 0..n - 1
        BY <1>5, <3>2
      <4>2. At(block_buffer, t, k).mm > 0
        BY <4>1 DEF LengthInv, Lengthy, n
      <4> QED
        BY <1>8, <4>1, <4>2
    <3> QED
      BY <3>1, <3>2
  <2> QED
    BY <2>1 DEF Lengthy
<1>10. \E R \in [0..n + 1 -> Nat] :
         /\ Distance(B, t, n + 1, R) /\ Within(B, t, n + 1, 1, R)
         /\ v <= R[0]
         /\ ~Empty => IF Loading THEN At(B, t, 0).entry <= R[0]
                      ELSE prep.exit <= R[1]
  <2>1. PICK T \in [0..n -> Nat] : Stops(T)
    BY <1>3 DEF EndInv, n
  <2>2. Distance(block_buffer, t, n, T) /\ Within(block_buffer, t, n, 1, T)
    BY <2>1 DEF Stops, n
  <2>3. At(B, t, n).entry = 0
    BY <1>6, <1>8
  <2>4. \E R \in [0..n + 1 -> Nat] : Farther(B, t, n, T, R)
    <3>1. Same(block_buffer, B, t, n)
      BY <1>8 DEF Same
    <3>2. B \in [Index -> BlockType]
      BY <1>8
    <3> QED
      BY <1>1, <1>5, <2>1, <2>2, <2>3, <3>1, <3>2, RoomAhead
  <2>5. PICK R \in [0..n + 1 -> Nat] :
           /\ Distance(B, t, n + 1, R) /\ Within(B, t, n + 1, 1, R)
           /\ \A k \in 0..n : T[k] <= R[k]
    BY <2>4 DEF Farther
  <2>6. 0 \in 0..n /\ 0 \in 0..n + 1 /\ 1 \in 0..n + 1 /\ n \in Nat
    BY <1>5, <1>1
  <2>7. T[0] \in Nat /\ R[0] \in Nat /\ R[1] \in Nat /\ T[0] <= R[0]
    BY <2>5, <2>6
  <2>8. v \in Nat /\ prep.exit \in Nat
    BY DEF TypeOK, v
  <2>9. v <= R[0]
    <3>1. v <= T[0]
      BY <2>1 DEF Stops
    <3> QED
      BY <2>7, <2>8, <3>1
  <2>10. ASSUME ~Empty
         PROVE  IF Loading THEN At(B, t, 0).entry <= R[0] ELSE prep.exit <= R[1]
    <3>1. n > 0 /\ 0 \in 0..n - 1 /\ 1 \in 0..n
      <4>1. n # 0 /\ n \in 0..Size - 2
        BY <1>1, <1>5, <2>10 DEF n
      <4> QED
        BY <1>1, <4>1
    <3>2. At(B, t, 0) = At(block_buffer, t, 0)
      BY <1>8, <3>1
    <3>3. At(block_buffer, t, 0).entry \in Nat /\ T[1] \in Nat /\ T[1] <= R[1]
      <4>1. At(block_buffer, t, 0) \in BlockType
        BY QueueRing, PlannerAssumption
      <4> QED
        BY <2>5, <3>1, <4>1 DEF BlockType
    <3>4. IF Loading THEN At(block_buffer, t, 0).entry <= T[0] ELSE prep.exit <= T[1]
      BY <1>1, <2>1, <2>10 DEF Stops
    <3> QED
      BY <2>7, <2>8, <3>2, <3>3, <3>4
  <2> QED
    BY <2>5, <2>9, <2>10
<1> QED
  BY <1>1, <1>2, <1>3, <1>4, <1>5, <1>8, <1>9, <1>10 DEF n, B

-----------------------------------------------------------------------------
(* The steps together.                                                     *)

(* plan_buffer_line keeps the machine able to stop.                        *)
LEMMA LineSafe ==
  ASSUME SafeInv, NEW m \in Motion, NEW j \in Junctions \cup {0}, plan_buffer_line(m, j)
  PROVE  SafeInv'
<1> DEFINE t == block_buffer_tail
           n == Count
           B == Extended(m, j)
<1>0. /\ TypeOK /\ RingInv /\ StateInv /\ SpeedInv /\ ProfileInv
      /\ LengthInv /\ EndInv
  BY DEF SafeInv
<1>1. /\ ~SystemMotion /\ state \in {"IDLE", "CYCLE"}
      /\ B \in [Index -> BlockType] /\ t \in Index
      /\ n \in 0..Size - 2 /\ next_buffer_head = Ahead(t, n + 1)
      /\ next_buffer_head \in Index
      /\ \A k \in 0..n - 1 : At(B, t, k) = At(block_buffer, t, k)
      /\ At(B, t, n) = Added(m, j)
      /\ Lengthy(B, t, n + 1)
  BY ExtendedLaw
<1>2. PICK R \in [0..n + 1 -> Nat] :
        /\ Distance(B, t, n + 1, R) /\ Within(B, t, n + 1, 1, R)
        /\ v <= R[0]
        /\ ~Empty => IF Loading THEN At(B, t, 0).entry <= R[0] ELSE prep.exit <= R[1]
  BY ExtendedLaw
<1>3. /\ previous_nominal_speed' = Nominal(m)
      /\ block_buffer_head' = next_buffer_head
      /\ next_buffer_head' = plan_next_block_index(next_buffer_head)
      /\ IF ~Empty /\ block_buffer_planned = t
         THEN /\ st_update_plan_block_parameters
              /\ planner_recalculate(Updated(B), block_buffer_planned, next_buffer_head)
         ELSE /\ pl_block' = pl_block /\ prep' = prep
              /\ planner_recalculate(B, block_buffer_planned, next_buffer_head)
      /\ UNCHANGED <<block_buffer_tail, state, step_control, hold_complete, f_override,
                     r_override, slowed>>
  BY DEF plan_buffer_line, Nominal, Extended, Added, stepper, control, override
<1> HIDE DEF B
<1>4. Size \in Nat /\ n \in Nat /\ (Empty <=> n = 0) /\ Ahead(t, 0) = t
      /\ Added(m, j).entry = 0 /\ Nominal(m) \in Nat
      /\ v \in Nat /\ prep.exit \in Nat /\ prep \in ProfileType
      /\ Block(0) = At(block_buffer, t, 0)
  <2>1. (Empty <=> n = 0) /\ Ahead(t, 0) = t /\ n \in 0..Size - 1
        /\ Block(0) = At(block_buffer, t, 0)
    BY <1>0, QueueRing
  <2>2. Added(m, j).entry = 0 /\ Nominal(m) \in Nat
    BY <1>0, AddedLaw
  <2>3. prep \in ProfileType /\ v \in Nat /\ prep.exit \in Nat
    BY <1>0 DEF TypeOK, ProfileType, v
  <2> QED
    BY PlannerAssumption, <2>1, <2>2, <2>3
<1>5. /\ SystemMotion' = FALSE /\ Holding' = Holding /\ Count' = n + 1 /\ ~Empty'
      /\ ~Holding /\ "END_MOTION" \notin step_control /\ ~hold_complete
      /\ block_buffer_head' = Ahead(t, n + 1)
  <2>1. n + 1 \in 1..Size - 1
    BY <1>1, <1>4
  <2>2. Span(t, Ahead(t, n + 1)) = n + 1
    BY <1>1, <1>4, <2>1, AheadLaw
  <2>3. Ahead(t, n + 1) # t
    <3>1. Span(t, t) = 0
      BY <1>1, PlannerAssumption DEF Span, Index
    <3>2. n + 1 # 0
      BY <1>4
    <3> QED
      BY <2>2, <3>1, <3>2
  <2> QED
    BY <1>0, <1>1, <1>3, <2>2, <2>3 DEF SystemMotion, Holding, Count, Empty, StateInv
<1>6. next_buffer_head' = plan_next_block_index(block_buffer_head')
      /\ next_buffer_head' \in Index
  <2>1. plan_next_block_index(next_buffer_head) \in Index
    BY <1>1, PlannerAssumption, SMTT(30) DEF plan_next_block_index, Index
  <2> QED
    BY <1>3, <2>1
<1>7. CASE Empty
  <2>1. /\ n = 0 /\ Loading /\ v = 0 /\ prep.exit = 0 /\ ~prep.recalculate /\ ~slowed
    BY <1>0, <1>1, <1>4, <1>7 DEF StateInv, SpeedInv
  <2>2. block_buffer' = B /\ block_buffer_planned' = t /\ pl_block' = pl_block /\ prep' = prep
    <3>1. Span(t, next_buffer_head) = 1
      BY <1>3, <1>5, <2>1 DEF Count
    <3> QED
      BY <1>3, <1>7, <3>1 DEF planner_recalculate
  <2>3. At(B, t, 0).entry = 0
    BY <1>1, <1>4, <2>1
  <2>4. TypeOK'
    BY <1>0, <1>1, <1>3, <1>4, <1>6, <2>2 DEF TypeOK, BlockType
  <2>5. RingInv'
    <3>1. Offset' = 0
      BY <1>1, <1>3, <2>2, PlannerAssumption DEF Offset, Span, Index
    <3> QED
      BY <1>5, <1>6, <2>1, <2>2, <3>1 DEF RingInv, Loading
  <2>6. StateInv'
    BY <1>0, <1>1, <1>3, <1>5, <2>1, <2>2 DEF StateInv, Loading
  <2>7. SpeedInv' /\ ProfileInv'
    BY <1>5, <2>1, <2>2 DEF SpeedInv, ProfileInv, Loading, v
  <2>8. LengthInv'
    BY <1>1, <1>3, <1>5, <2>2 DEF LengthInv
  <2>9. EndInv'
    <3>1. Block(0)' = At(B, t, 0)
      BY <1>3, <2>2 DEF Block, At
    <3>2. R[0] \in Nat
      <4>1. 0 \in 0..n + 1
        BY <1>4
      <4> QED
        BY <4>1
    <3>3. Stops(R)'
      BY <1>2, <1>3, <1>5, <2>1, <2>2, <2>3, <3>1, <3>2 DEF Stops, v, Loading
    <3> QED
      BY <1>5, <3>3 DEF EndInv
  <2> QED
    BY <2>4, <2>5, <2>6, <2>7, <2>8, <2>9 DEF SafeInv
<1>8. CASE ~Empty /\ block_buffer_planned = t
  <2>1. n # 0 /\ 0 \in 0..n - 1
    BY <1>4, <1>8
  <2>2. At(B, t, 0).entry = At(block_buffer, t, 0).entry
    BY <1>1, <2>1
  <2>3. Room(B, n + 1, R)
    BY <1>2, <1>8 DEF Room
  <2>4. /\ block_buffer' \in [Index -> BlockType] /\ block_buffer_planned' \in Index
        /\ pl_block' = NULL /\ prep' \in ProfileType /\ prep'.current = v
        /\ Loading' /\ ~Empty' /\ Count' = n + 1 /\ Offset' < Count'
        /\ prep'.recalculate <=> prep.recalculate \/ ~Loading
        /\ SpeedInv' /\ ProfileInv' /\ LengthInv' /\ EndInv'
    <3>1. n + 1 \in 1..Size - 1
      BY <1>1, <1>4
    <3>2. planner_recalculate(Updated(B), t, Ahead(t, n + 1))
          /\ st_update_plan_block_parameters /\ block_buffer_tail' = t
      BY <1>1, <1>3, <1>8
    <3>3. \E T \in [0..n + 1 -> Nat] : Room(B, n + 1, T)
      BY <2>3
    <3> HIDE DEF n
    <3> QED
      BY <1>1, <1>5, <1>8, <2>2, <3>1, <3>2, <3>3, Reinitialized
  <2>5. TypeOK'
    BY <1>0, <1>1, <1>3, <1>4, <1>6, <2>4 DEF TypeOK, BlockType, ProfileType
  <2>6. RingInv'
    BY <1>6, <2>4 DEF RingInv
  <2>7. StateInv'
    BY <1>0, <1>1, <1>3, <1>5, <2>4 DEF StateInv
  <2> QED
    BY <2>4, <2>5, <2>6, <2>7 DEF SafeInv
<1>9. CASE ~Empty /\ block_buffer_planned # t
  <2> DEFINE q == Offset
             W == block_buffer'
  <2>1. q \in 1..n - 1 /\ Ahead(t, q) = block_buffer_planned
    <3>1. q \in 0..Size - 1 /\ Ahead(t, q) = block_buffer_planned
      <4>1. block_buffer_planned \in Index
        BY <1>0 DEF TypeOK
      <4> QED
        BY <1>1, <4>1, SpanLaw DEF Offset
    <3>2. q < n
      BY <1>0, <1>9 DEF RingInv
    <3>3. q # 0
      BY <1>4, <1>9, <3>1
    <3> HIDE DEF q, n
    <3> QED
      BY <1>4, <3>1, <3>2, <3>3
  <2>2. planner_recalculate(B, Ahead(t, q), Ahead(t, n + 1))
        /\ pl_block' = pl_block /\ prep' = prep
    BY <1>1, <1>3, <1>9, <2>1
  <2>3. n + 1 \in 1..Size - 1 /\ q \in 0..(n + 1) - 1 /\ 0 \in 0..q /\ 1 \in 0..q
        /\ 0 \in 0..n - 1 /\ 0 \in 0..n + 1 /\ 1 \in 0..n + 1
    <3> HIDE DEF q, n
    <3> QED
      BY <1>1, <1>4, <2>1
  <2> HIDE DEF q, n
  <2>4. block_buffer_planned' \in Index
        /\ Replaced(B, W, t, n + 1, q, Span(t, block_buffer_planned'))
    BY <1>1, <2>2, <2>3, Recalculation
  <2>5. /\ W \in [Index -> BlockType] /\ Span(t, block_buffer_planned') \in q..(n + 1) - 1
        /\ At(W, t, 0) = At(B, t, 0) /\ Lengthy(W, t, n + 1)
        /\ Distance(W, t, n + 1, R) /\ Within(W, t, n + 1, 1, R)
    BY <1>1, <1>2, <2>3, <2>4 DEF Replaced
  <2>6. At(W, t, 0) = At(block_buffer, t, 0)
    BY <1>1, <2>3, <2>5
  <2>7. /\ Block(0)' = At(W, t, 0) /\ Offset' < n + 1 /\ Exec' = Exec /\ Loading' = Loading
    <3>1. Offset' = Span(t, block_buffer_planned')
      BY <1>3 DEF Offset
    <3>2. Block(0)' = At(W, t, 0)
      BY <1>3 DEF Block, At
    <3>3. Exec' = Exec
      BY <1>1, <1>3, <1>4, <1>5, <2>6 DEF Exec, Work, At
    <3> QED
      BY <1>4, <2>1, <2>2, <2>5, <3>1, <3>2, <3>3 DEF Loading
  <2>8. TypeOK'
    BY <1>0, <1>1, <1>3, <1>4, <1>6, <2>2, <2>4, <2>5 DEF TypeOK, BlockType
  <2>9. RingInv'
    <3>1. pl_block' \in {NULL, Work'}
      BY <1>0, <1>1, <1>3, <1>5, <2>2 DEF RingInv, Work
    <3> QED
      BY <1>5, <1>6, <2>7, <3>1 DEF RingInv
  <2>10. StateInv'
    BY <1>0, <1>1, <1>3, <1>5, <2>2, <2>7 DEF StateInv
  <2>11. SpeedInv'
    BY <1>0, <1>4, <1>5, <2>2, <2>6, <2>7 DEF SpeedInv, v
  <2>12. ProfileInv'
    BY <1>0, <1>1, <1>5, <2>2, <2>7 DEF ProfileInv, Fits
  <2>13. LengthInv'
    BY <1>3, <1>5, <2>5 DEF LengthInv
  <2>14. EndInv'
    <3>1. R[0] \in Nat /\ R[1] \in Nat
      BY <2>3
    <3>2. IF Loading THEN Block(0)'.entry <= R[0] ELSE prep.exit <= R[1]
      BY <1>2, <1>9, <2>5, <2>7
    <3>3. Stops(R)'
      BY <1>2, <1>3, <1>5, <2>2, <2>5, <2>7, <3>2 DEF Stops, v
    <3> QED
      BY <1>5, <3>3 DEF EndInv
  <2> QED
    BY <2>8, <2>9, <2>10, <2>11, <2>12, <2>13, <2>14 DEF SafeInv
<1> QED
  BY <1>7, <1>8, <1>9

(* Every segment does.                                                     *)
LEMMA SegmentSafe ==
  ASSUME SafeInv, NEW mm \in Nat, PrepSegment(mm)
  PROVE  SafeInv'
<1>1. CASE mm > 0 \/ SystemMotion
  BY <1>1, SegmentWithin
<1>2. CASE ~(mm > 0 \/ SystemMotion)
  <2>1. mm = 0 /\ ~SystemMotion
    BY <1>2
  <2> QED
    BY <2>1, SegmentDiscards
<1> QED
  BY <1>1, <1>2

(* Every step does.                                                        *)
LEMMA StepSafe ==
  ASSUME SafeInv, [Next]_vars
  PROVE  SafeInv'
<1>1. ASSUME NEW m \in Motion, NEW j \in Junctions \cup {0}, plan_buffer_line(m, j)
      PROVE  SafeInv'
  BY <1>1, LineSafe
<1>2. ASSUME NEW mm \in 0..Max(Lengths \cup SystemLengths), PrepSegment(mm)
      PROVE  SafeInv'
  <2>1. mm \in Nat
    OBVIOUS
  <2> QED
    BY <1>2, <2>1, SegmentSafe
<1>3. CASE PrepHoldEnd
  BY <1>3, HoldEndSafe
<1>4. CASE FeedHold
  BY <1>4, FeedHoldSafe
<1>5. CASE CycleStart
  BY <1>5, CycleStartSafe
<1>6. CASE CycleStop
  BY <1>6, CycleStopSafe
<1>7. ASSUME NEW c \in SUBSET Commands, ExecuteOverrides(c) PROVE SafeInv'
  BY <1>7, OverridesSafe
<1>8. ASSUME NEW m \in SystemLengths, BeginSystemMotion(m) PROVE SafeInv'
  BY <1>8, SystemMotionSafe
<1>9. CASE EndSystemMotion
  BY <1>9, SystemMotionEndSafe
<1>10. CASE ProgramEnd
  BY <1>10, ProgramEndSafe
<1>11. CASE Reset
  BY <1>11, ResetSafe
<1>12. CASE UNCHANGED vars
  BY <1>12, StutterSafe
<1> QED
  BY <1>1, <1>2, <1>3, <1>4, <1>5, <1>6, <1>7, <1>8, <1>9, <1>10, <1>11, <1>12, Zenon
     DEF Next

(* Whatever the overrides, holds and resets do: the pointers of the ring   *)
(* are right, the stepper works on the block they say, and the machine can *)
(* be stopped at the end of what is queued.                                *)
THEOREM AlwaysSafe == Spec => []SafeInv
<1>1. Init => SafeInv
  BY StartSafe
<1>2. SafeInv /\ [Next]_vars => SafeInv'
  BY StepSafe
<1> QED
  BY <1>1, <1>2, PTL DEF Spec

(* The variables of the planner keep their types: no entry speed, length or*)
(* profile becomes negative.                                               *)
THEOREM TypeCorrect == Spec => []TypeOK
<1>1. SafeInv => TypeOK
  BY DEF SafeInv
<1> QED
  BY <1>1, AlwaysSafe, PTL

(* block_buffer_planned never falls behind the tail nor passes the last    *)
(* block, so planner_recalculate never runs over slots that are not in use.*)
THEOREM PlannedAlwaysInQueue == Spec => []PlannedInQueue
<1>1. SafeInv => PlannedInQueue
  BY DEF SafeInv, RingInv, PlannedInQueue, Offset
<1> QED
  BY <1>1, AlwaysSafe, PTL

(* A hold ends at rest, and the plan that is resumed starts from rest      *)
(* (protocol.c EXEC_CYCLE_STOP, st_prep_buffer).                           *)
THEOREM HoldAlwaysEndsAtRest == Spec => []HoldEndsAtRest
<1>1. ASSUME SafeInv PROVE HoldEndsAtRest
  <2> SUFFICES ASSUME hold_complete, Empty \/ "END_MOTION" \in step_control
               PROVE  prep.current = 0 /\ (~Empty => Block(0).entry = 0)
    BY DEF HoldEndsAtRest
  <2>1. state = "HOLD" /\ ~SystemMotion
    BY <1>1 DEF SafeInv, StateInv
  <2>2. CASE Empty
    BY <1>1, <2>1, <2>2 DEF SafeInv, SpeedInv, v
  <2>3. CASE ~Empty
    <3>1. v = 0 /\ prep.recalculate
      BY <1>1, <2>1, <2>3 DEF SafeInv, StateInv
    <3>2. v = Block(0).entry
      BY <1>1, <3>1 DEF SafeInv, SpeedInv
    <3> QED
      BY <3>1, <3>2 DEF v
  <2> QED
    BY <2>2, <2>3
<1> QED
  BY <1>1, AlwaysSafe, PTL

-----------------------------------------------------------------------------
(* The plan while no override has been lowered: the profile of the block in*)
(* execution.                                                              *)

(* The inductive invariant of the planner.                                 *)
PlannerInv == SafeInv /\ SmoothInv /\ LimitInv /\ PlanInv /\ ExitIsPlanned

(* Out of a hold, the profile that is loaded or computed now ends at the   *)
(* speed the planner has for the next block.                               *)
LEMMA ExitNow ==
  ASSUME SafeInv, ExitIsPlanned, Running, ~Holding, ~SystemMotion,
         ~Planned.decel_override
  PROVE  Planned.exit = Exit
<1> USE DEF SafeInv
<1>1. ~Empty /\ "END_MOTION" \notin step_control
  BY DEF Running
<1>2. plan_get_exec_block_exit_speed_sqr = Exit /\ Exit \in Nat
  BY <1>1, ExitLaw
<1>3. CASE ~Loading
  BY <1>1, <1>2, <1>3 DEF Planned, Loading, ExitIsPlanned
<1>4. CASE Loading
  <2> DEFINE b == Loaded
             P == Profile(b)
  <2>1. ExitSpeed = Exit
    BY <1>2 DEF ExitSpeed
  <2>2. b \in BlockType /\ (prep.recalculate => prep.current = b.entry)
    BY <1>4, LoadedLaw DEF v
  <2> HIDE DEF b
  <2>3. \/ Lowered(b.entry, b.mm, Top(b), ExitSpeed, P)
        \/ AsPlanned(b.entry, b.mm, Top(b), ExitSpeed, P)
    BY <1>2, <2>1, <2>2, ProfileLaw
  <2>4. Planned = P
    BY <1>4 DEF Planned, Loading, b
  <2> HIDE DEF P
  <2> QED
    BY <2>1, <2>3, <2>4 DEF Lowered, AsPlanned
<1> QED
  BY <1>3, <1>4

(* The nominal speed of a block, squared, does not depend on its entry     *)
(* speed or length.                                                        *)
LEMMA TopLaw ==
  ASSUME TypeOK, NEW b \in BlockType, NEW x \in Nat
  PROVE  /\ Top(b) \in Nat /\ Top(b) > 0
         /\ Top([b EXCEPT !.entry = x]) = Top(b) /\ Top([b EXCEPT !.mm = x]) = Top(b)
         /\ Nominal([b EXCEPT !.entry = x]) = Nominal(b)
<1> DEFINE n == Nominal(b)
<1>1. n \in Nat /\ n > 0
  <2>1. f_override \in Nat /\ r_override \in Nat
    BY PlannerAssumption DEF TypeOK, DefaultOverride, RapidMedium, RapidLow
  <2> QED
    BY <2>1, NominalTyped DEF Nominal
<1>2. /\ Nominal([b EXCEPT !.entry = x]) = n /\ Nominal([b EXCEPT !.mm = x]) = n
  <2>1. /\ [b EXCEPT !.entry = x].kind = b.kind /\ [b EXCEPT !.entry = x].rate = b.rate
        /\ [b EXCEPT !.mm = x].kind = b.kind /\ [b EXCEPT !.mm = x].rate = b.rate
    BY DEF BlockType
  <2> QED
    BY <2>1 DEF Nominal, plan_compute_profile_nominal_speed
<1> HIDE DEF n
<1>3. n * n \in Nat /\ n * n > 0
  BY <1>1
<1> QED
  BY <1>2, <1>3 DEF Top, n

(* While no override has been lowered, that profile can be followed within *)
(* the acceleration and starts at the speed now.                           *)
LEMMA FollowNow ==
  ASSUME PlannerInv, Running, ~slowed
  PROVE  /\ Follow(Loaded, Planned) /\ Planned.current = v
         /\ ~Holding /\ ~SystemMotion => Planned.exit = Exit
<1> USE DEF PlannerInv, SafeInv
<1> DEFINE t == block_buffer_tail
           n == Count
           b == Loaded
           p == Planned
           e == b.entry
           d == b.mm
<1>1. /\ Exec \in BlockType /\ b \in BlockType /\ d = Exec.mm
      /\ b = [Exec EXCEPT !.entry = e]
      /\ ~SystemMotion => /\ Work = t /\ n \in 1..Size - 1
                          /\ Exec = At(block_buffer, t, 0) /\ Exec.mm > 0
      /\ ~Loading => b = Exec /\ ~prep.recalculate
      /\ Loading /\ ~SystemMotion => e \in {v, Exec.entry}
      /\ Loading /\ SystemMotion => e = 0 /\ Exec.mm > 0
      /\ Loading /\ prep.recalculate => v = e /\ e = Exec.entry
  BY LoadedLaw
<1>2. p \in ProfileType /\ Fits(b, p) /\ (Loading => p.current = e)
  BY PlannedLaw
<1>3. e \in Nat /\ d \in Nat /\ Exec.entry \in Nat /\ v \in Nat /\ n \in 0..Size - 1
      /\ Size \in Nat
  BY <1>1, QueueRing, PlannerAssumption DEF BlockType, TypeOK, v
<1>4. CASE ~Loading
  <2>1. p = prep /\ b = Exec
    BY <1>1, <1>4 DEF Planned, Loading
  <2>2. Follow(b, p) /\ p.current = v
    BY <1>4, <2>1 DEF SmoothInv, v
  <2>3. ~p.decel_override
    BY <2>2 DEF Follow
  <2> QED
    BY <2>2, <2>3, ExitNow
<1>5. CASE Loading
  <2> DEFINE N == Top(b)
             X == ExitSpeed
             x1 == Exit
  <2>1. N = Top(Exec) /\ N \in Nat /\ N > 0
    BY <1>1, <1>3, TopLaw, ZenonT(60)
  <2>2. SystemMotion => X = 0 /\ Empty /\ ~Holding
    BY DEF ExitSpeed, StateInv
  <2>3. ~SystemMotion => X = x1 /\ x1 \in Nat
    BY ExitLaw DEF ExitSpeed, Running
  <2>4. X \in Nat
    BY <2>2, <2>3
  <2>5. e = v
    <3>1. CASE SystemMotion
      <4>1. v = 0
        BY <1>5, <2>2, <3>1 DEF SpeedInv
      <4> QED
        BY <1>1, <1>5, <3>1, <4>1
    <3>2. CASE ~SystemMotion /\ prep.recalculate
      BY <1>1, <1>5, <3>2
    <3>3. CASE ~SystemMotion /\ ~prep.recalculate /\ Holding
      <4>1. LoadedEntry(Exec) = prep.exit
        BY <3>3 DEF LoadedEntry
      <4>2. b = [Exec EXCEPT !.entry = LoadedEntry(Exec)]
        BY <1>5 DEF Loaded, Loading, Exec
      <4>3. e = prep.exit
        BY <1>1, <4>1, <4>2 DEF BlockType
      <4>4. v = prep.exit
        BY <1>5, <3>3 DEF SpeedInv
      <4> QED
        BY <4>3, <4>4
    <3>4. CASE ~SystemMotion /\ ~Holding
      <4>1. ~Empty /\ Block(0) = At(block_buffer, t, 0)
        BY <3>4, QueueRing DEF Running
      <4>2. Exec.entry = v
        BY <1>1, <1>5, <3>4, <4>1 DEF PlanInv
      <4> QED
        BY <1>1, <1>5, <3>4, <4>2
    <3> QED
      BY <3>1, <3>2, <3>3, <3>4
  <2>6. e <= N
    <3>1. CASE SystemMotion
      BY <1>1, <1>5, <2>1, <3>1
    <3>2. CASE ~SystemMotion
      <4>1. ~Empty /\ Block(0) = At(block_buffer, t, 0)
        BY <3>2, QueueRing DEF Running
      <4>2. Exec.entry <= Top(Exec) /\ v <= Exec.entry
        BY <1>1, <1>3, <1>5, <3>2, <4>1 DEF PlanInv
      <4> QED
        BY <1>3, <2>1, <2>5, <4>2
    <3> QED
      BY <3>1, <3>2
  <2>7. ~SystemMotion => e <= d + X
    <3> SUFFICES ASSUME ~SystemMotion PROVE e <= d + X
      OBVIOUS
    <3>1. ~Empty /\ Block(0) = At(block_buffer, t, 0)
      BY QueueRing DEF Running
    <3>2. Exec.entry <= Exec.mm + Exit
      <4>1. Brakes(block_buffer, t, n, 0)
        BY <1>5 DEF PlanInv
      <4>2. 0 \in 0..n - 1
        BY <1>1, <1>3
      <4> QED
        BY <1>1, <4>1, <4>2 DEF Brakes, Exit
    <3>3. v <= Exec.entry
      BY <1>1, <1>3, <1>5, <3>1 DEF PlanInv
    <3> QED
      BY <1>1, <1>3, <2>3, <2>5, <3>2, <3>3
  <2>8. ~Holding => X <= e + d
    <3>1. CASE SystemMotion
      BY <1>3, <2>2, <3>1
    <3>2. CASE ~SystemMotion /\ ~Holding /\ n = 1
      <4>1. Exit = 0
        BY <3>2 DEF Exit, Out
      <4> QED
        BY <1>3, <2>3, <3>2, <4>1
    <3>3. CASE ~SystemMotion /\ ~Holding /\ n # 1
      <4>1. 1 \in 1..n - 1 /\ n - 1 # 0
        BY <1>1, <1>3, <3>3
      <4>2. Follows(block_buffer, t, n - 1, SpeedNow)
        BY <3>3 DEF PlanInv
      <4>3. At(block_buffer, t, 1).entry <=
              Ahead1(block_buffer, t, SpeedNow, 1) + At(block_buffer, t, 1 - 1).mm
        BY <4>1, <4>2 DEF Follows
      <4>4. Exit = At(block_buffer, t, 0 + 1).entry
        BY <4>1 DEF Exit, Out
      <4>5. SpeedNow = Exec.entry
        BY <1>1, <1>5, <3>3, QueueRing DEF SpeedNow, Loading
      <4>6. Ahead1(block_buffer, t, SpeedNow, 1) = Exec.entry
        BY <4>5 DEF Ahead1
      <4>7. Exec.entry = v
        <5>1. ~Empty /\ Block(0) = At(block_buffer, t, 0)
          BY <3>3, QueueRing DEF Running
        <5> QED
          BY <1>1, <1>5, <3>3, <5>1 DEF PlanInv
      <4> QED
        BY <1>1, <1>3, <2>3, <2>5, <3>3, <4>3, <4>4, <4>6, <4>7
    <3> QED
      BY <3>1, <3>2, <3>3
  <2>9. X <= N
    <3>1. CASE SystemMotion
      BY <2>1, <2>2, <3>1
    <3>2. CASE ~SystemMotion /\ n = 1
      <4>1. Exit = 0
        BY <3>2 DEF Exit, Out
      <4> QED
        BY <2>1, <2>3, <3>2, <4>1
    <3>3. CASE ~SystemMotion /\ n # 1
      <4>1. 1 \in 1..n - 1 /\ 1 \in 0..n - 1 /\ n - 1 # 0 /\ 1 \in 0..Size - 1
        BY <1>1, <1>3, <3>3
      <4>2. At(block_buffer, t, 1).entry <= At(block_buffer, t, 1).max_entry
        BY <1>5, <4>1 DEF PlanInv, Brakes
      <4>3. Block(1).max_entry <= Top(Block(1 - 1))
        BY <4>1 DEF LimitInv
      <4>4. Block(1) = At(block_buffer, t, 1) /\ Block(1 - 1) = Exec
            /\ At(block_buffer, t, 1) \in BlockType
        BY <1>1, <3>3, <4>1, QueueRing
      <4>5. Exit = At(block_buffer, t, 0 + 1).entry
        BY <4>1 DEF Exit, Out
      <4>6. At(block_buffer, t, 1).entry \in Nat /\ At(block_buffer, t, 1).max_entry \in Nat
        BY <4>4 DEF BlockType
      <4> QED
        BY <2>1, <2>3, <3>3, <4>2, <4>3, <4>4, <4>5, <4>6
    <3> QED
      BY <3>1, <3>2, <3>3
  <2>10. /\ Holding => Held(e, d, p)
         /\ ~Holding => AsPlanned(e, d, N, X, p)
    <3>1. p = Profile(b)
      BY <1>5 DEF Planned, Loading
    <3>2. prep.recalculate => prep.current = e
      BY <1>1, <1>5 DEF v
    <3> HIDE DEF b
    <3>3. /\ Holding => Held(e, d, p)
          /\ ~Holding => \/ Lowered(e, d, N, X, p)
                         \/ AsPlanned(e, d, N, X, p)
      BY <1>1, <2>4, <3>1, <3>2, ProfileLaw
    <3>4. ~Lowered(e, d, N, X, p)
      <4> HIDE DEF e, d, N, X, p
      <4> QED
        BY <1>3, <2>1, <2>6 DEF Lowered
    <3> QED
      BY <3>3, <3>4
  <2>11. p.exit \in Nat /\ p.mm_complete \in Nat /\ p.current = e
    BY <1>2, <1>5 DEF ProfileType
  <2> HIDE DEF e, d, N, X, p, b, x1
  <2>12. /\ p.ramp # "DECEL_OVERRIDE" /\ ~p.decel_override
         /\ ~Holding => p.exit = X
    BY <2>10 DEF Held, AsPlanned
  <2>13. SystemMotion => p.ramp = "TRAPEZOID"
    BY <1>2 DEF Fits
  <2>14. p.ramp = "DECEL" => p.current = p.exit + (d - p.mm_complete)
    BY <1>3, <2>4, <2>7, <2>10, <2>11, <2>13 DEF Held, AsPlanned
  <2>15. p.ramp = "TRAPEZOID" =>
           /\ p.current <= p.exit + d /\ p.exit <= p.current + d
           /\ p.current <= p.maximum /\ p.exit <= p.maximum /\ p.maximum <= N
    BY <1>3, <2>1, <2>4, <2>6, <2>8, <2>9, <2>10, <2>11 DEF Held, AsPlanned
  <2>16. p.exit <= X
    BY <1>3, <2>2, <2>4, <2>7, <2>10, <2>11 DEF Held, AsPlanned
  <2>17. Follow(b, p)
    BY <2>3, <2>6, <2>11, <2>12, <2>14, <2>15, <2>16 DEF Follow, d, N, x1
  <2> QED
    BY <2>3, <2>5, <2>11, <2>12, <2>17 DEF p, b, x1
<1> QED
  BY <1>4, <1>5

-----------------------------------------------------------------------------
(* Queues that are as well planned as another.                             *)

(* The queue B is A with limits that are not lower; with c or another      *)
(* entry speed for its first block.                                        *)
Looser(A, B, t, n) ==
  \A k \in 0..n - 1 :
    /\ At(B, t, k).mm = At(A, t, k).mm /\ At(B, t, k).entry = At(A, t, k).entry
    /\ k > 0 => At(A, t, k).max_entry <= At(B, t, k).max_entry

Behind(A, B, t) == \A k \in 1..Size - 1 : At(B, t, k) = At(A, t, k)

(* The blocks of a queue have their types.                                 *)
LEMMA QueueTyped ==
  ASSUME NEW B \in [Index -> BlockType], NEW t \in Index, NEW k \in 0..Size - 1
  PROVE  /\ At(B, t, k) \in BlockType /\ At(B, t, k).entry \in Nat
         /\ At(B, t, k).mm \in Nat /\ At(B, t, k).max_entry \in Nat
<1>1. Ahead(t, k) \in Index
  BY AheadLaw
<1>2. At(B, t, k) \in BlockType
  BY <1>1 DEF At
<1> QED
  BY <1>2 DEF BlockType

(* The speed at the end of the first block is the entry speed of the slot  *)
(* behind it, or zero.                                                     *)
LEMMA ExitOf ==
  ASSUME NEW B, NEW t \in Index, NEW n \in 1..Size - 1
  PROVE  Out(B, t, n, 0) = IF plan_next_block_index(t) = Ahead(t, n) THEN 0
                           ELSE B[plan_next_block_index(t)].entry
<1>1. Size \in Nat /\ n \in Nat /\ t \in Nat /\ Size > 2 /\ n < Size /\ t < Size
  BY PlannerAssumption DEF Index
<1>2. plan_next_block_index(t) = Ahead(t, 1)
  BY <1>1 DEF plan_next_block_index, Ahead
<1>3. n = 1 <=> Ahead(t, 1) = Ahead(t, n)
  <2>1. 1 \in 0..Size - 1 /\ n \in 0..Size - 1
    BY <1>1
  <2>2. Span(t, Ahead(t, 1)) = 1 /\ Span(t, Ahead(t, n)) = n
    BY <2>1, AheadLaw
  <2> QED
    BY <2>2
<1>4. 0 = n - 1 <=> n = 1
  BY <1>1
<1> QED
  BY <1>2, <1>3, <1>4 DEF Out, At

(* A queue that brakes in time still does when limits are raised.          *)
LEMMA BrakesLooser ==
  ASSUME NEW A \in [Index -> BlockType], NEW B \in [Index -> BlockType],
         NEW t \in Index, NEW n \in 1..Size - 1,
         Looser(A, B, t, n), Brakes(A, t, n, 1)
  PROVE  Brakes(B, t, n, 1) /\ Out(B, t, n, 0) = Out(A, t, n, 0)
<1>1. Size \in Nat /\ n \in Nat
  BY PlannerAssumption
<1>2. ASSUME NEW k \in 0..n - 1 PROVE Out(B, t, n, k) = Out(A, t, n, k)
  <2>1. k # n - 1 => k + 1 \in 0..n - 1
    BY <1>1
  <2> QED
    BY <2>1 DEF Out, Looser
<1>3. ASSUME NEW k \in 1..n - 1
      PROVE  /\ At(B, t, k).entry <= At(B, t, k).mm + Out(B, t, n, k)
             /\ k > 0 => At(B, t, k).entry <= At(B, t, k).max_entry
  <2>1. k \in 0..n - 1 /\ k \in 0..Size - 1 /\ k > 0
    BY <1>1
  <2>2. /\ At(A, t, k).entry <= At(A, t, k).mm + Out(A, t, n, k)
        /\ At(A, t, k).entry <= At(A, t, k).max_entry
    BY <2>1 DEF Brakes
  <2>3. /\ At(B, t, k).mm = At(A, t, k).mm /\ At(B, t, k).entry = At(A, t, k).entry
        /\ At(A, t, k).max_entry <= At(B, t, k).max_entry
    BY <2>1 DEF Looser
  <2>4. /\ At(A, t, k).entry \in Nat /\ At(A, t, k).max_entry \in Nat
        /\ At(B, t, k).max_entry \in Nat
    BY <2>1, QueueTyped
  <2>5. Out(B, t, n, k) = Out(A, t, n, k)
    BY <1>2, <2>1
  <2> QED
    BY <2>2, <2>3, <2>4, <2>5
<1>4. 0 \in 0..n - 1
  BY <1>1
<1> QED
  BY <1>2, <1>3, <1>4 DEF Brakes

(* So it does with one more block, which is entered at zero.               *)
LEMMA BrakesLonger ==
  ASSUME NEW A \in [Index -> BlockType], NEW B \in [Index -> BlockType],
         NEW t \in Index, NEW n \in 1..Size - 2, NEW lo \in 0..n - 1,
         Same(A, B, t, n), At(B, t, n).entry = 0, Brakes(A, t, n, lo)
  PROVE  Brakes(B, t, n + 1, lo) /\ Out(B, t, n + 1, 0) = Out(A, t, n, 0)
<1>1. Size \in Nat /\ n \in Nat
  BY PlannerAssumption
<1>2. ASSUME NEW k \in 0..n - 1 PROVE Out(B, t, n + 1, k) = Out(A, t, n, k)
  <2>1. k # n - 1 => k + 1 \in 0..n - 1
    BY <1>1
  <2>2. k # n /\ (n + 1) - 1 = n /\ (k = n - 1 => k + 1 = n)
    BY <1>1
  <2> QED
    BY <2>1, <2>2 DEF Out, Same
<1>3. ASSUME NEW k \in lo..(n + 1) - 1
      PROVE  /\ At(B, t, k).entry <= At(B, t, k).mm + Out(B, t, n + 1, k)
             /\ k > 0 => At(B, t, k).entry <= At(B, t, k).max_entry
  <2>1. CASE k = n
    <3>1. n \in 0..Size - 1 /\ (n + 1) - 1 = n
      BY <1>1
    <3>2. At(B, t, n).mm \in Nat /\ At(B, t, n).max_entry \in Nat
      BY <3>1, QueueTyped
    <3>3. Out(B, t, n + 1, n) = 0
      BY <3>1 DEF Out
    <3> QED
      BY <2>1, <3>2, <3>3
  <2>2. CASE k # n
    <3>1. k \in lo..n - 1 /\ k \in 0..n - 1
      BY <1>1, <2>2
    <3> QED
      BY <1>2, <3>1 DEF Brakes, Same
  <2> QED
    BY <2>1, <2>2
<1>4. 0 \in 0..n - 1
  BY <1>1
<1> QED
  BY <1>2, <1>3, <1>4 DEF Brakes

(* The first block entered at another speed, it does if that block does.   *)
LEMMA BrakesFirst ==
  ASSUME NEW B \in [Index -> BlockType], NEW U \in [Index -> BlockType],
         NEW t \in Index, NEW n \in 1..Size - 1, Behind(B, U, t),
         At(U, t, 0).entry <= At(U, t, 0).mm + Out(B, t, n, 0),
         Brakes(B, t, n, 1)
  PROVE  Brakes(U, t, n, 0) /\ Out(U, t, n, 0) = Out(B, t, n, 0)
<1>1. Size \in Nat /\ n \in Nat
  BY PlannerAssumption
<1>2. ASSUME NEW k \in 0..n - 1 PROVE Out(U, t, n, k) = Out(B, t, n, k)
  <2>1. k # n - 1 => k + 1 \in 1..Size - 1
    BY <1>1
  <2> QED
    BY <2>1 DEF Out, Behind
<1>3. ASSUME NEW k \in 0..n - 1
      PROVE  /\ At(U, t, k).entry <= At(U, t, k).mm + Out(U, t, n, k)
             /\ k > 0 => At(U, t, k).entry <= At(U, t, k).max_entry
  <2>1. CASE k = 0
    BY <1>2, <2>1
  <2>2. CASE k # 0
    <3>1. k \in 1..n - 1 /\ k \in 1..Size - 1
      BY <1>1, <2>2
    <3> QED
      BY <1>2, <3>1 DEF Brakes, Behind
  <2> QED
    BY <2>1, <2>2
<1>4. 0 \in 0..n - 1
  BY <1>1
<1> QED
  BY <1>2, <1>3, <1>4 DEF Brakes

(* A queue with one more block is planned up to where planned is.          *)
LEMMA FollowsLonger ==
  ASSUME NEW A \in [Index -> BlockType], NEW B \in [Index -> BlockType],
         NEW t \in Index, NEW n \in 1..Size - 2, NEW q \in 0..n - 1, NEW s \in Nat,
         Same(A, B, t, n), Follows(A, t, n - 1, s), Fastest(A, t, n, n - 1, s, q)
  PROVE  Follows(B, t, q, s) /\ Fastest(B, t, n + 1, q, s, q)
<1>1. Size \in Nat /\ n \in Nat
  BY PlannerAssumption
<1>2. ASSUME NEW k \in 1..q
      PROVE  /\ k \in 1..n - 1
             /\ At(B, t, k) = At(A, t, k) /\ At(B, t, k - 1) = At(A, t, k - 1)
             /\ Ahead1(B, t, s, k) = Ahead1(A, t, s, k)
             /\ k # q => Out(B, t, n + 1, k) = Out(A, t, n, k)
  <2>1. k \in 0..n - 1 /\ k - 1 \in 0..n - 1 /\ k \in 1..n - 1
        /\ (k # q => k + 1 \in 0..n - 1 /\ k # n - 1 /\ k # n /\ (n + 1) - 1 = n)
    BY <1>1
  <2> QED
    BY <2>1 DEF Same, Ahead1, Out
<1>3. Follows(B, t, q, s)
  BY <1>2 DEF Follows
<1>4. Fastest(B, t, n + 1, q, s, q)
  BY <1>2 DEF Fastest
<1> QED
  BY <1>3, <1>4

-----------------------------------------------------------------------------
(* The plan, from one step to the next.                                    *)

(* What it says of the plan.                                               *)
PlanningInv == SmoothInv /\ LimitInv /\ PlanInv /\ ExitIsPlanned

(* What the queue B of n blocks owes to its limits, when that is entered   *)
(* at e and the nominal speeds are N(k).                                   *)
Limits(B, t, n) ==
  \A k \in 1..n - 1 :
    /\ At(B, t, k).max_entry <= Top(At(B, t, k))
    /\ At(B, t, k).max_entry <= Top(At(B, t, k - 1))
    /\ At(B, t, k).max_entry <= At(B, t, k).max_junction

Alike(A, B, t, n) ==
  \A k \in 0..n - 1 : At(B, t, k) = [At(A, t, k) EXCEPT !.entry = At(B, t, k).entry]

(* The k-th block of the queue.                                            *)
LEMMA BlockIs ==
  \A k : Block(k) = At(block_buffer, block_buffer_tail, k)
BY DEF Block, At

(* LimitInv, of the queue.                                                 *)
LEMMA LimitsNow ==
  LimitInv <=>
    /\ ~Empty => previous_nominal_speed =
                   Nominal(At(block_buffer, block_buffer_tail, Count - 1))
    /\ ~slowed => Limits(block_buffer, block_buffer_tail, Count)
BY BlockIs DEF LimitInv, Limits

(* An empty queue is planned, in a system motion if its profile is         *)
(* followed,                                                               *)
LEMMA EmptyPlanned ==
  ASSUME Empty', Count' = 0, Loading' \/ SystemMotion', SmoothInv'
  PROVE  PlanningInv'
<1>1. LimitInv'
  BY DEF LimitInv
<1>2. PlanInv'
  <2>1. \A lo \in {0, 1} : Brakes(block_buffer', block_buffer_tail', 0, lo)
    BY DEF Brakes
  <2>2. \A s : Follows(block_buffer', block_buffer_tail', 0 - 1, s)
    BY DEF Follows
  <2>3. \A s, p : Fastest(block_buffer', block_buffer_tail', 0, 0 - 1, s, p)
    BY DEF Fastest
  <2> QED
    BY <2>1, <2>2, <2>3 DEF PlanInv
<1>3. ExitIsPlanned'
  BY DEF ExitIsPlanned, Loading
<1> QED
  BY <1>1, <1>2, <1>3 DEF PlanningInv

(* and if nothing is loaded.                                               *)
LEMMA FreshPlanned ==
  ASSUME Empty', Count' = 0, Loading'
  PROVE  PlanningInv'
<1>1. SmoothInv'
  BY DEF SmoothInv
<1> QED
  BY <1>1, EmptyPlanned

(* Steps that touch neither the queue nor the stepper leave it planned.    *)
LEMMA QuietPlanned ==
  ASSUME PlanningInv, UNCHANGED <<queue, stepper, f_override, r_override, slowed>>,
         Holding' = Holding, SystemMotion' = SystemMotion,
         "END_MOTION" \in step_control /\ "END_MOTION" \notin step_control' => Loading
  PROVE  PlanningInv'
<1>1. /\ UNCHANGED <<block_buffer, block_buffer_tail, block_buffer_head,
                     next_buffer_head, block_buffer_planned, previous_nominal_speed,
                     pl_block, prep, f_override, r_override, slowed>>
  BY DEF queue, ring, stepper
<1>2. /\ Count' = Count /\ Empty' = Empty /\ Offset' = Offset /\ Loading' = Loading
      /\ Exec' = Exec /\ Exit' = Exit /\ SpeedNow' = SpeedNow /\ v' = v
      /\ plan_get_exec_block_exit_speed_sqr' = plan_get_exec_block_exit_speed_sqr
  BY <1>1 DEF Count, Empty, Offset, Loading, Exec, Work, Exit, SpeedNow, Block, v,
     plan_get_exec_block_exit_speed_sqr
<1>3. /\ \A b : Top(b)' = Top(b) /\ Nominal(b)' = Nominal(b)
      /\ \A k : Block(k)' = Block(k)
  BY <1>1 DEF Top, Nominal, Block
<1>4. SmoothInv'
  BY <1>1, <1>2, <1>3 DEF PlanningInv, SmoothInv, Follow
<1>5. LimitInv'
  BY <1>1, <1>2, <1>3 DEF PlanningInv, LimitInv
<1>6. PlanInv'
  BY <1>1, <1>2, <1>3 DEF PlanningInv, PlanInv
<1>7. ExitIsPlanned'
  BY <1>1, <1>2 DEF PlanningInv, ExitIsPlanned, Loading
<1> QED
  BY <1>4, <1>5, <1>6, <1>7 DEF PlanningInv

(* The limits of a queue do not depend on its entry speeds.                *)
LEMMA LimitsAlike ==
  ASSUME TypeOK, NEW A \in [Index -> BlockType], NEW B \in [Index -> BlockType],
         NEW t \in Index, NEW n \in 0..Size - 1, Alike(A, B, t, n)
  PROVE  /\ Limits(A, t, n) => Limits(B, t, n)
         /\ n > 0 => Nominal(At(B, t, n - 1)) = Nominal(At(A, t, n - 1))
         /\ \A k \in 0..n - 1 : Top(At(B, t, k)) = Top(At(A, t, k))
<1>1. Size \in Nat /\ n \in Nat
  BY PlannerAssumption
<1>2. ASSUME NEW k \in 0..n - 1
      PROVE  /\ Top(At(B, t, k)) = Top(At(A, t, k))
             /\ Nominal(At(B, t, k)) = Nominal(At(A, t, k))
             /\ At(B, t, k).max_entry = At(A, t, k).max_entry
             /\ At(B, t, k).max_junction = At(A, t, k).max_junction
  <2> DEFINE a == At(A, t, k)
             e == At(B, t, k).entry
  <2>1. k \in 0..Size - 1
    BY <1>1
  <2>2. a \in BlockType /\ e \in Nat
    BY <2>1, QueueTyped
  <2>3. At(B, t, k) = [a EXCEPT !.entry = e]
    BY DEF Alike
  <2> HIDE DEF a, e
  <2>4. Top([a EXCEPT !.entry = e]) = Top(a) /\ Nominal([a EXCEPT !.entry = e]) = Nominal(a)
    BY <2>2, TopLaw
  <2>5. [a EXCEPT !.entry = e].max_entry = a.max_entry
        /\ [a EXCEPT !.entry = e].max_junction = a.max_junction
    BY <2>2 DEF BlockType
  <2> QED
    BY <2>3, <2>4, <2>5 DEF a
<1>3. ASSUME Limits(A, t, n) PROVE Limits(B, t, n)
  <2>1. ASSUME NEW k \in 1..n - 1
        PROVE  /\ At(B, t, k).max_entry <= Top(At(B, t, k))
               /\ At(B, t, k).max_entry <= Top(At(B, t, k - 1))
               /\ At(B, t, k).max_entry <= At(B, t, k).max_junction
    <3>1. k \in 0..n - 1 /\ k - 1 \in 0..n - 1
      BY <1>1
    <3> QED
      BY <1>2, <1>3, <3>1 DEF Limits
  <2> QED
    BY <2>1 DEF Limits
<1>4. n > 0 => n - 1 \in 0..n - 1
  BY <1>1
<1> QED
  BY <1>2, <1>3, <1>4

(* A queue that brakes in time from the speed now is well planned after    *)
(* planner_recalculate has gone over all of it.                            *)
LEMMA ReplannedPlan ==
  ASSUME TypeOK', NEW B \in [Index -> BlockType], NEW n \in 1..Size - 1, NEW s \in Nat,
         NEW t \in Index, block_buffer_tail' = t,
         Replaced(B, block_buffer', t, n, 0, Offset'),
         Lengthy(B, t, n), Brakes(B, t, n, 0),
         Loading', Count' = n, At(B, t, 0).entry = s,
         s <= Top(At(B, t, 0))', v' <= s, ~Holding' => v' = s
  PROVE  PlanInv'
<1> DEFINE W == block_buffer'
<1>1. Size \in Nat /\ n \in Nat /\ 0 \in 0..0 /\ 0 \in 0..n - 1 /\ n - 1 \in Nat
  BY PlannerAssumption
<1>2. /\ Brakes(W, t, n, 0) /\ At(W, t, 0) = At(B, t, 0)
      /\ Follows(B, t, 0, s) => Follows(W, t, n - 1, s)
      /\ Fastest(B, t, n, 0, s, 0) => Fastest(W, t, n, n - 1, s, Offset')
  BY <1>1 DEF Replaced
<1>3. Follows(W, t, n - 1, s) /\ Fastest(W, t, n, n - 1, s, Offset')
  <2>1. Follows(B, t, 0, s) /\ Fastest(B, t, n, 0, s, 0)
    BY DEF Follows, Fastest
  <2> QED
    BY <1>2, <2>1
<1>4. Block(0)' = At(W, t, 0) /\ SpeedNow' = s
  <2>1. Block(0)' = At(W, t, 0)
    BY DEF Block, At
  <2> QED
    BY <1>2, <2>1 DEF SpeedNow, Loading
<1>5. Brakes(W, t, Count', IF Loading' THEN 0 ELSE 1)
  BY <1>2
<1>6. ~Holding' => /\ Follows(W, t, Count' - 1, SpeedNow')
                   /\ Fastest(W, t, Count', Count' - 1, SpeedNow', Offset')
  BY <1>3, <1>4
<1>7. /\ Block(0)'.entry <= Top(Block(0))'
      /\ ~Holding' => Block(0)'.entry = v'
      /\ Holding' => v' <= Block(0)'.entry
  <2>1. Block(0)' = At(B, t, 0)
    BY <1>2, <1>4
  <2>2. Top(Block(0))' = Top(At(B, t, 0))'
    BY <2>1 DEF Top, Nominal
  <2> QED
    BY <2>1, <2>2
<1> QED
  BY <1>5, <1>6, <1>7 DEF PlanInv

(* Where the machine is now, the block in execution can be braked to its   *)
(* exit speed, and goes at no more than its nominal speed.                 *)
LEMMA HereNow ==
  ASSUME PlannerInv, ~SystemMotion, ~Empty, ~slowed
  PROVE  LET e == IF Loading THEN Exec.entry ELSE v
         IN  /\ At(block_buffer, block_buffer_tail, 0) = Exec
             /\ Exec \in BlockType /\ Exec.mm \in Nat /\ e \in Nat /\ v \in Nat
             /\ Exit = Out(block_buffer, block_buffer_tail, Count, 0) /\ Exit \in Nat
             /\ e <= Exec.mm + Exit /\ e <= Top(Exec) /\ v <= e
             /\ ~Holding => e = v
             /\ Brakes(block_buffer, block_buffer_tail, Count, 1)
<1> USE DEF PlannerInv, SafeInv
<1> DEFINE t == block_buffer_tail
           n == Count
           b == At(block_buffer, t, 0)
           e == IF Loading THEN b.entry ELSE v
<1>1. /\ b = Exec /\ b \in BlockType /\ b.mm \in Nat /\ b.entry \in Nat /\ v \in Nat
      /\ n \in Nat /\ n > 0 /\ Size \in Nat /\ Block(0) = b
  <2>1. n \in 0..Size - 1 /\ n # 0 /\ b = block_buffer[t] /\ t \in Index
        /\ Block(0) = At(block_buffer, t, 0)
    BY QueueRing
  <2>2. 0 \in 0..Size - 1 /\ Size \in Nat
    BY PlannerAssumption
  <2>3. b \in BlockType /\ b.mm \in Nat /\ b.entry \in Nat
    BY <2>1, <2>2, QueueTyped DEF TypeOK, BlockType
  <2> QED
    BY <2>1, <2>2, <2>3 DEF Exec, Work, TypeOK, v
<1>2. Exit = Out(block_buffer, t, n, 0) /\ Exit \in Nat
  BY ExitLaw DEF Exit
<1>3. Brakes(block_buffer, t, n, 1)
  <2>1. Brakes(block_buffer, t, n, IF Loading THEN 0 ELSE 1)
    BY DEF PlanInv
  <2>2. \A k \in 1..n - 1 : k \in 0..n - 1
    OBVIOUS
  <2> QED
    BY <2>1, <2>2 DEF Brakes
<1>4. CASE Loading
  <2>1. b.entry <= Top(b) /\ (~Holding => b.entry = v) /\ (Holding => v <= b.entry)
    BY <1>1, <1>4 DEF PlanInv
  <2>2. b.entry <= b.mm + Exit
    <3>1. Brakes(block_buffer, t, n, 0) /\ 0 \in 0..n - 1
      BY <1>1, <1>4 DEF PlanInv
    <3> QED
      BY <1>2, <3>1 DEF Brakes
  <2> QED
    BY <1>1, <1>2, <1>3, <1>4, <2>1, <2>2
<1>5. CASE ~Loading
  <2>1. Follow(Exec, prep) /\ Fits(Exec, prep) /\ prep \in ProfileType
    BY <1>5 DEF SmoothInv, ProfileInv, TypeOK, ProfileType
  <2>2. /\ v <= Top(b) /\ prep.exit <= Exit /\ prep.mm_complete \in Nat /\ prep.exit \in Nat
        /\ prep.ramp = "DECEL" => v = prep.exit + (b.mm - prep.mm_complete)
        /\ prep.ramp = "TRAPEZOID" => v <= prep.exit + b.mm
        /\ prep.ramp \in {"DECEL", "TRAPEZOID"}
    BY <1>1, <2>1 DEF Follow, ProfileType, v
  <2>3. v <= b.mm + Exit
    BY <1>1, <1>2, <2>2
  <2> QED
    BY <1>1, <1>2, <1>3, <1>5, <2>2, <2>3
<1> QED
  BY <1>4, <1>5

(* plan_cycle_reinitialize on a queue with other limits: its blocks but for*)
(* their entry speeds.                                                     *)
LEMMA RestartAlike ==
  ASSUME SafeInv, ~SystemMotion, ~Empty, NEW B \in [Index -> BlockType],
         NEW n \in 1..Size - 1, NEW t \in Index, t = block_buffer_tail,
         block_buffer_tail' = t,
         planner_recalculate(Updated(B), t, Ahead(t, n)), Lengthy(B, t, n)
  PROVE  /\ Updated(B) \in [Index -> BlockType] /\ Lengthy(Updated(B), t, n)
         /\ Behind(B, Updated(B), t)
         /\ At(Updated(B), t, 0) =
              [At(B, t, 0) EXCEPT !.entry = IF Loading THEN At(B, t, 0).entry ELSE v]
         /\ Replaced(Updated(B), block_buffer', t, n, 0, Offset')
         /\ Alike(B, block_buffer', t, n)
<1> DEFINE U == Updated(B)
           W == block_buffer'
           e == IF Loading THEN At(B, t, 0).entry ELSE v
<1>1. Size \in Nat /\ n \in Nat /\ Ahead(t, 0) = t /\ 0 \in 0..n - 1 /\ 0 \in 0..Size - 1
  BY PlannerAssumption, QueueRing DEF SafeInv
<1>2. /\ U \in [Index -> BlockType]
      /\ At(U, t, 0) = [At(B, t, 0) EXCEPT !.entry = e]
      /\ \A k \in 1..Size - 1 : At(U, t, k) = At(B, t, k)
  BY UpdatedLaw
<1> HIDE DEF U
<1>3. Replaced(U, W, t, n, 0, Offset')
  BY <1>1, <1>2, Recalculation DEF Offset, U
<1>4. At(B, t, 0) \in BlockType /\ e \in Nat
  BY <1>1, QueueTyped DEF SafeInv, TypeOK, v
<1> HIDE DEF e
<1>5. Lengthy(U, t, n)
  <2>1. ASSUME NEW k \in 0..n - 1 PROVE At(U, t, k).mm > 0
    <3>1. At(B, t, k).mm > 0
      BY DEF Lengthy
    <3>2. CASE k = 0
      BY <1>2, <1>4, <3>1, <3>2 DEF BlockType
    <3>3. CASE k # 0
      BY <1>1, <1>2, <3>1, <3>3
    <3> QED
      BY <3>2, <3>3
  <2> QED
    BY <2>1 DEF Lengthy
<1>6. ASSUME NEW k \in 0..n - 1
      PROVE  At(W, t, k) = [At(B, t, k) EXCEPT !.entry = At(W, t, k).entry]
  <2> DEFINE x == At(W, t, k).entry
  <2>1. At(W, t, k) = [At(U, t, k) EXCEPT !.entry = x]
    BY <1>3 DEF Replaced
  <2> HIDE DEF x
  <2>2. CASE k = 0
    <3>1. [[At(B, t, 0) EXCEPT !.entry = e] EXCEPT !.entry = x] =
            [At(B, t, 0) EXCEPT !.entry = x]
      BY <1>4 DEF BlockType
    <3> QED
      BY <1>2, <2>1, <2>2, <3>1 DEF x
  <2>3. CASE k # 0
    BY <1>1, <1>2, <2>1, <2>3 DEF x
  <2> QED
    BY <2>2, <2>3
<1>7. Alike(B, W, t, n)
  BY <1>6 DEF Alike
<1> QED
  BY <1>2, <1>3, <1>5, <1>7 DEF U, e, Behind

(* It is well planned, if the queue still brakes in time with these limits.*)
LEMMA RestartPlanned ==
  ASSUME PlannerInv, ~slowed, TypeOK', ~SystemMotion, ~Empty,
         NEW B \in [Index -> BlockType], NEW n \in 1..Size - 1, NEW t \in Index,
         t = block_buffer_tail, block_buffer_tail' = t,
         st_update_plan_block_parameters,
         planner_recalculate(Updated(B), t, Ahead(t, n)), Count' = n,
         Lengthy(B, t, n), Brakes(B, t, n, 1), Out(B, t, n, 0) = Exit,
         At(B, t, 0).mm = Exec.mm, At(B, t, 0).entry = Exec.entry,
         Top(Exec) <= Top(At(B, t, 0))',
         ~Holding' /\ Loading => Exec.entry = v
  PROVE  PlanInv'
<1> DEFINE b == At(B, t, 0)
<1>0. PICK e, U : e = (IF Loading THEN Exec.entry ELSE v) /\ U = Updated(B)
  OBVIOUS
<1>1. Size \in Nat /\ n \in Nat /\ 0 \in 0..Size - 1
  BY PlannerAssumption
<1>2. /\ e \in Nat /\ v \in Nat /\ Exec.mm \in Nat /\ Exit \in Nat /\ Exec \in BlockType
      /\ e <= Exec.mm + Exit /\ e <= Top(Exec) /\ v <= e
  BY <1>0, HereNow
<1>3. /\ U \in [Index -> BlockType] /\ Lengthy(U, t, n) /\ Behind(B, U, t)
      /\ At(U, t, 0) = [b EXCEPT !.entry = e]
      /\ Replaced(U, block_buffer', t, n, 0, Offset')
  BY <1>0, RestartAlike DEF PlannerInv
<1>4. b \in BlockType
  BY <1>1, QueueTyped
<1>5. Loading' /\ v' = v
  <2>1. pl_block' = NULL
    BY DEF st_update_plan_block_parameters
  <2>2. prep'.current = prep.current
    BY DEF st_update_plan_block_parameters, PlannerInv, SafeInv, TypeOK
  <2> QED
    BY <2>1, <2>2 DEF Loading, v
<1>6. ~Holding' => v = e
  BY <1>0
<1> HIDE DEF b
<1>7. At(U, t, 0).entry = e /\ At(U, t, 0).mm = Exec.mm
  BY <1>2, <1>3, <1>4 DEF BlockType, b
<1>8. Brakes(U, t, n, 0)
  BY <1>2, <1>3, <1>7, BrakesFirst
<1>9. e <= Top(At(U, t, 0))'
  <2>1. At(U, t, 0).kind = b.kind /\ At(U, t, 0).rate = b.rate
    BY <1>2, <1>3, <1>4 DEF BlockType
  <2>2. Nominal(At(U, t, 0))' = Nominal(b)'
    BY <2>1 DEF Nominal, plan_compute_profile_nominal_speed
  <2>3. Nominal(b)' \in Nat
    <3>1. f_override' \in Nat /\ r_override' \in Nat
      BY PlannerAssumption DEF TypeOK, DefaultOverride, RapidMedium, RapidLow
    <3> QED
      BY <1>4, <3>1, NominalTyped DEF Nominal
  <2>4. Top(At(U, t, 0))' = Top(b)' /\ Top(b)' \in Nat
    BY <2>2, <2>3 DEF Top
  <2>5. Top(Exec) \in Nat
    BY <1>2, TopLaw DEF PlannerInv, SafeInv
  <2> QED
    BY <1>2, <2>4, <2>5 DEF b
<1> QED
  BY <1>2, <1>3, <1>5, <1>6, <1>7, <1>8, <1>9, ReplannedPlan

-----------------------------------------------------------------------------
(* Holds, the end of a cycle, a cycle start and a reset.                   *)

(* The limits are kept by steps that change entry speeds only.             *)
LEMMA LimitsKept ==
  ASSUME TypeOK, LimitInv, ~Empty, NEW A, NEW W, NEW t \in Index, NEW n \in 1..Size - 1,
         A = block_buffer, W = block_buffer', W \in [Index -> BlockType],
         t = block_buffer_tail, n = Count, Alike(A, W, t, n),
         block_buffer_tail' = t, Count' = n,
         UNCHANGED <<previous_nominal_speed, f_override, r_override, slowed>>
  PROVE  LimitInv'
<1>1. A \in [Index -> BlockType] /\ n \in 0..Size - 1 /\ n > 0
  BY QueueRing
<1>2. /\ Limits(A, t, n) => Limits(W, t, n)
      /\ Nominal(At(W, t, n - 1)) = Nominal(At(A, t, n - 1))
  BY <1>1, LimitsAlike
<1>3. \A b : Nominal(b)' = Nominal(b) /\ Top(b)' = Top(b)
  BY DEF Nominal, Top
<1>4. previous_nominal_speed' = Nominal(At(W, t, n - 1))'
  <2>1. previous_nominal_speed = Nominal(At(A, t, n - 1))
    BY LimitsNow
  <2> QED
    BY <1>2, <1>3, <2>1
<1>5. ~slowed' => Limits(W, t, n)'
  <2>1. ~slowed => Limits(A, t, n)
    BY LimitsNow
  <2>2. Limits(W, t, n)' <=> Limits(W, t, n)
    BY <1>3 DEF Limits
  <2> QED
    BY <1>2, <2>1, <2>2
<1>6. \A k : Block(k)' = At(W, t, k)
  BY DEF Block, At
<1>7. ~slowed' => \A k \in 1..Count' - 1 :
        /\ Block(k)'.max_entry <= Top(Block(k))'
        /\ Block(k)'.max_entry <= Top(Block(k - 1))'
        /\ Block(k)'.max_entry <= Block(k)'.max_junction
  <2>1. \A k : Top(Block(k))' = Top(At(W, t, k))'
    BY <1>6 DEF Top, Nominal
  <2> QED
    BY <1>5, <1>6, <2>1 DEF Limits
<1>8. previous_nominal_speed' = Nominal(Block(Count - 1))'
  BY <1>4, <1>6 DEF Nominal
<1> QED
  BY <1>7, <1>8 DEF LimitInv

(* A queue that is not empty, by number.                                   *)
LEMMA QueueNow ==
  ASSUME SafeInv, ~Empty
  PROVE  \E B \in [Index -> BlockType], t \in Index, n \in 1..Size - 1 :
           /\ B = block_buffer /\ t = block_buffer_tail /\ n = Count
           /\ block_buffer_head = Ahead(t, n) /\ Lengthy(B, t, n)
           /\ ~SystemMotion => At(B, t, 0) = Exec /\ Block(0) = Exec
<1> USE DEF SafeInv
<1>1. /\ block_buffer \in [Index -> BlockType] /\ block_buffer_tail \in Index
      /\ Count \in 0..Size - 1 /\ Count # 0 /\ Size \in Nat
      /\ block_buffer_head = Ahead(block_buffer_tail, Count)
      /\ block_buffer[block_buffer_tail] = At(block_buffer, block_buffer_tail, 0)
      /\ Block(0) = At(block_buffer, block_buffer_tail, 0)
  BY QueueRing, PlannerAssumption
<1>2. Count \in 1..Size - 1
  BY <1>1
<1>3. ~SystemMotion => Exec = block_buffer[block_buffer_tail]
  BY DEF Exec, Work
<1> QED
  BY <1>1, <1>2, <1>3 DEF LengthInv

(* A feed hold leaves the queue planned: the block in execution from the   *)
(* speed now, the rest as it was.                                          *)
LEMMA FeedHoldPlanned ==
  ASSUME PlannerInv, FeedHold
  PROVE  PlanningInv'
<1> USE DEF PlannerInv
<1>0. SafeInv' /\ TypeOK' /\ StateInv /\ TypeOK /\ ~SystemMotion
  BY FeedHoldSafe DEF SafeInv, FeedHold, StateInv
<1>1. CASE state = "IDLE"
  <2>1. UNCHANGED <<queue, stepper, f_override, r_override, slowed>>
        /\ step_control' = step_control
    BY <1>1 DEF FeedHold, queue, override
  <2> QED
    BY <2>1, QuietPlanned DEF PlanningInv, Holding, SystemMotion
<1>2. CASE state = "CYCLE"
  <2>1. /\ st_update_plan_block_parameters
        /\ block_buffer' = Updated(block_buffer)
        /\ step_control' = {"EXECUTE_HOLD"}
        /\ UNCHANGED <<block_buffer_tail, block_buffer_head, next_buffer_head,
                       block_buffer_planned, previous_nominal_speed, f_override,
                       r_override, slowed>>
    BY <1>2 DEF FeedHold, ring, override
  <2>2. /\ Loading' /\ v' = v /\ Holding' /\ ~Holding /\ Empty' = Empty /\ Count' = Count
    <3>1. pl_block' = NULL /\ prep'.current = prep.current
      BY <1>0, <2>1 DEF st_update_plan_block_parameters, TypeOK
    <3>2. ~Holding
      BY <1>0, <1>2 DEF StateInv
    <3> QED
      BY <2>1, <3>1, <3>2 DEF Loading, v, Holding, Empty, Count
  <2>3. CASE Empty
    <3>1. Count = 0
      BY <1>0, <2>3, QueueRing
    <3> QED
      BY <2>2, <2>3, <3>1, FreshPlanned
  <2>4. CASE ~Empty
    <3>1. PICK B \in [Index -> BlockType], t \in Index, n \in 1..Size - 1 :
            /\ B = block_buffer /\ t = block_buffer_tail /\ n = Count
            /\ At(B, t, 0) = Exec /\ Block(0) = Exec
      BY <1>0, <2>4, QueueNow
    <3>2. PICK U, e : U = Updated(B) /\ e = (IF Loading THEN Exec.entry ELSE v)
      OBVIOUS
    <3>3. /\ U \in [Index -> BlockType]
          /\ At(U, t, 0) = [Exec EXCEPT !.entry = e]
          /\ \A k \in 1..Size - 1 : At(U, t, k) = At(B, t, k)
      BY <1>0, <2>4, <3>1, <3>2, UpdatedLaw
    <3>4. Exec \in BlockType /\ e \in Nat /\ Size \in Nat
      <4>1. e \in Nat
        BY <1>0, <3>1, <3>2, PlannerAssumption, QueueTyped DEF TypeOK, v
      <4> QED
        BY <1>0, <3>1, <4>1, PlannerAssumption, QueueTyped
    <3>5. Alike(B, U, t, n)
      <4>1. ASSUME NEW k \in 0..n - 1
            PROVE  At(U, t, k) = [At(B, t, k) EXCEPT !.entry = At(U, t, k).entry]
        <5>1. k \in 0..Size - 1 /\ (k # 0 => k \in 1..Size - 1)
          BY <3>4
        <5>2. At(B, t, k) \in BlockType
          BY <5>1, QueueTyped
        <5>3. CASE k = 0
          BY <3>1, <3>3, <3>4, <5>3 DEF BlockType
        <5>4. CASE k # 0
          BY <3>3, <5>1, <5>2, <5>4 DEF BlockType
        <5> QED
          BY <5>3, <5>4
      <4> QED
        BY <4>1 DEF Alike
    <3>6. LimitInv'
      BY <1>0, <2>1, <2>2, <2>4, <3>1, <3>2, <3>3, <3>5, LimitsKept
    <3>7. ASSUME ~slowed PROVE PlanInv'
      <4>1. /\ e <= Exec.mm + Exit /\ e <= Top(Exec) /\ v <= e /\ Brakes(B, t, n, 1)
            /\ Exit = Out(B, t, n, 0) /\ Exec.mm \in Nat
        BY <1>0, <2>4, <3>1, <3>2, <3>7, HereNow
      <4>2. At(U, t, 0).entry = e /\ At(U, t, 0).mm = Exec.mm
        BY <3>3, <3>4 DEF BlockType
      <4>3. Brakes(U, t, n, 0)
        BY <3>3, <4>1, <4>2, BrakesFirst DEF Behind
      <4>4. Block(0)' = At(U, t, 0)
        BY <2>1, <3>1, <3>2 DEF Block, At
      <4>5. Top(Block(0))' = Top(Exec)
        <5>1. Top(At(U, t, 0)) = Top(Exec)
          BY <1>0, <3>3, <3>4, TopLaw
        <5> QED
          BY <2>1, <4>4, <5>1 DEF Top, Nominal
      <4>6. Brakes(block_buffer', block_buffer_tail', Count', IF Loading' THEN 0 ELSE 1)
        BY <2>1, <2>2, <3>1, <3>2, <4>3
      <4> QED
        BY <2>2, <4>1, <4>2, <4>4, <4>5, <4>6 DEF PlanInv
    <3>8. PlanInv'
      BY <2>1, <3>7 DEF PlanInv
    <3> QED
      BY <2>2, <3>6, <3>8 DEF PlanningInv, SmoothInv, ExitIsPlanned, Loading
  <2> QED
    BY <2>3, <2>4
<1> QED
  BY <1>1, <1>2 DEF FeedHold

(* The end of a hold plans it anew from rest; that of a cycle leaves it.   *)
LEMMA CycleStopPlanned ==
  ASSUME PlannerInv, CycleStop
  PROVE  PlanningInv'
<1> USE DEF PlannerInv
<1>0. SafeInv' /\ TypeOK' /\ StateInv /\ SpeedInv /\ TypeOK /\ ~SystemMotion
  BY CycleStopSafe DEF SafeInv, CycleStop, StateInv
<1>1. CASE state = "CYCLE"
  <2>1. UNCHANGED <<queue, stepper, f_override, r_override, slowed>>
        /\ step_control' = step_control
    BY <1>1 DEF CycleStop, queue, ring, override, stepper
  <2> QED
    BY <2>1, QuietPlanned DEF PlanningInv, Holding, SystemMotion
<1>2. CASE state = "HOLD"
  <2>1. /\ st_update_plan_block_parameters
        /\ planner_recalculate(Updated(block_buffer), block_buffer_tail,
                               block_buffer_head)
        /\ step_control' = step_control \ {"EXECUTE_HOLD"}
        /\ Empty \/ "END_MOTION" \in step_control
        /\ UNCHANGED <<block_buffer_tail, block_buffer_head, next_buffer_head,
                       previous_nominal_speed, f_override, r_override, slowed>>
    BY <1>2 DEF CycleStop, plan_cycle_reinitialize, override
  <2>2. Loading' /\ ~Holding' /\ Empty' = Empty /\ Count' = Count
    BY <2>1 DEF st_update_plan_block_parameters, Loading, Holding, Empty, Count
  <2>3. CASE Empty
    <3>1. Count = 0
      BY <1>0, <2>3, QueueRing
    <3> QED
      BY <2>2, <2>3, <3>1, FreshPlanned
  <2>4. CASE ~Empty
    <3>1. PICK B \in [Index -> BlockType], t \in Index, n \in 1..Size - 1 :
            /\ B = block_buffer /\ t = block_buffer_tail /\ n = Count
            /\ block_buffer_head = Ahead(t, n) /\ Lengthy(B, t, n)
            /\ At(B, t, 0) = Exec /\ Block(0) = Exec
      BY <1>0, <2>4, QueueNow
    <3>2. planner_recalculate(Updated(B), t, Ahead(t, n)) /\ block_buffer_tail' = t
      BY <2>1, <3>1
    <3>3. Alike(B, block_buffer', t, n)
      BY <1>0, <2>4, <3>1, <3>2, RestartAlike
    <3>4. block_buffer' \in [Index -> BlockType]
      BY <1>0 DEF TypeOK, BlockType
    <3>5. LimitInv'
      BY <1>0, <2>1, <2>2, <2>4, <3>1, <3>3, <3>4, LimitsKept
    <3>6. ASSUME ~slowed PROVE PlanInv'
      <4>1. Brakes(B, t, n, 1) /\ Out(B, t, n, 0) = Exit
        BY <1>0, <2>4, <3>1, <3>6, HereNow
      <4>2. Loading => Exec.entry = v
        <5>1. "END_MOTION" \in step_control
          BY <2>1, <2>4
        <5>2. Loading => prep.recalculate
          BY <1>0, <5>1 DEF StateInv
        <5> QED
          BY <1>0, <3>1, <5>2 DEF SpeedInv
      <4>3. Top(At(B, t, 0))' = Top(Exec)
        BY <2>1, <3>1 DEF Top, Nominal
      <4>4. Top(Exec) \in Nat
        <5>1. Exec \in BlockType
          BY <1>0, <2>4, <3>6, HereNow
        <5> QED
          BY <1>0, <5>1, TopLaw
      <4>5. Top(Exec) <= Top(At(B, t, 0))'
        BY <4>3, <4>4
      <4> QED
        BY <1>0, <2>1, <2>2, <2>4, <3>1, <3>2, <3>6, <4>1, <4>2, <4>5, RestartPlanned
    <3>7. PlanInv'
      BY <2>1, <3>6 DEF PlanInv
    <3> QED
      BY <2>2, <3>5, <3>7 DEF PlanningInv, SmoothInv, ExitIsPlanned, Loading
  <2> QED
    BY <2>3, <2>4
<1> QED
  BY <1>1, <1>2 DEF CycleStop

(* A cycle start leaves it planned,                                        *)
LEMMA CycleStartPlanned ==
  ASSUME PlannerInv, CycleStart
  PROVE  PlanningInv'
<1>1. /\ UNCHANGED <<queue, stepper, f_override, r_override, slowed>>
      /\ step_control' = {}
      /\ state = "IDLE" \/ (state = "HOLD" /\ hold_complete)
  BY DEF CycleStart, override
<1>2. ~Holding /\ ~SystemMotion /\ ~Holding' /\ ~SystemMotion'
      /\ ("END_MOTION" \in step_control => Loading)
  BY <1>1 DEF PlannerInv, SafeInv, StateInv, Holding, SystemMotion
<1>3. Holding' = Holding /\ SystemMotion' = SystemMotion
  BY <1>2 DEF Holding, SystemMotion
<1> QED
  BY <1>1, <1>2, <1>3, QuietPlanned DEF PlannerInv, PlanningInv

(* and so do a reset, a system motion and the end of a program, which have *)
(* no queue.                                                               *)
LEMMA FreshStartPlanned ==
  ASSUME PlannerInv, \/ EndSystemMotion \/ ProgramEnd \/ Reset
                     \/ \E m \in SystemLengths : BeginSystemMotion(m)
  PROVE  PlanningInv'
<1>1. TypeOK /\ StateInv
  BY DEF PlannerInv, SafeInv
<1>2. CASE Reset
  <2>1. Loading' /\ Empty' /\ Count' = 0
    BY <1>2, PlannerAssumption DEF Reset, Loading, Empty, Count, Span
  <2> QED
    BY <2>1, FreshPlanned
<1>3. CASE ~Reset
  <2>1. Empty /\ Count = 0
    BY <1>1, <1>3, QueueRing DEF StateInv, EndSystemMotion, ProgramEnd, BeginSystemMotion
  <2>2. UNCHANGED <<block_buffer_tail, block_buffer_head>>
    BY <1>3 DEF EndSystemMotion, ProgramEnd, BeginSystemMotion, ring, queue
  <2>3. Loading'
    BY <1>1, <1>3 DEF StateInv, EndSystemMotion, ProgramEnd, BeginSystemMotion, stepper,
       Loading
  <2> QED
    BY <2>1, <2>2, <2>3, FreshPlanned DEF Empty, Count
<1> QED
  BY <1>2, <1>3

-----------------------------------------------------------------------------
(* Overrides that are raised.                                              *)

(* A higher override gives no lower rate,                                  *)
LEMMA ScaledMore ==
  ASSUME NEW rate \in Nat, NEW x \in Nat, NEW y \in Nat, x <= y
  PROVE  Scaled(rate, x) \in Nat /\ Scaled(rate, y) \in Nat /\ Scaled(rate, x) <= Scaled(rate, y)
<1>1. rate * x \in Nat /\ rate * y \in Nat /\ rate * x <= rate * y
  <2>1. PICK z \in Nat : y = x + z
    <3>1. y - x \in Nat /\ y = x + (y - x)
      OBVIOUS
    <3> QED
      BY <3>1
  <2>2. rate * (x + z) = rate * x + rate * z
    OBVIOUS
  <2>3. rate * x \in Nat /\ rate * z \in Nat
    OBVIOUS
  <2> QED
    BY <2>1, <2>2, <2>3
<1> DEFINE a == rate * x
           b == rate * y
<1> HIDE DEF a, b
<1>2. a \in Nat /\ b \in Nat /\ a <= b
  BY <1>1 DEF a, b
<1>3. a \div 100 \in Nat /\ b \div 100 \in Nat /\ a \div 100 <= b \div 100
  BY <1>2
<1> QED
  BY <1>3 DEF Scaled, a, b

(* no lower nominal speed,                                                 *)
LEMMA NominalMore ==
  ASSUME NEW b \in BlockType, NEW f \in Nat, NEW r \in Nat, NEW g \in Nat, NEW s \in Nat,
         f <= g, r <= s
  PROVE  plan_compute_profile_nominal_speed(b, f, r)
           <= plan_compute_profile_nominal_speed(b, g, s)
<1>1. b.rate \in Nat /\ b.kind \in {"feed", "fixed", "rapid"} /\ RapidRate \in Nat
  BY PlannerAssumption DEF BlockType
<1> DEFINE a1 == Scaled(b.rate, f)
           a2 == Scaled(b.rate, g)
           c1 == Scaled(b.rate, r)
           c2 == Scaled(b.rate, s)
<1>2. a1 \in Nat /\ a2 \in Nat /\ c1 \in Nat /\ c2 \in Nat /\ a1 <= a2 /\ c1 <= c2
  BY <1>1, ScaledMore
<1>3. /\ plan_compute_profile_nominal_speed(b, f, r) =
           Max2(1, CASE b.kind = "rapid" -> c1
                     [] b.kind = "feed" -> Min2(a1, RapidRate)
                     [] b.kind = "fixed" -> Min2(b.rate, RapidRate))
      /\ plan_compute_profile_nominal_speed(b, g, s) =
           Max2(1, CASE b.kind = "rapid" -> c2
                     [] b.kind = "feed" -> Min2(a2, RapidRate)
                     [] b.kind = "fixed" -> Min2(b.rate, RapidRate))
  BY DEF plan_compute_profile_nominal_speed, MinimumFeedRate
<1> HIDE DEF a1, a2, c1, c2
<1>4. CASE b.kind = "rapid"
  BY <1>1, <1>2, <1>3, <1>4 DEF Max2
<1>5. CASE b.kind = "feed"
  BY <1>1, <1>2, <1>3, <1>5 DEF Max2, Min2
<1>6. CASE b.kind = "fixed"
  BY <1>1, <1>2, <1>3, <1>6 DEF Max2, Min2
<1> QED
  BY <1>1, <1>4, <1>5, <1>6

(* no lower square of it,                                                  *)
LEMMA SquareMore ==
  ASSUME NEW x \in Nat, NEW y \in Nat, x <= y
  PROVE  x * x \in Nat /\ y * y \in Nat /\ x * x <= y * y
<1>1. PICK z \in Nat : y = x + z
  <2>1. y - x \in Nat /\ y = x + (y - x)
    OBVIOUS
  <2> QED
    BY <2>1
<1>2. (x + z) * (x + z) = x * x + (x * z + x * z + z * z)
  OBVIOUS
<1>3. x * x \in Nat /\ x * z \in Nat /\ z * z \in Nat
  OBVIOUS
<1> QED
  BY <1>1, <1>2, <1>3

(* and no lower maximum entry speed.                                       *)
LEMMA MaxEntryMore ==
  ASSUME NEW j \in Nat, NEW n \in Nat, NEW p \in Nat, NEW n1 \in Nat, NEW p1 \in Nat,
         n1 <= n, p1 <= p, NEW m \in Nat, m <= n1 * n1, m <= p1 * p1, m <= j
  PROVE  m <= MaxEntry(j, n, p)
<1>1. n * n \in Nat /\ p * p \in Nat /\ n1 * n1 \in Nat /\ p1 * p1 \in Nat
      /\ n1 * n1 <= n * n /\ p1 * p1 <= p * p
  BY SquareMore, Zenon
<1> DEFINE a == n * n
           c == p * p
           a1 == n1 * n1
           c1 == p1 * p1
<1>2. MaxEntry(j, n, p) = Min2(IF n < p THEN a ELSE c, j)
  <2>1. CASE n < p
    BY <2>1 DEF MaxEntry, Min2
  <2>2. CASE ~(n < p)
    BY <2>2 DEF MaxEntry, Min2
  <2> QED
    BY <2>1, <2>2
<1>3. a \in Nat /\ c \in Nat /\ a1 \in Nat /\ c1 \in Nat /\ a1 <= a /\ c1 <= c
      /\ m <= a1 /\ m <= c1
  BY <1>1
<1> HIDE DEF a, c, a1, c1
<1>4. m <= a /\ m <= c
  BY <1>3
<1> QED
  BY <1>2, <1>3, <1>4 DEF Min2

(* The k-th block of B is that of A with its limit computed for overrides  *)
(* f and r.                                                                *)
LimitAnew(A, B, t, k, f, r) ==
  LET nn(i) == plan_compute_profile_nominal_speed(At(A, t, i), f, r)
      a == At(A, t, k)
      b == At(B, t, k)
  IN  /\ a \in BlockType /\ b \in BlockType
      /\ b.kind = a.kind /\ b.rate = a.rate /\ b.mm = a.mm
      /\ b.entry = a.entry /\ b.max_junction = a.max_junction
      /\ nn(k) \in Nat
      /\ k > 0 => /\ b.max_entry = MaxEntry(a.max_junction, nn(k), nn(k - 1))
                  /\ nn(k - 1) \in Nat

(* plan_update_velocity_profile_parameters leaves everything but the limit *)
(* of a block, which is computed anew.                                     *)
LEMMA ReprofiledKeeps ==
  ASSUME TypeOK, NEW A \in [Index -> BlockType], NEW t \in Index, NEW n \in 1..Size - 1,
         A = block_buffer, t = block_buffer_tail, n = Count,
         NEW f \in Nat, NEW r \in Nat, NEW B, B = Reprofiled(f, r), NEW k \in 0..n - 1
  PROVE  B \in [Index -> BlockType] /\ LimitAnew(A, B, t, k, f, r)
<1> DEFINE nn(i) == plan_compute_profile_nominal_speed(At(A, t, i), f, r)
           prev == IF k = 0 THEN SomeLargeValue ELSE nn(k - 1)
           a == At(A, t, k)
           b == At(B, t, k)
           x == MaxEntry(a.max_junction, nn(k), prev)
<1>1. Size \in Nat /\ n \in Nat /\ k \in 0..Size - 1
      /\ (k > 0 => k - 1 \in 0..Size - 1 /\ k # 0)
  BY PlannerAssumption
<1>2. B \in [Index -> BlockType] /\ b = [a EXCEPT !.max_entry = x]
  BY ReprofiledLaw
<1>3. a \in BlockType /\ b \in BlockType /\ (k > 0 => At(A, t, k - 1) \in BlockType)
  BY <1>1, <1>2, QueueTyped
<1>4. nn(k) \in Nat /\ (k > 0 => nn(k - 1) \in Nat)
  BY <1>3, NominalTyped
<1>5. k > 0 => x = MaxEntry(a.max_junction, nn(k), nn(k - 1))
  BY <1>1
<1> HIDE DEF x, a, b, nn
<1>6. /\ b.kind = a.kind /\ b.rate = a.rate /\ b.mm = a.mm /\ b.entry = a.entry
      /\ b.max_junction = a.max_junction /\ b.max_entry = x
  BY <1>2, <1>3 DEF BlockType
<1> QED
  BY <1>2, <1>3, <1>4, <1>5, <1>6 DEF nn, a, b, LimitAnew

(* With overrides that are not lowered, no limit falls.                    *)
LEMMA RaisedLooser ==
  ASSUME PlannerInv, ~slowed, NEW A \in [Index -> BlockType], NEW t \in Index,
         NEW n \in 1..Size - 1, A = block_buffer, t = block_buffer_tail, n = Count,
         NEW f \in Nat, NEW r \in Nat, f_override <= f, r_override <= r,
         NEW B, B = Reprofiled(f, r)
  PROVE  Looser(A, B, t, n)
<1>0. TypeOK /\ LimitInv
  BY DEF PlannerInv, SafeInv
<1> DEFINE nn(i) == plan_compute_profile_nominal_speed(At(A, t, i), f, r)
<1>1. Size \in Nat /\ n \in Nat /\ f_override \in Nat /\ r_override \in Nat
  BY <1>0, PlannerAssumption DEF TypeOK, DefaultOverride, RapidMedium, RapidLow
<1>2. ASSUME NEW k \in 0..n - 1
      PROVE  /\ At(B, t, k).mm = At(A, t, k).mm /\ At(B, t, k).entry = At(A, t, k).entry
             /\ k > 0 => At(A, t, k).max_entry <= At(B, t, k).max_entry
  <2> DEFINE a == At(A, t, k)
             b == At(B, t, k)
  <2>1. /\ a \in BlockType /\ b.mm = a.mm /\ b.entry = a.entry /\ nn(k) \in Nat
        /\ k > 0 => /\ b.max_entry = MaxEntry(a.max_junction, nn(k), nn(k - 1))
                    /\ nn(k - 1) \in Nat
    <3>1. LimitAnew(A, B, t, k, f, r)
      BY <1>0, ReprofiledKeeps
    <3> QED
      BY <3>1 DEF LimitAnew
  <2>2. ASSUME k > 0 PROVE a.max_entry <= b.max_entry
    <3> DEFINE o(i) == Nominal(At(A, t, i))
    <3>1. k \in 1..n - 1 /\ k - 1 \in 0..n - 1 /\ k - 1 \in 0..Size - 1
      BY <1>1, <2>2
    <3>2. At(A, t, k - 1) \in BlockType
      BY <3>1, QueueTyped
    <3>3. o(k) \in Nat /\ o(k - 1) \in Nat
      BY <1>1, <2>1, <3>2, NominalTyped DEF Nominal
    <3>4. o(k) <= nn(k) /\ o(k - 1) <= nn(k - 1)
      BY <1>1, <2>1, <3>2, NominalMore DEF Nominal
    <3>5. Limits(A, t, n)
      BY <1>0, LimitsNow
    <3>6. /\ a.max_entry <= o(k) * o(k) /\ a.max_entry <= o(k - 1) * o(k - 1)
          /\ a.max_entry <= a.max_junction
      BY <3>1, <3>5 DEF Limits, Top
    <3>7. a.max_entry \in Nat /\ a.max_junction \in Nat
      BY <2>1 DEF BlockType
    <3>8. b.max_entry = MaxEntry(a.max_junction, nn(k), nn(k - 1)) /\ nn(k) \in Nat
          /\ nn(k - 1) \in Nat
      BY <2>1, <2>2
    <3> HIDE DEF o, nn, a, b
    <3>9. a.max_entry <= MaxEntry(a.max_junction, nn(k), nn(k - 1))
      BY <3>3, <3>4, <3>6, <3>7, <3>8, MaxEntryMore, Zenon
    <3> QED
      BY <3>8, <3>9
  <2> QED
    BY <2>1, <2>2
<1> QED
  BY <1>2 DEF Looser

(* After it the limits are those of the new overrides.                     *)
LEMMA OverridesLimits ==
  ASSUME PlannerInv, NEW A \in [Index -> BlockType], NEW t \in Index,
         NEW n \in 1..Size - 1, A = block_buffer, t = block_buffer_tail, n = Count,
         NEW f \in Nat, NEW r \in Nat, NEW B, B = Reprofiled(f, r), ~Empty,
         f_override' = f, r_override' = r, previous_nominal_speed' = LastNominal(f, r),
         block_buffer_tail' = t, Count' = n, block_buffer' \in [Index -> BlockType],
         NEW W, W = block_buffer', Alike(B, W, t, n)
  PROVE  LimitInv'
<1>0. TypeOK /\ LimitInv
  BY DEF PlannerInv, SafeInv
<1> DEFINE nn(i) == plan_compute_profile_nominal_speed(At(A, t, i), f, r)
<1>1. Size \in Nat /\ n \in Nat /\ n - 1 \in 0..n - 1
  BY PlannerAssumption
<1>2. ASSUME NEW k \in 0..n - 1
      PROVE  LET a == At(A, t, k)
                 b == At(B, t, k)
             IN  /\ a \in BlockType /\ b \in BlockType
                 /\ b.kind = a.kind /\ b.rate = a.rate /\ b.max_junction = a.max_junction
                 /\ nn(k) \in Nat
                 /\ k > 0 => /\ b.max_entry = MaxEntry(a.max_junction, nn(k), nn(k - 1))
                             /\ nn(k - 1) \in Nat
  <2>1. LimitAnew(A, B, t, k, f, r)
    BY <1>0, ReprofiledKeeps
  <2> QED
    BY <2>1 DEF LimitAnew
<1>3. ASSUME NEW k \in 0..n - 1
      PROVE  /\ Nominal(At(W, t, k))' = nn(k)
             /\ At(W, t, k).max_entry = At(B, t, k).max_entry
             /\ At(W, t, k).max_junction = At(A, t, k).max_junction
  <2>0. PICK w, b : w = At(W, t, k) /\ b = At(B, t, k)
    OBVIOUS
  <2>1. /\ w = [b EXCEPT !.entry = w.entry] /\ b \in BlockType
        /\ b.kind = At(A, t, k).kind /\ b.rate = At(A, t, k).rate
        /\ b.max_junction = At(A, t, k).max_junction
    BY <1>2, <2>0 DEF Alike
  <2>2. w.kind = b.kind /\ w.rate = b.rate /\ w.max_entry = b.max_entry
        /\ w.max_junction = b.max_junction
    BY <2>1 DEF BlockType
  <2>3. Nominal(w)' = plan_compute_profile_nominal_speed(w, f, r)
    BY DEF Nominal
  <2>4. plan_compute_profile_nominal_speed(w, f, r) = nn(k)
    BY <2>1, <2>2 DEF plan_compute_profile_nominal_speed
  <2> QED
    BY <2>0, <2>1, <2>2, <2>3, <2>4
<1>4. previous_nominal_speed' = nn(n - 1)
  BY DEF LastNominal, Block, At
<1> HIDE DEF nn
<1>5. ASSUME NEW k \in 1..n - 1
      PROVE  /\ At(W, t, k).max_entry <= nn(k) * nn(k)
             /\ At(W, t, k).max_entry <= nn(k - 1) * nn(k - 1)
             /\ At(W, t, k).max_entry <= At(W, t, k).max_junction
  <2>1. k \in 0..n - 1 /\ k > 0
    BY <1>1
  <2>2. /\ At(W, t, k).max_entry = MaxEntry(At(A, t, k).max_junction, nn(k), nn(k - 1))
        /\ At(W, t, k).max_junction = At(A, t, k).max_junction
        /\ nn(k) \in Nat /\ nn(k - 1) \in Nat
    BY <1>2, <1>3, <2>1
  <2>3. At(A, t, k).max_junction \in Nat
    BY <1>2, <2>1 DEF BlockType
  <2> DEFINE x == nn(k)
             y == nn(k - 1)
             j == At(A, t, k).max_junction
  <2>4. x \in Nat /\ y \in Nat /\ j \in Nat
    BY <2>2, <2>3
  <2> HIDE DEF x, y, j
  <2>5. MaxEntry(j, x, y) <= j /\ MaxEntry(j, x, y) <= x * x /\ MaxEntry(j, x, y) <= y * y
    BY <2>4, MaxEntryTyped, Zenon
  <2> QED
    BY <2>2, <2>5 DEF x, y, j
<1>6. \A k : Block(k)' = At(W, t, k)
  BY DEF Block, At
<1>7. \A k \in 0..n - 1 : Nominal(Block(k))' = nn(k)
  <2>1. \A k : Nominal(Block(k))' = Nominal(At(W, t, k))'
    BY <1>6 DEF Nominal
  <2> QED
    BY <1>3, <2>1
<1>8. \A k \in 0..n - 1 : Top(Block(k))' = nn(k) * nn(k)
  BY <1>7 DEF Top
<1>9. \A k \in 1..n - 1 : k \in 0..n - 1 /\ k - 1 \in 0..n - 1
  BY <1>1
<1>10. previous_nominal_speed' = Nominal(Block(Count - 1))'
  BY <1>1, <1>4, <1>7
<1> QED
  BY <1>5, <1>6, <1>8, <1>9, <1>10 DEF LimitInv

(* Changed overrides leave the queue planned, or lowered.                  *)
LEMMA OverridesPlanned ==
  ASSUME PlannerInv, NEW c, ExecuteOverrides(c)
  PROVE  PlanningInv'
<1> USE DEF PlannerInv
<1>0. SafeInv' /\ TypeOK' /\ StateInv /\ TypeOK
  BY OverridesSafe DEF SafeInv
<1>1. PICK f \in Nat, r \in Nat : f = FeedOverride(c) /\ r = RapidOverride(c)
  BY <1>0, OverridesTyped
<1>2. /\ state # "HOMING" /\ f_override' = f /\ r_override' = r
      /\ slowed' = (~Empty /\ (slowed \/ f < f_override \/ r < r_override))
      /\ previous_nominal_speed' = LastNominal(f, r)
      /\ st_update_plan_block_parameters
      /\ planner_recalculate(Updated(Reprofiled(f, r)), block_buffer_tail,
                             block_buffer_head)
      /\ UNCHANGED <<block_buffer_tail, block_buffer_head, state, step_control,
                     hold_complete>>
  BY <1>1 DEF ExecuteOverrides, plan_cycle_reinitialize, control
<1>3. /\ Loading' /\ Holding' = Holding /\ Empty' = Empty /\ Count' = Count
      /\ ~SystemMotion
  BY <1>0, <1>2 DEF st_update_plan_block_parameters, Loading, Holding, Empty, Count, StateInv
<1>4. CASE Empty
  <2>1. Count = 0
    BY <1>0, <1>4, QueueRing
  <2> QED
    BY <1>3, <1>4, <2>1, FreshPlanned
<1>5. CASE ~Empty
  <2>1. PICK A \in [Index -> BlockType], t \in Index, n \in 1..Size - 1 :
          /\ A = block_buffer /\ t = block_buffer_tail /\ n = Count
          /\ block_buffer_head = Ahead(t, n) /\ Lengthy(A, t, n)
          /\ At(A, t, 0) = Exec /\ Block(0) = Exec
    BY <1>3, <1>5, QueueNow
  <2>2. PICK B : B = Reprofiled(f, r)
    OBVIOUS
  <2>3. /\ B \in [Index -> BlockType]
        /\ \A k \in 0..n - 1 : /\ At(B, t, k).mm = At(A, t, k).mm
                               /\ At(B, t, k).entry = At(A, t, k).entry
                               /\ At(B, t, k).kind = At(A, t, k).kind
                               /\ At(B, t, k).rate = At(A, t, k).rate
    <3>1. B \in [Index -> BlockType]
      BY <1>0, <2>2, ReprofiledLaw
    <3>2. ASSUME NEW k \in 0..n - 1
          PROVE  /\ At(B, t, k).mm = At(A, t, k).mm
                 /\ At(B, t, k).entry = At(A, t, k).entry
                 /\ At(B, t, k).kind = At(A, t, k).kind
                 /\ At(B, t, k).rate = At(A, t, k).rate
      <4>1. LimitAnew(A, B, t, k, f, r)
        BY <1>0, <2>1, <2>2, ReprofiledKeeps
      <4> QED
        BY <4>1 DEF LimitAnew
    <3> QED
      BY <3>1, <3>2
  <2>4. Lengthy(B, t, n)
    BY <2>1, <2>3 DEF Lengthy
  <2>5. planner_recalculate(Updated(B), t, Ahead(t, n)) /\ block_buffer_tail' = t
    BY <1>2, <2>1, <2>2
  <2>6. PICK W : W = block_buffer' /\ Alike(B, W, t, n)
    BY <1>3, <1>5, <2>1, <2>3, <2>4, <2>5, RestartAlike
  <2>7. block_buffer' \in [Index -> BlockType]
    BY <1>0 DEF TypeOK, BlockType
  <2>8. LimitInv'
    BY <1>2, <1>3, <1>5, <2>1, <2>2, <2>5, <2>6, <2>7, OverridesLimits
  <2>9. ASSUME ~slowed' PROVE PlanInv'
    <3>1. f_override \in Nat /\ r_override \in Nat
      BY <1>0, PlannerAssumption DEF TypeOK, DefaultOverride, RapidMedium, RapidLow
    <3>2. ~slowed /\ f_override <= f /\ r_override <= r
      <4>1. ~(slowed \/ f < f_override \/ r < r_override)
        BY <1>2, <1>5, <2>9, Zenon
      <4> QED
        BY <3>1, <4>1
    <3>3. Looser(A, B, t, n)
      BY <2>1, <2>2, <3>2, RaisedLooser
    <3>4. /\ Brakes(A, t, n, 1) /\ Out(A, t, n, 0) = Exit
          /\ ~Holding /\ Loading => Exec.entry = v
      BY <1>3, <1>5, <2>1, <3>2, HereNow
    <3>5. Brakes(B, t, n, 1) /\ Out(B, t, n, 0) = Exit
      BY <2>3, <3>3, <3>4, BrakesLooser
    <3>6. 0 \in 0..n - 1 /\ 0 \in 0..Size - 1
      BY PlannerAssumption
    <3>7. Top(Exec) <= Top(At(B, t, 0))'
      <4> DEFINE x == Nominal(Exec)
                 y == plan_compute_profile_nominal_speed(Exec, f, r)
      <4>1. Exec \in BlockType
        BY <2>1, <3>6, QueueTyped
      <4>2. x \in Nat /\ y \in Nat /\ x <= y
        BY <3>1, <3>2, <4>1, NominalTyped, NominalMore DEF Nominal
      <4>3. Nominal(At(B, t, 0))' = y
        BY <1>2, <2>1, <2>3, <3>6 DEF Nominal, plan_compute_profile_nominal_speed
      <4> HIDE DEF x, y
      <4>4. x * x <= y * y
        BY <4>2, SquareMore
      <4>5. Top(Exec) = x * x /\ Top(At(B, t, 0))' = y * y
        BY <4>3 DEF Top, x
      <4> QED
        BY <4>4, <4>5
    <3>8. At(B, t, 0).mm = Exec.mm /\ At(B, t, 0).entry = Exec.entry
      BY <2>1, <2>3, <3>6
    <3> QED
      BY <1>0, <1>2, <1>3, <1>5, <2>1, <2>3, <2>4, <2>5, <3>2, <3>4, <3>5, <3>7, <3>8,
         RestartPlanned
  <2>10. PlanInv'
    BY <2>9 DEF PlanInv
  <2> QED
    BY <1>3, <2>8, <2>10 DEF PlanningInv, SmoothInv, ExitIsPlanned, Loading
<1> QED
  BY <1>4, <1>5

-----------------------------------------------------------------------------
(* A new block.                                                            *)

(* The limits of the queue with a new block                                *)
(* (plan_compute_profile_parameters).                                      *)
LEMMA LineLimits ==
  ASSUME TypeOK, LimitInv, NEW m \in Motion, NEW j \in Junctions \cup {0},
         NEW A \in [Index -> BlockType], NEW t \in Index, NEW n \in 0..Size - 2,
         A = block_buffer, t = block_buffer_tail, n = Count,
         NEW B \in [Index -> BlockType], Same(A, B, t, n), At(B, t, n) = Added(m, j),
         NEW W \in [Index -> BlockType], W = block_buffer', Alike(B, W, t, n + 1),
         block_buffer_tail' = t, Count' = n + 1, previous_nominal_speed' = Nominal(m),
         UNCHANGED <<f_override, r_override, slowed>>
  PROVE  LimitInv'
<1>1. Size \in Nat /\ n \in Nat /\ n + 1 \in 0..Size - 1 /\ n + 1 > 0 /\ (n + 1) - 1 = n
      /\ n \in 0..Size - 1
  BY PlannerAssumption
<1>2. \A b : Nominal(b)' = Nominal(b) /\ Top(b)' = Top(b)
  BY DEF Nominal, Top
<1>3. /\ Limits(B, t, n + 1) => Limits(W, t, n + 1)
      /\ Nominal(At(W, t, n)) = Nominal(At(B, t, n))
  BY <1>1, LimitsAlike
<1>4. /\ Nominal(m) \in Nat /\ Nominal(Added(m, j)) = Nominal(m)
      /\ Added(m, j).max_entry = MaxEntry(j, Nominal(m), previous_nominal_speed)
      /\ Added(m, j).max_junction = j /\ j \in Nat /\ previous_nominal_speed \in Nat
  <2>1. /\ Nominal(m) \in Nat
        /\ Added(m, j).max_entry = MaxEntry(j, Nominal(m), previous_nominal_speed)
        /\ Added(m, j).max_junction = j
        /\ Added(m, j).kind = m.kind /\ Added(m, j).rate = m.rate
    BY AddedLaw
  <2>2. Nominal(Added(m, j)) = Nominal(m)
    BY <2>1 DEF Nominal, plan_compute_profile_nominal_speed
  <2> QED
    BY <2>1, <2>2, PlannerAssumption DEF TypeOK
<1>5. ASSUME ~slowed PROVE Limits(B, t, n + 1)
  <2>1. ASSUME NEW k \in 1..n
        PROVE  /\ At(B, t, k).max_entry <= Top(At(B, t, k))
               /\ At(B, t, k).max_entry <= Top(At(B, t, k - 1))
               /\ At(B, t, k).max_entry <= At(B, t, k).max_junction
    <3>1. CASE k # n
      <4>1. k \in 1..n - 1 /\ k \in 0..n - 1 /\ k - 1 \in 0..n - 1
        BY <1>1, <3>1
      <4>2. Limits(A, t, n)
        BY <1>5, LimitsNow
      <4> QED
        BY <4>1, <4>2 DEF Limits, Same
    <3>2. CASE k = n
      <4> DEFINE x == Nominal(m)
                 y == previous_nominal_speed
      <4>1. n - 1 \in 0..n - 1 /\ n # 0
        BY <1>1, <3>2
      <4>2. ~Empty
        BY <4>1, QueueRing
      <4>3. y = Nominal(At(A, t, n - 1)) /\ At(B, t, n - 1) = At(A, t, n - 1)
        BY <4>1, <4>2, LimitsNow DEF Same
      <4>4. Top(At(B, t, n)) = x * x /\ Top(At(B, t, n - 1)) = y * y
        BY <1>4, <4>3 DEF Top
      <4>5. x \in Nat /\ y \in Nat
        BY <1>4
      <4> HIDE DEF x, y
      <4>6. MaxEntry(j, x, y) <= j /\ MaxEntry(j, x, y) <= x * x /\ MaxEntry(j, x, y) <= y * y
        BY <1>4, <4>5, MaxEntryTyped, Zenon
      <4>7. At(B, t, n).max_entry = MaxEntry(j, x, y) /\ At(B, t, n).max_junction = j
        BY <1>4 DEF x, y
      <4> QED
        BY <3>2, <4>4, <4>6, <4>7
    <3> QED
      BY <3>1, <3>2
  <2> QED
    BY <1>1, <2>1 DEF Limits
<1>6. \A k : Block(k)' = At(W, t, k)
  BY DEF Block, At
<1>7. \A k : Nominal(Block(k))' = Nominal(At(W, t, k)) /\ Top(Block(k))' = Top(At(W, t, k))
  <2>1. \A k : /\ Nominal(Block(k))' = Nominal(At(W, t, k))'
               /\ Top(Block(k))' = Top(At(W, t, k))'
    BY <1>6 DEF Nominal, Top
  <2> QED
    BY <1>2, <2>1
<1>8. previous_nominal_speed' = Nominal(Block(Count - 1))'
  BY <1>1, <1>3, <1>4, <1>7
<1>9. ~slowed' => Limits(W, t, Count')
  BY <1>3, <1>5
<1> QED
  BY <1>6, <1>7, <1>8, <1>9 DEF LimitInv, Limits

(* plan_buffer_line leaves the queue planned: the passes that stop at the  *)
(* planned pointer are enough.                                             *)
LEMMA LinePlanned ==
  ASSUME PlannerInv, NEW m \in Motion, NEW j \in Junctions \cup {0}, plan_buffer_line(m, j)
  PROVE  PlanningInv'
<1> USE DEF PlannerInv
<1>0. /\ TypeOK' /\ TypeOK /\ RingInv /\ StateInv /\ SpeedInv
  BY LineSafe DEF SafeInv
<1>1. PICK A \in [Index -> BlockType], t \in Index, n \in 0..Size - 2,
           B \in [Index -> BlockType] :
        /\ A = block_buffer /\ t = block_buffer_tail /\ n = Count /\ B = Extended(m, j)
        /\ Same(A, B, t, n) /\ At(B, t, n) = Added(m, j)
        /\ Lengthy(B, t, n + 1)
        /\ next_buffer_head = Ahead(t, n + 1)
        /\ ~SystemMotion /\ state \in {"IDLE", "CYCLE"}
  BY <1>0, ExtendedLaw DEF Same, TypeOK, BlockType
<1>2. /\ previous_nominal_speed' = Nominal(m)
      /\ block_buffer_head' = Ahead(t, n + 1)
      /\ IF ~Empty /\ block_buffer_planned = t
         THEN /\ st_update_plan_block_parameters
              /\ planner_recalculate(Updated(B), t, Ahead(t, n + 1))
         ELSE /\ pl_block' = pl_block /\ prep' = prep
              /\ planner_recalculate(B, block_buffer_planned, Ahead(t, n + 1))
      /\ block_buffer_tail' = t
      /\ UNCHANGED <<state, step_control, hold_complete, f_override, r_override, slowed>>
  BY <1>1 DEF plan_buffer_line, Nominal, Extended, Added, stepper, control, override
<1>3. Size \in Nat /\ n \in Nat /\ n + 1 \in 1..Size - 1 /\ (Empty <=> n = 0)
      /\ Ahead(t, 0) = t /\ (n + 1) - 1 = n /\ 0 \in 0..(n + 1) - 1
  BY <1>0, <1>1, PlannerAssumption, QueueRing
<1>4. Count' = n + 1 /\ ~Holding /\ ~Holding' /\ ~SystemMotion'
  <2>1. Span(t, Ahead(t, n + 1)) = n + 1
    BY <1>3, AheadLaw
  <2> QED
    BY <1>0, <1>1, <1>2, <2>1 DEF Count, Holding, SystemMotion, StateInv
<1>5. block_buffer' \in [Index -> BlockType] /\ Added(m, j).entry = 0 /\ v \in Nat
      /\ Added(m, j).mm > 0 /\ Added(m, j) \in BlockType
  BY <1>0, AddedLaw DEF TypeOK, BlockType, v
<1>6. ASSUME NEW W, W = block_buffer', Alike(B, W, t, n + 1) PROVE LimitInv'
  BY <1>0, <1>1, <1>2, <1>4, <1>5, <1>6, LineLimits
<1>7. CASE Empty
  <2>1. n = 0 /\ Loading /\ v = 0 /\ ~slowed
    BY <1>0, <1>1, <1>3, <1>7 DEF StateInv, SpeedInv
  <2>2. B = block_buffer' /\ pl_block' = pl_block /\ prep' = prep
    <3>1. Span(block_buffer_tail, Ahead(t, n + 1)) = 1
      BY <1>1, <1>3, <2>1, AheadLaw
    <3>2. PICK h, p : h = Ahead(t, n + 1) /\ p = block_buffer_planned
      OBVIOUS
    <3>3. /\ planner_recalculate(B, p, h) /\ pl_block' = pl_block /\ prep' = prep
      BY <1>2, <1>7, <3>2
    <3>4. Span(block_buffer_tail, h) = 1
      BY <3>1, <3>2
    <3>5. block_buffer' = B
      BY <3>3, <3>4 DEF planner_recalculate
    <3> QED
      BY <3>3, <3>5
  <2>3. At(B, t, 0) = Added(m, j)
    BY <1>1, <2>1
  <2>4. LimitInv'
    <3>1. At(B, t, 0) = [At(B, t, 0) EXCEPT !.entry = At(B, t, 0).entry]
      BY <1>5, <2>3 DEF BlockType
    <3>2. Alike(B, B, t, n + 1)
      BY <1>3, <2>1, <3>1 DEF Alike
    <3> QED
      BY <1>6, <2>2, <3>2
  <2>5. PlanInv'
    <3>1. Block(0)' = Added(m, j) /\ Loading' /\ v' = 0
      BY <1>2, <2>1, <2>2, <2>3 DEF Block, At, Loading, v
    <3>2. Brakes(B, t, 1, 0)
      <4>1. Out(B, t, 1, 0) = 0
        BY DEF Out
      <4>2. Added(m, j).mm \in Nat
        BY <1>5 DEF BlockType
      <4>3. ASSUME NEW k \in 0..1 - 1
            PROVE  /\ At(B, t, k).entry <= At(B, t, k).mm + Out(B, t, 1, k)
                   /\ k > 0 => At(B, t, k).entry <= At(B, t, k).max_entry
        <5>1. k = 0
          OBVIOUS
        <5> QED
          BY <1>5, <2>3, <4>1, <4>2, <5>1
      <4> QED
        BY <4>3 DEF Brakes
    <3>3. Brakes(block_buffer', block_buffer_tail', Count', IF Loading' THEN 0 ELSE 1)
      BY <1>2, <1>4, <2>1, <2>2, <3>1, <3>2
    <3>4. Count' - 1 = 0
      BY <1>4, <2>1
    <3>5. /\ Follows(block_buffer', block_buffer_tail', Count' - 1, SpeedNow')
          /\ Fastest(block_buffer', block_buffer_tail', Count', Count' - 1, SpeedNow',
                     Offset')
      BY <3>4 DEF Follows, Fastest
    <3>6. 0 <= Top(Block(0))'
      <4>1. Top(Added(m, j)) \in Nat
        BY <1>0, <1>5, TopLaw
      <4>2. Top(Block(0))' = Top(Added(m, j))
        BY <1>2, <3>1 DEF Top, Nominal
      <4> QED
        BY <4>1, <4>2
    <3> QED
      BY <1>4, <1>5, <3>1, <3>3, <3>5, <3>6 DEF PlanInv
  <2> QED
    BY <2>1, <2>2, <2>4, <2>5 DEF PlanningInv, SmoothInv, ExitIsPlanned, Loading
<1>8. CASE ~Empty /\ block_buffer_planned = t
  <2>1. n \in 1..Size - 2 /\ 0 \in 0..n - 1 /\ 1 \in 0..n
    BY <1>3, <1>8
  <2>2. planner_recalculate(Updated(B), t, Ahead(t, n + 1)) /\ st_update_plan_block_parameters
    BY <1>2, <1>8
  <2>3. PICK W : W = block_buffer' /\ Alike(B, W, t, n + 1)
    BY <1>1, <1>2, <1>3, <1>8, <2>2, RestartAlike
  <2>4. LimitInv'
    BY <1>6, <2>3
  <2>5. ASSUME ~slowed PROVE PlanInv'
    <3>1. /\ At(A, t, 0) = Exec /\ Exec \in BlockType /\ Exit = Out(A, t, n, 0)
          /\ Brakes(A, t, n, 1) /\ (Loading => Exec.entry = v)
      BY <1>1, <1>4, <1>8, <2>5, HereNow
    <3>2. Brakes(B, t, n + 1, 1) /\ Out(B, t, n + 1, 0) = Exit
      <4>1. CASE n = 1
        <5>1. Brakes(A, t, n, 0) \/ Brakes(A, t, n, 1)
          BY <3>1
        <5>2. At(B, t, 1).entry = 0 /\ At(B, t, 1).mm \in Nat /\ At(B, t, 1).max_entry \in Nat
          BY <1>1, <1>3, <1>5, <4>1, QueueTyped
        <5>3. Out(B, t, n + 1, 0) = 0 /\ Out(A, t, n, 0) = 0 /\ Out(B, t, n + 1, 1) = 0
          BY <4>1, <5>2 DEF Out
        <5>4. ASSUME NEW k \in 1..(n + 1) - 1
              PROVE  /\ At(B, t, k).entry <= At(B, t, k).mm + Out(B, t, n + 1, k)
                     /\ k > 0 => At(B, t, k).entry <= At(B, t, k).max_entry
          <6>1. k = 1
            BY <4>1
          <6> QED
            BY <5>2, <5>3, <6>1
        <5> QED
          BY <3>1, <5>3, <5>4 DEF Brakes
      <4>2. CASE n # 1
        <5>1. 1 \in 0..n - 1
          BY <1>3, <2>1, <4>2
        <5> QED
          BY <1>1, <1>5, <2>1, <3>1, <5>1, BrakesLonger
      <4> QED
        BY <4>1, <4>2
    <3>3. At(B, t, 0) = Exec
      BY <1>1, <2>1, <3>1 DEF Same
    <3>4. Top(At(B, t, 0))' = Top(Exec) /\ Top(Exec) \in Nat
      <4>1. Top(At(B, t, 0))' = Top(At(B, t, 0))
        BY <1>2 DEF Top, Nominal
      <4> QED
        BY <1>0, <3>1, <3>3, <4>1, TopLaw
    <3>5. Top(Exec) <= Top(At(B, t, 0))'
      BY <3>4
    <3> QED
      BY <1>0, <1>1, <1>2, <1>3, <1>4, <1>8, <2>2, <2>5, <3>1, <3>2, <3>3, <3>5, RestartPlanned
  <2>6. PlanInv'
    BY <1>2, <2>5 DEF PlanInv
  <2>7. Loading'
    BY <2>2 DEF st_update_plan_block_parameters, Loading
  <2> QED
    BY <2>4, <2>6, <2>7 DEF PlanningInv, SmoothInv, ExitIsPlanned, Loading
<1>9. CASE ~Empty /\ block_buffer_planned # t
  <2>1. PICK q, W : q = Offset /\ W = block_buffer'
    OBVIOUS
  <2>2. q \in 1..n - 1 /\ Ahead(t, q) = block_buffer_planned
    <3>1. q \in 0..Size - 1 /\ Ahead(t, q) = block_buffer_planned
      <4>1. block_buffer_planned \in Index
        BY <1>0 DEF TypeOK
      <4> QED
        BY <1>1, <2>1, <4>1, SpanLaw DEF Offset
    <3>2. q < n
      BY <1>0, <1>1, <1>9, <2>1 DEF RingInv
    <3>3. q # 0
      BY <1>3, <1>9, <3>1
    <3> QED
      BY <1>3, <3>1, <3>2, <3>3
  <2>3. /\ q \in 0..(n + 1) - 1 /\ 0 \in 0..q /\ 1 \in 0..q /\ q \in 0..n - 1
        /\ n \in 1..Size - 2 /\ q > 0 /\ 0 \in 0..n - 1 /\ 1 \in 0..n - 1
        /\ n # 1 /\ n + 1 # 1
    BY <1>3, <2>2
  <2>4. Replaced(B, W, t, n + 1, q, Offset') /\ pl_block' = pl_block /\ prep' = prep
    <3>1. /\ planner_recalculate(B, Ahead(t, q), Ahead(t, n + 1))
          /\ pl_block' = pl_block /\ prep' = prep
      BY <1>2, <1>9, <2>2
    <3> QED
      BY <1>1, <1>2, <1>3, <2>1, <2>3, <3>1, Recalculation DEF Offset
  <2>5. /\ At(W, t, 0) = At(B, t, 0) /\ At(W, t, 1) = At(B, t, 1)
        /\ Alike(B, W, t, n + 1)
    BY <2>3, <2>4 DEF Replaced, Alike
  <2>6. LimitInv'
    BY <1>6, <2>1, <2>5
  <2>7. /\ At(W, t, 0) = At(A, t, 0) /\ At(W, t, 1) = At(A, t, 1)
    BY <1>1, <2>3, <2>5 DEF Same
  <2>8. /\ Exec' = Exec /\ Exit' = Exit /\ SpeedNow' = SpeedNow /\ v' = v
        /\ Loading' = Loading /\ Block(0)' = Block(0)
    <3>1. Block(0)' = At(W, t, 0) /\ Block(0) = At(A, t, 0)
      BY <1>1, <1>2, <2>1 DEF Block, At
    <3>2. Exec = At(A, t, 0) /\ Exec' = At(W, t, 0)
      BY <1>1, <1>2, <1>3, <1>4, <2>1 DEF Exec, Work, At
    <3>3. Exit' = At(W, t, 1).entry /\ Exit = At(A, t, 1).entry
      <4>1. 0 # n - 1 /\ 0 # (n + 1) - 1 /\ 0 + 1 = 1
        BY <1>3, <2>3
      <4> QED
        BY <1>1, <1>2, <1>4, <2>1, <4>1 DEF Exit, Out
    <3> QED
      BY <2>4, <2>7, <3>1, <3>2, <3>3 DEF SpeedNow, v, Loading
  <2>9. SmoothInv'
    <3>1. \A b : Top(b)' = Top(b)
      BY <1>2 DEF Top, Nominal
    <3>2. Follow(Exec, prep)' <=> Follow(Exec, prep)
      BY <1>1, <1>4, <2>4, <2>8, <3>1 DEF Follow
    <3> QED
      BY <1>2, <2>8, <3>2 DEF SmoothInv
  <2>10. ExitIsPlanned'
    <3>1. plan_get_exec_block_exit_speed_sqr = Exit
      BY <1>0, <1>9, ExitLaw
    <3>2. plan_get_exec_block_exit_speed_sqr' = Out(W, t, n + 1, 0)
      BY <1>2, <1>3, <2>1, ExitOf DEF plan_get_exec_block_exit_speed_sqr
    <3>3. Exit' = Out(W, t, n + 1, 0)
      BY <1>2, <1>4, <2>1 DEF Exit
    <3> QED
      BY <1>1, <1>2, <1>4, <2>4, <2>8, <3>1, <3>2, <3>3 DEF ExitIsPlanned
  <2>11. ASSUME ~slowed PROVE PlanInv'
    <3>1. PICK s \in Nat, lo \in {0, 1} : s = SpeedNow /\ lo = (IF Loading THEN 0 ELSE 1)
      <4>1. SpeedNow \in Nat
        <5>1. 0 \in 0..Size - 1
          BY <1>3, <2>3
        <5>2. Block(0) = At(A, t, 0) /\ At(A, t, 0).entry \in Nat
          BY <1>1, <5>1, QueueTyped DEF Block, At
        <5> QED
          BY <1>5, <5>2 DEF SpeedNow, v
      <4> QED
        BY <4>1
    <3>2. /\ Brakes(A, t, n, lo) /\ Follows(A, t, n - 1, s) /\ Fastest(A, t, n, n - 1, s, q)
          /\ Loading => /\ Block(0).entry <= Top(Block(0)) /\ Block(0).entry = v
      BY <1>1, <1>4, <1>9, <2>1, <2>11, <3>1 DEF PlanInv
    <3>3. Brakes(B, t, n + 1, lo)
      BY <1>1, <1>5, <2>3, <3>1, <3>2, BrakesLonger
    <3>4. Brakes(B, t, n + 1, q)
      <4>1. \A k \in q..(n + 1) - 1 : k \in lo..(n + 1) - 1
        BY <2>3, <3>1
      <4> QED
        BY <3>3, <4>1 DEF Brakes
    <3>5. Follows(B, t, q, s) /\ Fastest(B, t, n + 1, q, s, q)
      BY <1>1, <2>3, <3>2, FollowsLonger
    <3>6. Brakes(W, t, n + 1, lo)
      BY <1>1, <2>3, <2>4, <3>1, <3>3 DEF Replaced
    <3>7. Follows(W, t, n, s) /\ Fastest(W, t, n + 1, n, s, Offset')
      BY <1>1, <1>3, <2>3, <2>4, <3>4, <3>5 DEF Replaced
    <3>8. Brakes(block_buffer', block_buffer_tail', Count', IF Loading' THEN 0 ELSE 1)
      BY <1>2, <1>4, <2>1, <2>8, <3>1, <3>6
    <3>9. /\ Follows(block_buffer', block_buffer_tail', Count' - 1, SpeedNow')
          /\ Fastest(block_buffer', block_buffer_tail', Count', Count' - 1, SpeedNow',
                     Offset')
      BY <1>2, <1>3, <1>4, <2>1, <2>8, <3>1, <3>7
    <3>10. Top(Block(0))' = Top(Block(0))
      BY <1>2, <2>8 DEF Top, Nominal
    <3> QED
      BY <1>4, <2>8, <3>2, <3>8, <3>9, <3>10 DEF PlanInv
  <2>12. PlanInv'
    BY <1>2, <2>11 DEF PlanInv
  <2> QED
    BY <2>6, <2>9, <2>10, <2>12 DEF PlanningInv
<1> QED
  BY <1>7, <1>8, <1>9

-----------------------------------------------------------------------------
(* Segments.                                                               *)

(* A profile p over the length d that follows the acceleration, and the    *)
(* speed s it has at mm from the end.                                      *)
Smooth(p, d) ==
  /\ p.ramp # "DECEL_OVERRIDE"
  /\ p.ramp = "DECEL" => p.current = p.exit + (d - p.mm_complete)
  /\ p.ramp = "TRAPEZOID" =>
       /\ p.mm_complete = 0
       /\ p.current <= p.exit + d /\ p.exit <= p.current + d
       /\ p.current <= p.maximum /\ p.exit <= p.maximum

Reaches(p, d, mm, s) ==
  /\ s \in Nat /\ p.exit \in Nat /\ p.current \in Nat /\ p.maximum \in Nat
  /\ p.mm_complete \in Nat
  /\ s <= p.current + (d - mm) /\ p.current <= s + (d - mm)
  /\ p.ramp = "DECEL" => s = p.exit + (mm - p.mm_complete) /\ s <= p.current
  /\ p.ramp = "TRAPEZOID" => s <= p.exit + mm /\ p.exit <= s + mm /\ s <= p.maximum
  /\ p.mm_complete = 0 => /\ p.exit <= s + mm
                          /\ d > 0 /\ p.exit = p.current + d => p.exit = s + mm

(* Along a profile that follows the acceleration, the speed changes by no  *)
(* more than the distance, and the end stays within reach.                 *)
LEMMA SegmentLaw ==
  ASSUME NEW p \in ProfileType, NEW d \in Nat, NEW mm \in Nat, NEW s,
         mm \in p.mm_complete..d, s = SpeedAt(p, d, mm), Smooth(p, d)
  PROVE  Reaches(p, d, mm, s)
<1> USE DEF Smooth, Reaches
<1>1. /\ p.exit \in Nat /\ p.current \in Nat /\ p.maximum \in Nat /\ p.mm_complete \in Nat
      /\ p.ramp \in {"DECEL", "DECEL_OVERRIDE", "TRAPEZOID"}
  BY DEF ProfileType
<1>2. p.mm_complete <= mm /\ mm <= d
  BY <1>1
<1>3. CASE p.ramp = "DECEL"
  <2>1. s = p.exit + (mm - p.mm_complete)
    <3>1. CASE mm = p.mm_complete
      BY <1>1, <3>1 DEF SpeedAt
    <3>2. CASE mm # p.mm_complete
      <4>1. s = p.current - (d - mm)
        BY <1>3, <3>2 DEF SpeedAt
      <4> QED
        BY <1>1, <1>2, <1>3, <4>1
    <3> QED
      BY <3>1, <3>2
  <2> QED
    BY <1>1, <1>2, <1>3, <2>1
<1>4. CASE p.ramp = "TRAPEZOID"
  <2>1. CASE mm = p.mm_complete
    <3>1. s = p.exit /\ mm = 0
      BY <1>4, <2>1 DEF SpeedAt
    <3> QED
      BY <1>1, <1>2, <1>4, <3>1
  <2>2. CASE mm # p.mm_complete
    <3>1. s = Min2(Min2(p.maximum, p.current + (d - mm)), p.exit + mm)
      BY <1>4, <2>2 DEF SpeedAt
    <3>2. \/ s = p.maximum /\ s <= p.current + (d - mm) /\ s <= p.exit + mm
          \/ s = p.current + (d - mm) /\ s <= p.maximum /\ s <= p.exit + mm
          \/ s = p.exit + mm /\ s <= p.maximum /\ s <= p.current + (d - mm)
      BY <1>1, <1>2, <3>1 DEF Min2
    <3> QED
      BY <1>1, <1>2, <1>4, <3>2
  <2> QED
    BY <2>1, <2>2
<1> QED
  BY <1>1, <1>3, <1>4

(* A segment within the first block leaves the queue planned.              *)
LEMMA FirstWorked ==
  ASSUME PlannerInv, Running, ~SystemMotion, ~SystemMotion', TypeOK',
         NEW A \in [Index -> BlockType], NEW t \in Index, NEW n \in 1..Size - 1,
         A = block_buffer, t = block_buffer_tail, n = Count,
         NEW c \in BlockType, c.kind = Exec.kind, c.rate = Exec.rate,
         NEW W \in [Index -> BlockType], W = block_buffer', Written(A, W, t, c),
         ~Loading', block_buffer_tail' = t, block_buffer_head' = block_buffer_head,
         Count' = n, Offset' = Offset, Holding' = Holding,
         UNCHANGED <<previous_nominal_speed, f_override, r_override, slowed>>,
         ~slowed /\ ~Holding => /\ Exit <= v' + c.mm
                                /\ Exit = v + Exec.mm => Exit = v' + c.mm
  PROVE  /\ LimitInv' /\ PlanInv' /\ Exit' = Exit
         /\ plan_get_exec_block_exit_speed_sqr' = plan_get_exec_block_exit_speed_sqr
<1>0. /\ TypeOK /\ LimitInv /\ PlanInv /\ ~Empty
  BY DEF PlannerInv, SafeInv, Running
<1>1. Size \in Nat /\ n \in Nat /\ n > 0 /\ 0 \in 0..n - 1 /\ 0 \in 0..Size - 1
      /\ Size > 2
  BY PlannerAssumption
<1>2. /\ At(W, t, 0) = c /\ At(A, t, 0) = Exec /\ Block(0) = Exec
      /\ \A k \in 1..Size - 1 : At(W, t, k) = At(A, t, k)
  <2>1. At(W, t, 0) = c /\ \A k \in 1..Size - 1 : At(W, t, k) = At(A, t, k)
    BY FirstChanged
  <2>2. At(A, t, 0) = Exec
    BY <1>0, QueueRing DEF Exec, Work
  <2> QED
    BY <2>1, <2>2 DEF Block, At
<1>3. \A b : Nominal(b)' = Nominal(b) /\ Top(b)' = Top(b)
  BY DEF Nominal, Top
<1>4. Nominal(c) = Nominal(Exec) /\ Top(c) = Top(Exec)
  <2>1. Nominal(c) = Nominal(Exec)
    BY DEF Nominal, plan_compute_profile_nominal_speed
  <2> QED
    BY <2>1 DEF Top
<1>5. \A k : Block(k)' = At(W, t, k) /\ Block(k) = At(A, t, k)
  BY DEF Block, At
<1>6. \A k \in 0..Size - 1 :
        Nominal(At(W, t, k)) = Nominal(At(A, t, k)) /\ Top(At(W, t, k)) = Top(At(A, t, k))
  <2>1. \A k \in 0..Size - 1 : k = 0 \/ k \in 1..Size - 1
    BY <1>1
  <2> QED
    BY <1>2, <1>4, <2>1
<1>7. LimitInv'
  <2>1. \A k : Nominal(Block(k))' = Nominal(At(W, t, k)) /\ Top(Block(k))' = Top(At(W, t, k))
    <3>1. \A k : /\ Nominal(Block(k))' = Nominal(At(W, t, k))'
                 /\ Top(Block(k))' = Top(At(W, t, k))'
      BY <1>5 DEF Nominal, Top
    <3> QED
      BY <1>3, <3>1
  <2>2. previous_nominal_speed' = Nominal(Block(Count - 1))'
    <3>1. n - 1 \in 0..Size - 1
      BY <1>1
    <3> QED
      BY <1>0, <1>6, <2>1, <3>1, LimitsNow
  <2>3. ASSUME ~slowed, NEW k \in 1..n - 1
        PROVE  /\ At(W, t, k).max_entry <= Top(At(W, t, k))
               /\ At(W, t, k).max_entry <= Top(At(W, t, k - 1))
               /\ At(W, t, k).max_entry <= At(W, t, k).max_junction
    <3>1. k \in 1..Size - 1 /\ k \in 0..Size - 1 /\ k - 1 \in 0..Size - 1
      BY <1>1
    <3>2. Limits(A, t, n)
      BY <1>0, <2>3, LimitsNow
    <3> QED
      BY <1>2, <1>6, <3>1, <3>2 DEF Limits
  <2> QED
    BY <1>5, <2>1, <2>2, <2>3 DEF LimitInv
<1>8. \A k \in 0..n - 1 : Out(W, t, n, k) = Out(A, t, n, k)
  <2>1. \A k \in 0..n - 1 : k # n - 1 => k + 1 \in 1..Size - 1
    BY <1>1
  <2> QED
    BY <1>2, <2>1 DEF Out
<1>9. Exit' = Exit /\ Exit = Out(A, t, n, 0)
  BY <1>1, <1>8 DEF Exit
<1>10. plan_get_exec_block_exit_speed_sqr' = plan_get_exec_block_exit_speed_sqr
  <2> DEFINE u == plan_next_block_index(t)
  <2>1. block_buffer_head = Ahead(t, n)
    BY <1>0, QueueRing
  <2>2. plan_get_exec_block_exit_speed_sqr = Out(A, t, n, 0)
    BY <2>1, ExitOf DEF plan_get_exec_block_exit_speed_sqr
  <2>3. plan_get_exec_block_exit_speed_sqr' = Out(W, t, n, 0)
    BY <2>1, ExitOf DEF plan_get_exec_block_exit_speed_sqr
  <2> QED
    BY <1>1, <1>8, <2>2, <2>3
<1>11. ASSUME ~slowed PROVE PlanInv'
  <2>1. Brakes(W, t, n, 1)
    <3>1. Brakes(A, t, n, 1)
      BY <1>0, <1>11, HereNow
    <3>2. \A k \in 1..n - 1 : k \in 1..Size - 1 /\ k \in 0..n - 1
      BY <1>1
    <3> QED
      BY <1>2, <1>8, <3>1, <3>2 DEF Brakes
  <2>2. ASSUME ~Holding
        PROVE  Follows(W, t, n - 1, v') /\ Fastest(W, t, n, n - 1, v', Offset)
    <3>0. PICK s, q : s = SpeedNow /\ q = Offset
      OBVIOUS
    <3>1. Follows(A, t, n - 1, s) /\ Fastest(A, t, n, n - 1, s, q) /\ s = v
      <4>1. Loading => Exec.entry = v
        BY <1>0, <1>2, <1>11, <2>2 DEF PlanInv
      <4>2. s = v
        BY <1>2, <3>0, <4>1 DEF SpeedNow, Loading, v
      <4> QED
        BY <1>0, <1>11, <2>2, <3>0, <4>2 DEF PlanInv
    <3>2. Exit <= v' + c.mm /\ (Exit = v + Exec.mm => Exit = v' + c.mm)
      BY <1>11, <2>2
    <3>3. n > 1 => Exit = At(A, t, 1).entry
      <4>1. n > 1 => 0 # n - 1 /\ 0 + 1 = 1
        BY <1>1
      <4> QED
        BY <1>9, <4>1 DEF Out
    <3>4. ASSUME NEW k \in 1..n - 1
          PROVE  /\ At(W, t, k).entry <= Ahead1(W, t, v', k) + At(W, t, k - 1).mm
                 /\ \/ At(W, t, k).entry = At(W, t, k).max_entry
                    \/ At(W, t, k).entry = Ahead1(W, t, v', k) + At(W, t, k - 1).mm
                    \/ k # Offset /\ At(W, t, k).entry = At(W, t, k).mm + Out(W, t, n, k)
      <4>1. /\ k \in 1..Size - 1 /\ k \in 0..n - 1 /\ n > 1
            /\ k # 1 => k - 1 \in 1..Size - 1
        BY <1>1
      <4>2. /\ At(A, t, k).entry <= Ahead1(A, t, s, k) + At(A, t, k - 1).mm
            /\ \/ At(A, t, k).entry = At(A, t, k).max_entry
               \/ At(A, t, k).entry = Ahead1(A, t, s, k) + At(A, t, k - 1).mm
               \/ k # q /\ At(A, t, k).entry = At(A, t, k).mm + Out(A, t, n, k)
        BY <3>1 DEF Follows, Fastest
      <4>3. At(W, t, k) = At(A, t, k) /\ Out(W, t, n, k) = Out(A, t, n, k)
        BY <1>2, <1>8, <4>1
      <4>4. CASE k = 1
        <5>1. Ahead1(A, t, s, k) = v /\ Ahead1(W, t, v', k) = v' /\ k - 1 = 0
          BY <3>1, <4>4 DEF Ahead1
        <5> QED
          BY <1>2, <3>0, <3>2, <3>3, <4>1, <4>2, <4>3, <4>4, <5>1
      <4>5. CASE k # 1
        <5>1. Ahead1(A, t, s, k) = Ahead1(W, t, v', k) /\ At(W, t, k - 1) = At(A, t, k - 1)
          BY <1>2, <4>1, <4>5 DEF Ahead1
        <5> QED
          BY <3>0, <4>2, <4>3, <5>1
      <4> QED
        BY <4>4, <4>5
    <3> QED
      BY <3>4 DEF Follows, Fastest
  <2>3. SpeedNow' = v'
    BY DEF SpeedNow, Loading, v
  <2>4. Brakes(block_buffer', block_buffer_tail', Count', IF Loading' THEN 0 ELSE 1)
    BY <2>1
  <2>5. ~Holding' => /\ Follows(block_buffer', block_buffer_tail', Count' - 1, SpeedNow')
                     /\ Fastest(block_buffer', block_buffer_tail', Count', Count' - 1,
                                SpeedNow', Offset')
    BY <2>2, <2>3
  <2> QED
    BY <2>4, <2>5 DEF PlanInv
<1>12. PlanInv'
  BY <1>11 DEF PlanInv
<1> QED
  BY <1>7, <1>9, <1>10, <1>12

(* So does a hold that ends where the last segment did.                    *)
LEMMA HoldEndPlanned ==
  ASSUME PlannerInv, PrepHoldEnd
  PROVE  PlanningInv'
<1> USE DEF PlannerInv
<1>0. TypeOK /\ RingInv /\ StateInv /\ SpeedInv /\ LengthInv /\ ProfileInv /\ TypeOK'
  BY HoldEndSafe DEF SafeInv
<1>1. PICK b, p : b = Loaded /\ p = Planned
  OBVIOUS
<1>2. /\ Running /\ Holding /\ p.mm_complete = b.mm
      /\ prep' = [p EXCEPT !.current = p.exit]
      /\ step_control' = step_control \cup {"END_MOTION"}
      /\ block_buffer' = [block_buffer EXCEPT ![Work] = b]
      /\ pl_block' = Work
      /\ UNCHANGED <<block_buffer_tail, block_buffer_head, block_buffer_planned,
                     previous_nominal_speed, f_override, r_override, slowed>>
  BY <1>1 DEF PrepHoldEnd, ring, override
<1>3. ~SystemMotion /\ ~SystemMotion' /\ Holding' /\ ~Empty
  BY <1>0, <1>2 DEF StateInv, SystemMotion, Holding, Running
<1>4. PICK A \in [Index -> BlockType], t \in Index, n \in 1..Size - 1 :
        /\ A = block_buffer /\ t = block_buffer_tail /\ n = Count
        /\ At(A, t, 0) = Exec /\ Block(0) = Exec
  BY <1>3, QueueNow
<1>5. /\ Work = t /\ b \in BlockType /\ Exec \in BlockType /\ Exec.mm > 0
      /\ b.mm = Exec.mm /\ b = [Exec EXCEPT !.entry = b.entry]
  BY <1>0, <1>1, <1>2, <1>3, <1>4, LoadedLaw
<1>6. p \in ProfileType /\ Fits(b, p)
  BY <1>0, <1>1, <1>2, PlannedLaw
<1>7. /\ b.kind = Exec.kind /\ b.rate = Exec.rate /\ b.mm \in Nat /\ b.mm > 0
      /\ p.mm_complete = b.mm /\ p.exit = 0
      /\ prep'.current = 0 /\ prep'.exit = 0 /\ prep'.mm_complete = b.mm
      /\ prep'.ramp = p.ramp /\ prep'.decel_override = p.decel_override
      /\ p.ramp = "DECEL"
  <2>1. b.kind = Exec.kind /\ b.rate = Exec.rate /\ b.mm \in Nat /\ b.mm > 0
    BY <1>5 DEF BlockType
  <2>2. p.exit = 0 /\ p.ramp = "DECEL"
    BY <1>2, <1>6, <2>1 DEF Fits
  <2> QED
    BY <1>2, <1>6, <2>1, <2>2 DEF ProfileType
<1>8. PICK W \in [Index -> BlockType] : W = block_buffer' /\ Written(A, W, t, b)
  BY <1>0, <1>2, <1>4, <1>5 DEF Written, TypeOK, BlockType
<1>9. ~Loading' /\ Count' = n /\ Offset' = Offset /\ Work' = t /\ Exec' = b
  BY <1>2, <1>3, <1>4, <1>5, <1>8, PlannerAssumption
     DEF Loading, NULL, Index, Count, Offset, Work, Exec, Written
<1>10. /\ LimitInv' /\ PlanInv' /\ Exit' = Exit
  BY <1>0, <1>2, <1>3, <1>4, <1>5, <1>7, <1>8, <1>9, FirstWorked
<1>11. SmoothInv'
  <2> SUFFICES ASSUME ~slowed PROVE Follow(b, prep)'
    BY <1>2, <1>9 DEF SmoothInv
  <2>1. ~p.decel_override
    BY <1>1, <1>2, FollowNow DEF Follow
  <2>2. Top(b)' \in Nat /\ Exit \in Nat
    <3>1. Top(b) \in Nat
      BY <1>0, <1>5, TopLaw
    <3>2. Top(b)' = Top(b)
      BY <1>2 DEF Top, Nominal
    <3> QED
      BY <1>0, <1>3, <3>1, <3>2, ExitLaw
  <2> QED
    BY <1>7, <1>10, <2>1, <2>2 DEF Follow
<1>12. ExitIsPlanned'
  BY <1>3 DEF ExitIsPlanned
<1> QED
  BY <1>10, <1>11, <1>12 DEF PlanningInv

(* The segment that is prepared now goes by such a profile, at no more than*)
(* the nominal speed, to the speed the planner has for the next block.     *)
LEMMA SegmentNow ==
  ASSUME PlannerInv, Running, ~slowed, NEW mm \in Nat, NEW b, NEW p, NEW s,
         b = Loaded, p = Planned, mm \in p.mm_complete..b.mm, s = SpeedAt(p, b.mm, mm)
  PROVE  /\ s \in Nat /\ p.exit \in Nat /\ p.mm_complete \in Nat /\ p.current = v
         /\ v \in Nat /\ b.mm \in Nat /\ b.mm = Exec.mm
         /\ s <= v + (b.mm - mm) /\ v <= s + (b.mm - mm)
         /\ p.ramp # "DECEL_OVERRIDE" /\ ~p.decel_override
         /\ p.ramp = "DECEL" => s = p.exit + (mm - p.mm_complete) /\ s <= v
         /\ p.ramp = "TRAPEZOID" =>
              s <= p.exit + mm /\ p.exit <= s + mm /\ s <= p.maximum /\ p.exit <= p.maximum
         /\ ~Holding => /\ p.mm_complete = 0 /\ p.exit <= s + mm
                        /\ b.mm > 0 /\ p.exit = v + b.mm => p.exit = s + mm
         /\ ~SystemMotion =>
              /\ v <= Top(b) /\ p.exit <= Exit
              /\ p.ramp = "TRAPEZOID" => p.maximum <= Top(b)
         /\ ~Holding /\ ~SystemMotion => p.exit = Exit
<1> USE DEF PlannerInv, SafeInv
<1>1. Follow(b, p) /\ p.current = v /\ (~Holding /\ ~SystemMotion => p.exit = Exit)
  BY FollowNow
<1>2. p \in ProfileType /\ Fits(b, p)
  BY PlannedLaw
<1>3. b \in BlockType /\ b.mm = Exec.mm /\ b.mm \in Nat
  <2>1. b \in BlockType /\ b.mm = Exec.mm
    BY LoadedLaw
  <2> QED
    BY <2>1 DEF BlockType
<1>4. /\ p.ramp # "DECEL_OVERRIDE" /\ ~p.decel_override
      /\ p.ramp = "DECEL" => p.current = p.exit + (b.mm - p.mm_complete)
      /\ p.ramp = "TRAPEZOID" =>
           /\ p.mm_complete = 0
           /\ p.current <= p.exit + b.mm /\ p.exit <= p.current + b.mm
           /\ p.current <= p.maximum /\ p.exit <= p.maximum
      /\ ~Holding => p.mm_complete = 0
      /\ ~SystemMotion =>
           /\ p.current <= Top(b) /\ p.exit <= Exit
           /\ p.ramp = "TRAPEZOID" => p.maximum <= Top(b)
  <2>1. p.mm_complete \in Nat
    BY <1>2 DEF ProfileType
  <2>2. p.mm_complete # 0 => Holding /\ p.ramp = "DECEL"
    BY <1>2, <2>1 DEF Fits
  <2> QED
    BY <1>1, <2>2 DEF Follow
<1>5. Reaches(p, b.mm, mm, s)
  <2>1. Smooth(p, b.mm)
    BY <1>4 DEF Smooth
  <2> QED
    BY <1>2, <1>3, <2>1, SegmentLaw
<1> QED
  BY <1>1, <1>3, <1>4, <1>5 DEF Reaches

(* A segment that does not end a block leaves the queue planned.           *)
LEMMA SegmentPlanned ==
  ASSUME PlannerInv, NEW mm \in Nat, PrepSegment(mm), mm > 0 \/ SystemMotion
  PROVE  PlanningInv'
<1> USE DEF PlannerInv
<1>0. TypeOK /\ RingInv /\ StateInv /\ SpeedInv /\ LengthInv /\ ProfileInv /\ TypeOK'
  BY SegmentSafe DEF SafeInv
<1>1. PICK b, p, s : b = Loaded /\ p = Planned /\ s = SpeedAt(p, b.mm, mm)
  OBVIOUS
<1> DEFINE c == [b EXCEPT !.mm = mm]
<1>2. /\ Running /\ mm \in p.mm_complete..b.mm - 1
      /\ prep' = [p EXCEPT !.current = s]
      /\ step_control' = IF mm = p.mm_complete THEN step_control \cup {"END_MOTION"}
                         ELSE step_control
      /\ block_buffer' = [block_buffer EXCEPT ![Work] = c]
      /\ pl_block' = Work
      /\ UNCHANGED <<block_buffer_tail, block_buffer_planned, slowed>>
      /\ UNCHANGED <<block_buffer_head, next_buffer_head, previous_nominal_speed,
                     state, hold_complete, f_override, r_override>>
  <2>1. mm # 0 \/ SystemMotion
    OBVIOUS
  <2> QED
    BY <1>1, <2>1 DEF PrepSegment
<1>3. /\ b \in BlockType /\ Exec \in BlockType /\ b.mm = Exec.mm /\ Work \in Index
      /\ b = [Exec EXCEPT !.entry = b.entry] /\ b.mm \in Nat
      /\ ~SystemMotion => Exec.mm > 0
  <2>1. /\ b \in BlockType /\ Exec \in BlockType /\ b.mm = Exec.mm /\ Work \in Index
        /\ b = [Exec EXCEPT !.entry = b.entry] /\ (~SystemMotion => Exec.mm > 0)
    BY <1>0, <1>1, <1>2, LoadedLaw
  <2> QED
    BY <2>1 DEF BlockType
<1>4. p \in ProfileType /\ Fits(b, p)
  BY <1>0, <1>1, <1>2, PlannedLaw
<1>5. c \in BlockType /\ c.mm = mm /\ c.kind = Exec.kind /\ c.rate = Exec.rate
  BY <1>3 DEF BlockType
<1>6. /\ prep'.current = s /\ prep'.exit = p.exit /\ prep'.mm_complete = p.mm_complete
      /\ prep'.ramp = p.ramp /\ prep'.decel_override = p.decel_override
      /\ prep'.maximum = p.maximum /\ v' = s
  BY <1>2, <1>4 DEF ProfileType, v
<1>7. mm \in p.mm_complete..b.mm
  BY <1>2, <1>3
<1>8. /\ SystemMotion' = SystemMotion /\ Holding' = Holding /\ ~Loading'
      /\ Empty' = Empty /\ Count' = Count /\ Offset' = Offset /\ Work' = Work
  <2>1. SystemMotion' = SystemMotion /\ Holding' = Holding
    BY <1>2 DEF SystemMotion, Holding
  <2>2. ~Loading'
    BY <1>2, <1>3, PlannerAssumption DEF Loading, NULL, Index
  <2> QED
    BY <1>2, <2>1, <2>2 DEF Empty, Count, Offset, Work
<1>9. Exec' = c
  <2>1. block_buffer \in [Index -> BlockType]
    BY <1>0 DEF TypeOK, BlockType
  <2> QED
    BY <1>2, <1>3, <1>8, <2>1 DEF Exec
<1> HIDE DEF c
<1>10. PICK e : e = c
  OBVIOUS
<1>11. Top(e)' = Top(b)
  <2>1. Nominal(c) = Nominal(b)
    BY <1>3, <1>5 DEF Nominal, plan_compute_profile_nominal_speed, BlockType
  <2>2. Top(e)' = Top(e)
    BY <1>2 DEF Top, Nominal
  <2> QED
    BY <1>10, <2>1, <2>2 DEF Top
<1>12. ASSUME ~SystemMotion
       PROVE  LimitInv' /\ PlanInv' /\ Exit' = Exit
              /\ plan_get_exec_block_exit_speed_sqr' = plan_get_exec_block_exit_speed_sqr
  <2>1. ~Empty
    BY <1>2, <1>12 DEF Running
  <2>2. PICK A \in [Index -> BlockType], t \in Index, n \in 1..Size - 1 :
          /\ A = block_buffer /\ t = block_buffer_tail /\ n = Count
    BY <2>1, QueueNow
  <2>3. Work = t
    BY <1>12, <2>2 DEF Work
  <2>4. PICK W \in [Index -> BlockType] : W = block_buffer' /\ Written(A, W, t, e)
    BY <1>0, <1>2, <1>10, <2>2, <2>3 DEF Written, TypeOK, BlockType
  <2>5. ~slowed /\ ~Holding => /\ Exit <= v' + e.mm
                               /\ Exit = v + Exec.mm => Exit = v' + e.mm
    BY <1>1, <1>2, <1>3, <1>5, <1>6, <1>7, <1>10, <1>12, SegmentNow
  <2> QED
    BY <1>0, <1>2, <1>5, <1>8, <1>10, <1>12, <2>2, <2>4, <2>5, FirstWorked
<1>13. SmoothInv'
  <2> SUFFICES ASSUME ~slowed PROVE Follow(e, prep)'
    BY <1>2, <1>8, <1>9, <1>10 DEF SmoothInv
  <2>1. /\ s \in Nat /\ p.exit \in Nat /\ p.mm_complete \in Nat /\ v \in Nat
        /\ p.ramp # "DECEL_OVERRIDE" /\ ~p.decel_override
        /\ p.ramp = "DECEL" => s = p.exit + (mm - p.mm_complete) /\ s <= v
        /\ p.ramp = "TRAPEZOID" =>
             s <= p.exit + mm /\ p.exit <= s + mm /\ s <= p.maximum /\ p.exit <= p.maximum
        /\ ~SystemMotion =>
             /\ v <= Top(b) /\ p.exit <= Exit
             /\ p.ramp = "TRAPEZOID" => p.maximum <= Top(b)
    BY <1>1, <1>2, <1>7, SegmentNow
  <2>2. ~SystemMotion => s <= Top(b)
    <3>1. p.maximum \in Nat /\ Top(b) \in Nat /\ p.ramp \in {"DECEL", "TRAPEZOID"}
      BY <1>0, <1>3, <1>4, <2>1, TopLaw DEF ProfileType
    <3> QED
      BY <2>1, <3>1
  <2>3. ~SystemMotion => Exit' = Exit
    BY <1>12
  <2> QED
    BY <1>5, <1>6, <1>8, <1>10, <1>11, <2>1, <2>2, <2>3 DEF Follow
<1>14. CASE ~SystemMotion
  <2>1. ExitIsPlanned'
    <3> SUFFICES ASSUME ~Holding, ~p.decel_override
                 PROVE  prep'.exit = plan_get_exec_block_exit_speed_sqr'
      BY <1>6, <1>8 DEF ExitIsPlanned
    <3>1. p.exit = Exit
      BY <1>1, <1>2, <1>14, ExitNow
    <3>2. plan_get_exec_block_exit_speed_sqr = Exit
      BY <1>0, <1>2, <1>14, ExitLaw DEF Running
    <3> QED
      BY <1>6, <1>12, <1>14, <3>1, <3>2
  <2> QED
    BY <1>12, <1>13, <1>14, <2>1 DEF PlanningInv
<1>15. CASE SystemMotion
  <2>1. Empty /\ Count = 0
    BY <1>0, <1>15, QueueRing DEF StateInv
  <2> QED
    BY <1>8, <1>13, <1>15, <2>1, EmptyPlanned
<1> QED
  BY <1>14, <1>15

(* So does one that ends it: the next block is entered at the speed the    *)
(* planner has for it.                                                     *)
LEMMA DiscardPlanned ==
  ASSUME PlannerInv, NEW mm \in Nat, PrepSegment(mm), mm = 0, ~SystemMotion
  PROVE  PlanningInv'
<1> USE DEF PlannerInv
<1>0. /\ TypeOK /\ RingInv /\ StateInv /\ SpeedInv /\ LengthInv /\ ProfileInv /\ TypeOK'
      /\ PlanInv /\ LimitInv
  BY SegmentSafe DEF SafeInv
<1>1. PICK b, p, s : b = Loaded /\ p = Planned /\ s = SpeedAt(p, b.mm, mm)
  OBVIOUS
<1>2. /\ Running /\ mm \in p.mm_complete..b.mm - 1
      /\ prep' = [p EXCEPT !.current = s]
      /\ step_control' = step_control
      /\ block_buffer' = [block_buffer EXCEPT ![Work] = FreeBlock]
      /\ pl_block' = NULL /\ plan_discard_current_block
      /\ UNCHANGED <<block_buffer_head, next_buffer_head, previous_nominal_speed,
                     state, hold_complete, f_override, r_override>>
  BY <1>1 DEF PrepSegment
<1>3. PICK A \in [Index -> BlockType], t \in Index, n \in 1..Size - 1,
             u \in Index :
        /\ A = block_buffer /\ t = block_buffer_tail /\ n = Count
        /\ block_buffer_head = Ahead(t, n) /\ u = plan_next_block_index(t)
        /\ At(A, t, 0) = Exec /\ Block(0) = Exec
  <2>1. \A t \in Index : plan_next_block_index(t) \in Index
    BY PlannerAssumption DEF plan_next_block_index, Index
  <2> QED
    BY <1>2, <2>1, QueueNow DEF Running
<1>4. /\ b \in BlockType /\ b.mm = Exec.mm /\ b.mm \in Nat /\ Work = t
      /\ p \in ProfileType /\ s = p.exit /\ v' = p.exit
  <2>1. b \in BlockType /\ b.mm = Exec.mm /\ Work = t
    BY <1>0, <1>1, <1>2, <1>3, LoadedLaw
  <2>2. p \in ProfileType
    BY <1>0, <1>1, <1>2, PlannedLaw
  <2>3. b.mm \in Nat /\ p.mm_complete \in Nat
    BY <2>1, <2>2 DEF BlockType, ProfileType
  <2>4. mm = p.mm_complete
    BY <1>2, <2>3
  <2>5. s = p.exit
    BY <1>1, <2>4 DEF SpeedAt
  <2> QED
    BY <1>2, <2>1, <2>2, <2>3, <2>5 DEF v, ProfileType
<1>5. Size \in Nat /\ n \in Nat /\ Size > 2
  BY PlannerAssumption
<1>6. PICK W \in [Index -> BlockType] : W = block_buffer' /\ Written(A, W, t, FreeBlock)
  BY <1>0, <1>2, <1>3, <1>4 DEF Written, TypeOK, BlockType
<1>7. /\ u \in Index
      /\ \A k \in 1..Size - 1 : Span(u, Ahead(t, k)) = k - 1
      /\ \A k \in 0..n - 2 : At(W, u, k) = At(A, t, k + 1)
  <2>1. FreeBlock \in BlockType
    BY DEF FreeBlock, BlockType
  <2> QED
    BY <1>3, <1>6, <2>1, Discarded
<1>8. /\ block_buffer_tail' = u /\ Count' = n - 1 /\ Loading'
      /\ Holding' = Holding /\ slowed' = (slowed /\ u # block_buffer_head)
      /\ block_buffer_planned' = IF t = block_buffer_planned THEN u ELSE block_buffer_planned
  <2>1. /\ block_buffer_tail' = u /\ slowed' = (slowed /\ u # block_buffer_head)
        /\ block_buffer_planned' = IF t = block_buffer_planned THEN u ELSE block_buffer_planned
    BY <1>2, <1>3 DEF plan_discard_current_block
  <2>2. Count' = n - 1
    <3>1. Count' = Span(u, Ahead(t, n))
      BY <1>2, <1>3, <2>1 DEF Count
    <3> QED
      BY <1>7, <3>1
  <2> QED
    BY <1>2, <2>1, <2>2 DEF Loading, Holding
<1>9. Empty' <=> n = 1
  <2>1. Span(u, u) = 0
    BY <1>5, <1>7 DEF Span, Index
  <2>2. n = 1 => u = Ahead(t, n)
    BY <1>3, <1>5 DEF plan_next_block_index, Ahead, Index
  <2>3. u = Ahead(t, n) => n - 1 = 0
    BY <1>7, <2>1
  <2> QED
    BY <1>2, <1>3, <1>5, <1>8, <2>2, <2>3 DEF Empty
<1>10. CASE n = 1
  BY <1>8, <1>9, <1>10, FreshPlanned
<1>11. CASE n # 1
  <2>1. /\ n - 1 \in 1..Size - 1 /\ n - 2 \in 0..n - 2 /\ 0 \in 0..n - 2 /\ 1 \in 1..n - 1
        /\ (n - 1) - 1 = n - 2 /\ n - 2 + 1 = n - 1 /\ 0 + 1 = 1 /\ 0 # n - 1
        /\ 1 \in 0..n - 1 /\ 1 \in 0..Size - 1
    BY <1>5, <1>11
  <2>2. slowed' = slowed
    BY <1>0, <1>2, <1>3, <1>8, <1>9, <1>11 DEF Empty, TypeOK
  <2>3. \A c : Nominal(c)' = Nominal(c) /\ Top(c)' = Top(c)
    BY <1>2 DEF Nominal, Top
  <2>4. \A k : Block(k)' = At(W, u, k)
    BY <1>6, <1>8 DEF Block, At
  <2>5. \A k : Nominal(Block(k))' = Nominal(At(W, u, k)) /\ Top(Block(k))' = Top(At(W, u, k))
    <3>1. \A k : /\ Nominal(Block(k))' = Nominal(At(W, u, k))'
                 /\ Top(Block(k))' = Top(At(W, u, k))'
      BY <2>4 DEF Nominal, Top
    <3> QED
      BY <2>3, <3>1
  <2>6. LimitInv'
    <3>1. previous_nominal_speed' = Nominal(Block(Count - 1))'
      <4>1. previous_nominal_speed = Nominal(At(A, t, n - 1))
        BY <1>0, <1>2, <1>3, LimitsNow DEF Running
      <4>2. At(W, u, n - 2) = At(A, t, n - 1)
        BY <1>7, <2>1
      <4> QED
        BY <1>2, <1>8, <2>1, <2>5, <4>1, <4>2
    <3>2. ASSUME ~slowed, NEW k \in 1..n - 2
          PROVE  /\ At(W, u, k).max_entry <= Top(At(W, u, k))
                 /\ At(W, u, k).max_entry <= Top(At(W, u, k - 1))
                 /\ At(W, u, k).max_entry <= At(W, u, k).max_junction
      <4>1. k \in 0..n - 2 /\ k - 1 \in 0..n - 2 /\ k + 1 \in 1..n - 1
            /\ (k + 1) - 1 = k /\ (k - 1) + 1 = k
        BY <1>5
      <4>2. At(W, u, k) = At(A, t, k + 1) /\ At(W, u, k - 1) = At(A, t, k)
        BY <1>7, <4>1
      <4>3. Limits(A, t, n)
        BY <1>0, <1>3, <3>2, LimitsNow
      <4>4. /\ At(A, t, k + 1).max_entry <= Top(At(A, t, k + 1))
            /\ At(A, t, k + 1).max_entry <= Top(At(A, t, (k + 1) - 1))
            /\ At(A, t, k + 1).max_entry <= At(A, t, k + 1).max_junction
        BY <4>1, <4>3 DEF Limits
      <4> QED
        BY <4>1, <4>2, <4>4
    <3> QED
      BY <1>8, <2>1, <2>2, <2>4, <2>5, <3>1, <3>2 DEF LimitInv
  <2>7. ASSUME ~slowed PROVE PlanInv'
    <3>1. PICK z, q : z = SpeedNow /\ q = Offset
      OBVIOUS
    <3>2. /\ Brakes(A, t, n, 1) /\ Exit = Out(A, t, n, 0)
      BY <1>2, <1>3, <2>7, HereNow DEF Running
    <3>3. ~Holding => Follows(A, t, n - 1, z) /\ Fastest(A, t, n, n - 1, z, q)
      BY <1>0, <1>3, <2>7, <3>1 DEF PlanInv
    <3>4. ASSUME NEW k \in 0..n - 2
          PROVE  /\ k + 1 \in 1..n - 1 /\ At(W, u, k) = At(A, t, k + 1)
                 /\ Out(W, u, n - 1, k) = Out(A, t, n, k + 1)
      <4>1. /\ k + 1 \in 1..n - 1
            /\ k = (n - 1) - 1 <=> k + 1 = n - 1
        BY <1>5
      <4>2. k # (n - 1) - 1 => k + 1 \in 0..n - 2
        BY <1>5
      <4> QED
        BY <1>7, <4>1, <4>2 DEF Out
    <3>5. Brakes(W, u, n - 1, 0)
      <4>1. ASSUME NEW k \in 0..(n - 1) - 1
            PROVE  /\ At(W, u, k).entry <= At(W, u, k).mm + Out(W, u, n - 1, k)
                   /\ At(W, u, k).entry <= At(W, u, k).max_entry
        <5>1. k \in 0..n - 2
          BY <2>1
        <5>2. k + 1 > 0 /\ k + 1 \in 1..n - 1
          BY <1>5, <5>1
        <5> QED
          BY <3>2, <3>4, <5>1, <5>2 DEF Brakes
      <4> QED
        BY <4>1 DEF Brakes
    <3>6. PICK e : e = At(A, t, 1).entry
      OBVIOUS
    <3>7. /\ Exit = e /\ At(W, u, 0) = At(A, t, 1) /\ Block(0)' = At(W, u, 0)
          /\ At(A, t, 1) \in BlockType
      BY <1>7, <2>1, <2>4, <3>2, <3>6, QueueTyped DEF Out
    <3>8. SpeedNow' = e
      BY <1>8, <3>6, <3>7 DEF SpeedNow, Loading
    <3>9. ASSUME ~Holding
          PROVE  /\ Follows(W, u, n - 2, e)
                 /\ Fastest(W, u, n - 1, n - 2, e, Offset')
      <4>1. ASSUME NEW k \in 1..n - 2, k = Offset' PROVE k + 1 = q
        <5>1. q \in 0..Size - 1 /\ Ahead(t, q) = block_buffer_planned
          BY <1>0, <1>3, <3>1, SpanLaw DEF Offset, TypeOK
        <5>2. CASE t = block_buffer_planned
          <6>1. Offset' = Span(u, u)
            BY <1>8, <5>2 DEF Offset
          <6>2. Span(u, u) = 0
            BY <1>5, <1>7 DEF Span, Index
          <6> QED
            BY <1>5, <4>1, <6>1, <6>2
        <5>3. CASE t # block_buffer_planned
          <6>1. q # 0
            BY <1>0, <1>3, <5>1, <5>3, QueueRing
          <6>2. Offset' = Span(u, Ahead(t, q))
            BY <1>8, <5>1, <5>3 DEF Offset
          <6>3. q \in 1..Size - 1
            BY <5>1, <6>1
          <6>4. Offset' = q - 1
            BY <1>7, <6>2, <6>3
          <6> QED
            BY <4>1, <6>3, <6>4
        <5> QED
          BY <5>2, <5>3
      <4>2. ASSUME NEW k \in 1..n - 2
            PROVE  /\ At(W, u, k).entry <= Ahead1(W, u, e, k) + At(W, u, k - 1).mm
                   /\ \/ At(W, u, k).entry = At(W, u, k).max_entry
                      \/ At(W, u, k).entry = Ahead1(W, u, e, k) + At(W, u, k - 1).mm
                      \/ /\ k # Offset'
                         /\ At(W, u, k).entry = At(W, u, k).mm + Out(W, u, n - 1, k)
        <5>1. k \in 0..n - 2 /\ k - 1 \in 0..n - 2 /\ k + 1 \in 1..n - 1
              /\ (k + 1) - 1 = k /\ (k - 1) + 1 = k /\ k + 1 # 1
          BY <1>5
        <5>2. /\ At(A, t, k + 1).entry <= Ahead1(A, t, z, k + 1) + At(A, t, (k + 1) - 1).mm
              /\ \/ At(A, t, k + 1).entry = At(A, t, k + 1).max_entry
                 \/ At(A, t, k + 1).entry = Ahead1(A, t, z, k + 1) + At(A, t, (k + 1) - 1).mm
                 \/ /\ k + 1 # q
                    /\ At(A, t, k + 1).entry = At(A, t, k + 1).mm + Out(A, t, n, k + 1)
          BY <3>3, <3>9, <5>1 DEF Follows, Fastest
        <5>3. /\ At(W, u, k) = At(A, t, k + 1) /\ At(W, u, k - 1) = At(A, t, k)
              /\ Out(W, u, n - 1, k) = Out(A, t, n, k + 1)
          BY <1>7, <3>4, <5>1
        <5>4. Ahead1(W, u, e, k) = Ahead1(A, t, z, k + 1)
          <6>1. Ahead1(A, t, z, k + 1) = At(A, t, k).entry
            BY <5>1 DEF Ahead1
          <6>2. CASE k = 1
            BY <3>6, <6>1, <6>2 DEF Ahead1
          <6>3. CASE k # 1
            BY <5>3, <6>1, <6>3 DEF Ahead1
          <6> QED
            BY <6>2, <6>3
        <5>5. k = Offset' => k + 1 = q
          BY <4>1
        <5> QED
          BY <5>1, <5>2, <5>3, <5>4, <5>5
      <4> QED
        BY <4>2 DEF Follows, Fastest
    <3>10. e <= Top(At(A, t, 1))
      <4>1. e <= At(A, t, 1).max_entry
        BY <2>1, <3>2, <3>6 DEF Brakes
      <4>2. At(A, t, 1).max_entry <= Top(At(A, t, 1))
        <5>1. Limits(A, t, n)
          BY <1>0, <1>3, <2>7, LimitsNow
        <5> QED
          BY <2>1, <5>1 DEF Limits
      <4>3. /\ e \in Nat /\ At(A, t, 1).max_entry \in Nat /\ Top(At(A, t, 1)) \in Nat
        BY <1>0, <3>6, <3>7, TopLaw DEF BlockType
      <4> QED
        BY <4>1, <4>2, <4>3
    <3>11. (~Holding => v' = e) /\ v' <= e
      <4>1. mm \in p.mm_complete..b.mm
        BY <1>2, <1>4
      <4>2. p.exit <= Exit /\ (~Holding => p.exit = Exit)
        BY <1>1, <1>2, <2>7, <4>1, SegmentNow
      <4> QED
        BY <1>4, <3>7, <4>2
    <3>12. Brakes(block_buffer', block_buffer_tail', Count', IF Loading' THEN 0 ELSE 1)
      BY <1>6, <1>8, <3>5
    <3>13. ~Holding' => /\ Follows(block_buffer', block_buffer_tail', Count' - 1, SpeedNow')
                        /\ Fastest(block_buffer', block_buffer_tail', Count', Count' - 1,
                                   SpeedNow', Offset')
      BY <1>6, <1>8, <2>1, <3>8, <3>9
    <3>14. /\ Block(0)'.entry = e /\ Top(Block(0))' = Top(At(A, t, 1))
      BY <2>5, <3>6, <3>7
    <3> QED
      BY <1>8, <3>10, <3>11, <3>12, <3>13, <3>14 DEF PlanInv
  <2>8. PlanInv'
    BY <2>2, <2>7 DEF PlanInv
  <2> QED
    BY <1>8, <2>6, <2>8 DEF PlanningInv, SmoothInv, ExitIsPlanned, Loading
<1> QED
  BY <1>10, <1>11

(* So does a step of something else.                                       *)
LEMMA StutterPlanned ==
  ASSUME PlannerInv, UNCHANGED vars
  PROVE  PlanningInv'
<1>1. /\ UNCHANGED <<queue, stepper, f_override, r_override, slowed>>
      /\ step_control' = step_control
  BY DEF vars, queue, stepper, ring
<1> QED
  BY <1>1, QuietPlanned DEF PlannerInv, PlanningInv, Holding, SystemMotion

-----------------------------------------------------------------------------
(* The steps together.                                                     *)

(* Every step keeps what is known of the plan,                             *)
LEMMA StepPlanning ==
  ASSUME PlannerInv, [Next]_vars
  PROVE  PlanningInv'
<1>1. ASSUME NEW m \in Motion, NEW j \in Junctions \cup {0}, plan_buffer_line(m, j)
      PROVE  PlanningInv'
  BY <1>1, LinePlanned
<1>2. ASSUME NEW mm \in 0..Max(Lengths \cup SystemLengths), PrepSegment(mm)
      PROVE  PlanningInv'
  <2>1. mm \in Nat
    OBVIOUS
  <2>2. CASE mm > 0 \/ SystemMotion
    BY <1>2, <2>1, <2>2, SegmentPlanned
  <2>3. CASE ~(mm > 0 \/ SystemMotion)
    <3>1. mm = 0 /\ ~SystemMotion
      BY <2>1, <2>3
    <3> QED
      BY <1>2, <2>1, <3>1, DiscardPlanned
  <2> QED
    BY <2>2, <2>3
<1>3. CASE PrepHoldEnd
  BY <1>3, HoldEndPlanned
<1>4. CASE FeedHold
  BY <1>4, FeedHoldPlanned
<1>5. CASE CycleStart
  BY <1>5, CycleStartPlanned
<1>6. CASE CycleStop
  BY <1>6, CycleStopPlanned
<1>7. ASSUME NEW c \in SUBSET Commands, ExecuteOverrides(c) PROVE PlanningInv'
  BY <1>7, OverridesPlanned
<1>8. CASE \/ EndSystemMotion \/ ProgramEnd \/ Reset
           \/ \E m \in SystemLengths : BeginSystemMotion(m)
  BY <1>8, FreshStartPlanned
<1>9. CASE UNCHANGED vars
  BY <1>9, StutterPlanned
<1> QED
  BY <1>1, <1>2, <1>3, <1>4, <1>5, <1>6, <1>7, <1>8, <1>9, Zenon DEF Next

(* and the invariant.                                                      *)
LEMMA StepPlanned ==
  ASSUME PlannerInv, [Next]_vars
  PROVE  PlannerInv'
<1>1. PlanningInv'
  BY StepPlanning
<1>2. SafeInv'
  BY StepSafe DEF PlannerInv
<1> QED
  BY <1>1, <1>2 DEF PlannerInv, PlanningInv

(* The controller starts with an empty plan.                               *)
LEMMA StartPlanned ==
  ASSUME Init
  PROVE  PlannerInv
<1>1. SafeInv
  BY StartSafe
<1>2. Empty /\ Loading /\ Count = 0
  BY PlannerAssumption DEF Init, Empty, Loading, Count, Span
<1>3. LimitInv
  BY <1>2 DEF LimitInv
<1>4. PlanInv
  <2>1. Brakes(block_buffer, block_buffer_tail, 0, 0)
    BY DEF Brakes
  <2>2. \A s : Follows(block_buffer, block_buffer_tail, 0 - 1, s)
    BY DEF Follows
  <2>3. \A s, p : Fastest(block_buffer, block_buffer_tail, 0, 0 - 1, s, p)
    BY DEF Fastest
  <2> QED
    BY <1>2, <2>1, <2>2, <2>3 DEF PlanInv
<1>5. SmoothInv /\ ExitIsPlanned
  BY <1>2 DEF SmoothInv, ExitIsPlanned, Loading
<1> QED
  BY <1>1, <1>3, <1>4, <1>5 DEF PlannerInv

(* The invariant of the planner: over new blocks, segments, holds,         *)
(* overrides and resets the queue stays planned as the code means it.      *)
THEOREM AlwaysPlanned == Spec => []PlannerInv
<1>1. Init => PlannerInv
  BY StartPlanned
<1>2. PlannerInv /\ [Next]_vars => PlannerInv'
  BY StepPlanned
<1> QED
  BY <1>1, <1>2, PTL DEF Spec

(* The exit speed st_prep_buffer has cached in its profile stays the one   *)
(* the planner has for the next block, though planner_recalculate runs in  *)
(* between.                                                                *)
THEOREM ExitAlwaysPlanned == Spec => []ExitIsPlanned
<1>1. PlannerInv => ExitIsPlanned
  BY DEF PlannerInv
<1> QED
  BY <1>1, AlwaysPlanned, PTL

-----------------------------------------------------------------------------
(* From one segment to the next.                                           *)

(* A segment changes the speed by no more than its length.                 *)
LEMMA SegmentGentle ==
  ASSUME PlannerInv, ~slowed, NEW mm \in Nat, PrepSegment(mm)
  PROVE  prep'.current - prep.current \in -Covered..Covered
<1>0. TypeOK /\ RingInv /\ StateInv /\ SpeedInv /\ LengthInv /\ ProfileInv
  BY DEF PlannerInv, SafeInv
<1>1. PICK b, p, s : b = Loaded /\ p = Planned /\ s = SpeedAt(p, b.mm, mm)
  OBVIOUS
<1>2. /\ Running /\ mm \in p.mm_complete..b.mm - 1
      /\ prep' = [p EXCEPT !.current = s]
      /\ block_buffer' = [block_buffer EXCEPT ![Work] =
                            IF mm = 0 /\ ~SystemMotion THEN FreeBlock
                            ELSE [b EXCEPT !.mm = mm]]
  BY <1>1 DEF PrepSegment
<1>3. PICK i \in Index : i = Work /\ b \in BlockType /\ p \in ProfileType
  BY <1>0, <1>1, <1>2, LoadedLaw, PlannedLaw
<1>4. /\ b.mm \in Nat /\ p.mm_complete \in Nat /\ p \in ProfileType
  BY <1>3 DEF BlockType, ProfileType
<1>5. mm \in p.mm_complete..b.mm /\ mm <= b.mm
  BY <1>2, <1>4
<1>6. /\ s \in Nat /\ v \in Nat /\ b.mm = Exec.mm
      /\ s <= v + (b.mm - mm) /\ v <= s + (b.mm - mm)
  BY <1>1, <1>2, <1>5, SegmentNow
<1>7. prep'.current = s
  BY <1>2, <1>3 DEF ProfileType
<1>8. block_buffer'[i].mm = mm
  <2>1. block_buffer'[i] = IF mm = 0 /\ ~SystemMotion THEN FreeBlock
                           ELSE [b EXCEPT !.mm = mm]
    BY <1>0, <1>2, <1>3 DEF TypeOK
  <2> QED
    BY <1>3, <2>1 DEF FreeBlock, BlockType
<1>9. Covered = b.mm - mm
  BY <1>3, <1>6, <1>8 DEF Covered, Exec
<1> QED
  BY <1>4, <1>5, <1>6, <1>7, <1>9 DEF v

(* A hold that ends where the last segment did does not change it.         *)
LEMMA HoldEndGentle ==
  ASSUME PlannerInv, ~slowed, PrepHoldEnd
  PROVE  prep'.current - prep.current \in -Covered..Covered
<1>0. TypeOK /\ RingInv /\ StateInv /\ SpeedInv /\ LengthInv /\ ProfileInv
  BY DEF PlannerInv, SafeInv
<1>1. PICK b, p, s : b = Loaded /\ p = Planned /\ s = SpeedAt(p, b.mm, b.mm)
  OBVIOUS
<1>2. /\ Running /\ p.mm_complete = b.mm
      /\ prep' = [p EXCEPT !.current = p.exit]
      /\ block_buffer' = [block_buffer EXCEPT ![Work] = b]
  BY <1>1 DEF PrepHoldEnd
<1>3. PICK i \in Index : i = Work /\ b \in BlockType /\ p \in ProfileType
  BY <1>0, <1>1, <1>2, LoadedLaw, PlannedLaw
<1>4. b.mm \in Nat /\ b.mm \in p.mm_complete..b.mm
  BY <1>2, <1>3 DEF BlockType
<1>5. /\ s \in Nat /\ v \in Nat /\ b.mm = Exec.mm
      /\ s <= v + (b.mm - b.mm) /\ v <= s + (b.mm - b.mm)
  BY <1>1, <1>2, <1>4, SegmentNow
<1>6. prep'.current = s
  BY <1>1, <1>2, <1>3 DEF ProfileType, SpeedAt
<1>7. block_buffer'[i] = b
  BY <1>0, <1>2, <1>3 DEF TypeOK
<1>8. Covered = 0
  BY <1>3, <1>4, <1>5, <1>7 DEF Covered, Exec
<1> QED
  BY <1>4, <1>5, <1>6, <1>8 DEF v

(* From one segment to the next, over junctions, holds and new plans, the  *)
(* speed changes by no more than the acceleration allows over the distance *)
(* covered (st_prep_buffer), while no override has been lowered.           *)
THEOREM NeverHarsh == Spec => NoHarshStep
<1>1. ASSUME PlannerInv, ~slowed, Segment
      PROVE  prep'.current - prep.current \in -Covered..Covered
  <2>1. CASE PrepHoldEnd
    BY <1>1, <2>1, HoldEndGentle
  <2>2. CASE \E mm \in 0..Max(Lengths \cup SystemLengths) : PrepSegment(mm)
    <3>1. PICK mm \in 0..Max(Lengths \cup SystemLengths) : PrepSegment(mm)
      BY <2>2
    <3>2. mm \in Nat
      OBVIOUS
    <3> QED
      BY <1>1, <3>1, <3>2, SegmentGentle
  <2> QED
    BY <1>1, <2>1, <2>2 DEF Segment
<1>2. PlannerInv /\ [Next]_vars
      => [~slowed /\ ~slowed' /\ Segment
            => prep'.current - prep.current \in -Covered..Covered]_vars
  BY <1>1
<1> QED
  BY <1>2, AlwaysPlanned, PTL DEF Spec, NoHarshStep

-----------------------------------------------------------------------------
(* The plan is the fastest: the speeds of a queue and its limits.          *)

(* The n blocks of a queue begin at S[0], S[1], ... and end at S[n]; the   *)
(* entry speeds e, from the speed e[0] now to e[n] = 0, can be accelerated *)
(* to, braked from, and are as fast as the limits M allow.                 *)
Fast(e, S, M, n) ==
  /\ \A k \in 0..n - 1 : S[k] < S[k + 1]
  /\ \A k \in 1..n - 1 :
       /\ e[k] <= e[k - 1] + (S[k] - S[k - 1])
       /\ e[k] <= e[k + 1] + (S[k + 1] - S[k])
       /\ e[k] <= M[k]
       /\ \/ e[k] = M[k]
          \/ e[k] = e[k - 1] + (S[k] - S[k - 1])
          \/ e[k] = e[k + 1] + (S[k + 1] - S[k])

(* What the speed at S[k] is bound by: the speed now or a limit before it, *)
(* or else the next block; then a limit after it or the end.               *)
LeftBound(e, S, M, k) ==
  \/ e[k] = e[0] + (S[k] - S[0])
  \/ \E j \in 1..k : e[k] = M[j] + (S[k] - S[j])
  \/ e[k] = e[k + 1] + (S[k + 1] - S[k])

RightBound(e, S, M, n, k) ==
  e[k] = e[k + 1] + (S[k + 1] - S[k]) =>
    \/ e[k] = e[n] + (S[n] - S[k])
    \/ \E j \in k..n - 1 : e[k] = M[j] + (S[j] - S[k])

(* From one place to a later one the speed rises by no more than the       *)
(* distance,                                                               *)
LEMMA RiseLaw ==
  ASSUME NEW n \in Nat, NEW e \in [0..n -> Nat], NEW S \in [0..n -> Nat], NEW M,
         Fast(e, S, M, n), NEW i \in 0..n - 1, NEW j \in i..n - 1
  PROVE  e[j] <= e[i] + (S[j] - S[i])
<1> DEFINE D == {m \in 0..(n - 1) - i : e[i + m] <= e[i] + (S[i + m] - S[i])}
<1>1. 0 \in D
  OBVIOUS
<1>2. ASSUME NEW m \in 0..((n - 1) - i) - 1, m \in D PROVE m + 1 \in D
  <2>1. /\ i + m \in 0..n /\ i + (m + 1) \in 1..n - 1 /\ (i + (m + 1)) - 1 = i + m
        /\ m + 1 \in 0..(n - 1) - i
    OBVIOUS
  <2>2. e[i + (m + 1)] <= e[i + m] + (S[i + (m + 1)] - S[i + m])
    BY <2>1 DEF Fast
  <2>3. /\ e[i] \in Nat /\ S[i] \in Nat /\ e[i + m] \in Nat /\ S[i + m] \in Nat
        /\ e[i + (m + 1)] \in Nat /\ S[i + (m + 1)] \in Nat
    BY <2>1
  <2>4. e[i + m] <= e[i] + (S[i + m] - S[i])
    BY <1>2
  <2>5. e[i + (m + 1)] <= e[i] + (S[i + (m + 1)] - S[i])
    BY <2>2, <2>3, <2>4, SMTT(30)
  <2> QED
    BY <2>1, <2>5
<1>3. 0..(n - 1) - i \subseteq D
  <2> HIDE DEF D
  <2>1. (n - 1) - i \in Nat
    OBVIOUS
  <2> QED
    BY <1>1, <1>2, <2>1, Upwards
<1>4. j - i \in 0..(n - 1) - i /\ i + (j - i) = j
  OBVIOUS
<1> QED
  BY <1>3, <1>4

(* and falls by no more.                                                   *)
LEMMA FallLaw ==
  ASSUME NEW n \in Nat, NEW e \in [0..n -> Nat], NEW S \in [0..n -> Nat], NEW M,
         Fast(e, S, M, n), NEW i \in 1..n, NEW j \in i..n
  PROVE  e[i] <= e[j] + (S[j] - S[i])
<1> DEFINE D == {m \in 0..n - i : e[i] <= e[i + m] + (S[i + m] - S[i])}
<1>1. 0 \in D
  OBVIOUS
<1>2. ASSUME NEW m \in 0..(n - i) - 1, m \in D PROVE m + 1 \in D
  <2>1. /\ i + m \in 1..n - 1 /\ (i + m) + 1 = i + (m + 1) /\ i + (m + 1) \in 0..n
        /\ m + 1 \in 0..n - i
    OBVIOUS
  <2>2. e[i + m] <= e[i + (m + 1)] + (S[i + (m + 1)] - S[i + m])
    BY <2>1 DEF Fast
  <2>3. /\ e[i] \in Nat /\ S[i] \in Nat /\ e[i + m] \in Nat /\ S[i + m] \in Nat
        /\ e[i + (m + 1)] \in Nat /\ S[i + (m + 1)] \in Nat
    BY <2>1
  <2>4. e[i] <= e[i + m] + (S[i + m] - S[i])
    BY <1>2
  <2>5. e[i] <= e[i + (m + 1)] + (S[i + (m + 1)] - S[i])
    BY <2>2, <2>3, <2>4, SMTT(30)
  <2> QED
    BY <2>1, <2>5
<1>3. 0..n - i \subseteq D
  <2> HIDE DEF D
  <2>1. n - i \in Nat
    OBVIOUS
  <2> QED
    BY <1>1, <1>2, <2>1, Upwards
<1>4. j - i \in 0..n - i /\ i + (j - i) = j
  OBVIOUS
<1> QED
  BY <1>3, <1>4

(* A speed is bound by the speed now, by a limit before it, or by the next *)
(* block,                                                                  *)
LEMMA LeftLimit ==
  ASSUME NEW n \in Nat, NEW e \in [0..n -> Nat], NEW S \in [0..n -> Nat], NEW M,
         Fast(e, S, M, n), NEW k \in 1..n - 1
  PROVE  LeftBound(e, S, M, k)
<1> USE DEF LeftBound
<1> DEFINE D == {i \in 0..k : e[k] = e[i] + (S[k] - S[i])}
<1>1. k \in D /\ D \in SUBSET Nat
  OBVIOUS
<1>2. PICK j \in D : \A i \in D : j <= i
  <2> HIDE DEF D
  <2> QED
    BY <1>1, LeastNumber
<1>3. j \in 0..k /\ e[k] = e[j] + (S[k] - S[j])
  BY <1>2
<1>4. CASE j = 0
  BY <1>3, <1>4
<1>5. CASE j # 0
  <2>1. j \in 1..n - 1 /\ j \in 1..k /\ j - 1 \in 0..k /\ j - 1 \in 0..n /\ j + 1 \in 0..n
        /\ j \in 0..n
    BY <1>3, <1>5
  <2>2. /\ e[j] \in Nat /\ S[j] \in Nat /\ e[j - 1] \in Nat /\ S[j - 1] \in Nat
        /\ e[j + 1] \in Nat /\ S[j + 1] \in Nat /\ e[k] \in Nat /\ S[k] \in Nat
    BY <2>1
  <2>3. \/ e[j] = M[j]
        \/ e[j] = e[j - 1] + (S[j] - S[j - 1])
        \/ e[j] = e[j + 1] + (S[j + 1] - S[j])
    BY <2>1 DEF Fast
  <2>4. e[j] # e[j - 1] + (S[j] - S[j - 1])
    <3>1. SUFFICES ASSUME e[j] = e[j - 1] + (S[j] - S[j - 1]) PROVE FALSE
      OBVIOUS
    <3>2. j - 1 \in D
      BY <1>3, <2>1, <2>2, <3>1, SMTT(30)
    <3>3. j <= j - 1
      BY <1>2, <3>2
    <3> QED
      BY <2>1, <3>3
  <2>5. e[j] = e[j + 1] + (S[j + 1] - S[j]) => j = k
    <3>1. SUFFICES ASSUME e[j] = e[j + 1] + (S[j + 1] - S[j]), j # k PROVE FALSE
      OBVIOUS
    <3>2. j + 1 \in 0..n - 1 /\ k \in j + 1..n - 1 /\ j \in 0..n - 1
      BY <2>1, <3>1
    <3>3. e[k] <= e[j + 1] + (S[k] - S[j + 1])
      BY <3>2, RiseLaw
    <3>4. S[j] < S[j + 1]
      BY <3>2 DEF Fast
    <3> QED
      BY <1>3, <2>2, <3>1, <3>3, <3>4, SMTT(30)
  <2>6. CASE e[j] = M[j]
    BY <1>3, <2>1, <2>6
  <2>7. CASE j = k /\ e[j] = e[j + 1] + (S[j + 1] - S[j])
    BY <2>7
  <2> QED
    BY <2>3, <2>4, <2>5, <2>6, <2>7
<1> QED
  BY <1>4, <1>5

(* and in that case by a limit behind it or by the end.                    *)
LEMMA RightLimit ==
  ASSUME NEW n \in Nat, NEW e \in [0..n -> Nat], NEW S \in [0..n -> Nat], NEW M,
         Fast(e, S, M, n), NEW k \in 1..n - 1
  PROVE  RightBound(e, S, M, n, k)
<1> DEFINE D == {m \in 0..n : m <= n - k /\ e[k] = e[n - m] + (S[n - m] - S[k])}
<1>0. SUFFICES ASSUME e[k] = e[k + 1] + (S[k + 1] - S[k])
               PROVE  \/ e[k] = e[n] + (S[n] - S[k])
                      \/ \E j \in k..n - 1 : e[k] = M[j] + (S[j] - S[k])
  BY DEF RightBound
<1>1. n - (k + 1) \in D /\ D \in SUBSET Nat
  <2>1. n - (n - (k + 1)) = k + 1
    OBVIOUS
  <2> QED
    BY <1>0, <2>1
<1>2. PICK m \in D : \A i \in D : m <= i
  <2> HIDE DEF D
  <2> QED
    BY <1>1, LeastNumber
<1>3. m \in Nat /\ m <= n - (k + 1) /\ e[k] = e[n - m] + (S[n - m] - S[k])
  <2>1. m \in D /\ m <= n - (k + 1)
    BY <1>1, <1>2
  <2> QED
    BY <2>1
<1>4. PICK j \in k + 1..n : j = n - m /\ m = n - j
  BY <1>3
<1>5. e[k] = e[j] + (S[j] - S[k])
  BY <1>3, <1>4
<1>6. CASE j = n
  BY <1>5, <1>6
<1>7. CASE j # n
  <2>1. j \in 1..n - 1 /\ j \in k..n - 1 /\ j - 1 \in 0..n /\ j + 1 \in 0..n
        /\ j \in 0..n /\ k \in 0..n
    BY <1>4, <1>7
  <2>2. /\ e[j] \in Nat /\ S[j] \in Nat /\ e[j - 1] \in Nat /\ S[j - 1] \in Nat
        /\ e[j + 1] \in Nat /\ S[j + 1] \in Nat /\ e[k] \in Nat /\ S[k] \in Nat
    BY <2>1
  <2>3. \/ e[j] = M[j]
        \/ e[j] = e[j - 1] + (S[j] - S[j - 1])
        \/ e[j] = e[j + 1] + (S[j + 1] - S[j])
    BY <2>1 DEF Fast
  <2>4. e[j] # e[j + 1] + (S[j + 1] - S[j])
    <3>1. SUFFICES ASSUME e[j] = e[j + 1] + (S[j + 1] - S[j]) PROVE FALSE
      OBVIOUS
    <3>2. m - 1 \in 0..n /\ m - 1 <= n - k /\ n - (m - 1) = j + 1
      BY <1>4, <1>7
    <3>3. e[k] = e[j + 1] + (S[j + 1] - S[k])
      BY <1>5, <2>2, <3>1, SMTT(60)
    <3>4. m - 1 \in D
      BY <3>2, <3>3
    <3>5. m <= m - 1
      BY <1>2, <3>4
    <3> QED
      BY <1>4, <3>5
  <2>5. e[j] # e[j - 1] + (S[j] - S[j - 1])
    <3>1. SUFFICES ASSUME e[j] = e[j - 1] + (S[j] - S[j - 1]) PROVE FALSE
      OBVIOUS
    <3>2. k \in 1..n /\ j - 1 \in k..n /\ j - 1 \in 0..n - 1 /\ (j - 1) + 1 = j
      BY <1>4, <2>1
    <3>3. e[k] <= e[j - 1] + (S[j - 1] - S[k])
      BY <3>2, FallLaw
    <3>4. S[j - 1] < S[j]
      BY <3>2 DEF Fast
    <3> QED
      BY <1>5, <2>2, <3>1, <3>3, <3>4, SMTT(30)
  <2>6. e[j] = M[j]
    BY <2>3, <2>4, <2>5
  <2> QED
    BY <1>5, <2>1, <2>6
<1> QED
  BY <1>6, <1>7

(* The least of a set of integers.                                         *)
LEMMA LeastElement ==
  ASSUME NEW L \in SUBSET Int, NEW x \in L, \A y \in L : x <= y
  PROVE  Min(L) = x
<1>1. Min(L) \in L /\ \A y \in L : Min(L) <= y
  BY DEF Min
<1>2. Min(L) <= x /\ x <= Min(L) /\ Min(L) \in Int /\ x \in Int
  BY <1>1
<1> QED
  BY <1>2

-----------------------------------------------------------------------------
(* The fastest plan of the queue.                                          *)

(* S is where the blocks of the queue B begin, and where it ends.          *)
Places(B, t, n, S) ==
  \A k \in 0..n - 1 : S[k] < S[k + 1] /\ S[k + 1] = S[k] + At(B, t, k).mm

(* e and M are the entry speeds and limits of the n blocks of B, z the     *)
(* speed now.                                                              *)
Speeds(B, t, n, z, e, M) ==
  /\ e[0] = z /\ e[n] = 0
  /\ \A k \in 1..n - 1 : e[k] = At(B, t, k).entry /\ M[k] = At(B, t, k).max_entry

(* What bounds the speed at S[k].                                          *)
Bounds(e, S, M, n, k) ==
  {M[j] + (IF j < k THEN S[k] - S[j] ELSE S[j] - S[k]) : j \in 1..n - 1}
  \cup {S[n] - S[k], e[0] + (S[k] - S[0])}

(* The k-th speed is the least of what bounds it.                          *)
Least(e, S, M, n, k) == e[k] = Min(Bounds(e, S, M, n, k))

(* The places of the queue are solutions of their recursion, and rise from *)
(* zero.                                                                   *)
LEMMA StartLaw ==
  ASSUME SafeInv, ~Empty, NEW n \in 1..Size - 1, n = Count
  PROVE  /\ Start \in [0..n -> Nat] /\ Start[0] = 0
         /\ \A k \in 0..n - 1 : Start[k] < Start[k + 1]
         /\ \A k \in 0..n - 1 : Start[k + 1] = Start[k] + Block(k).mm
<1>1. PICK B \in [Index -> BlockType], t \in Index, T \in [0..n -> Nat] :
        /\ \A k : Block(k) = At(B, t, k)
        /\ Distance(B, t, n, T) /\ Lengthy(B, t, n)
  <2>1. ~SystemMotion
    BY DEF SafeInv, StateInv
  <2>2. PICK T \in [0..Count -> Nat] : Stops(T)
    BY <2>1 DEF SafeInv, EndInv
  <2>3. Distance(block_buffer, block_buffer_tail, Count, T)
    BY <2>2 DEF Stops
  <2>4. /\ block_buffer \in [Index -> BlockType] /\ block_buffer_tail \in Index
        /\ Lengthy(block_buffer, block_buffer_tail, Count)
    BY QueueRing DEF SafeInv, LengthInv
  <2>5. \A k : Block(k) = At(block_buffer, block_buffer_tail, k)
    BY BlockIs
  <2> QED
    BY <2>3, <2>4, <2>5
<1>2. PICK d \in [0..n - 1 -> Nat] : \A k \in 0..n - 1 : d[k] = Block(k).mm /\ d[k] > 0
  <2>1. \A k \in 0..n - 1 : At(B, t, k).mm \in Nat /\ At(B, t, k).mm > 0
    <3> TAKE k \in 0..n - 1
    <3>1. k \in 0..Size - 1
      BY PlannerAssumption
    <3> QED
      BY <1>1, <3>1, QueueTyped DEF Lengthy
  <2>2. [k \in 0..n - 1 |-> At(B, t, k).mm] \in [0..n - 1 -> Nat]
    BY <2>1
  <2> QED
    BY <1>1, <2>1, <2>2
<1>3. \A k \in 0..n - 1 : T[k] = T[k + 1] + d[k]
  BY <1>1, <1>2 DEF Distance
<1> DEFINE Body(f, k) == IF k = 0 THEN 0 ELSE f[k - 1] + d[k - 1]
<1>4. \A f : f = [k \in 0..n |-> Body(f, k)]
             <=> f = [k \in 0..n |-> IF k = 0 THEN 0 ELSE f[k - 1] + Block(k - 1).mm]
  <2>1. ASSUME NEW f
        PROVE  [k \in 0..n |-> Body(f, k)]
                 = [k \in 0..n |-> IF k = 0 THEN 0 ELSE f[k - 1] + Block(k - 1).mm]
    <3>1. ASSUME NEW k \in 0..n
          PROVE  Body(f, k) = IF k = 0 THEN 0 ELSE f[k - 1] + Block(k - 1).mm
      <4>1. k # 0 => k - 1 \in 0..n - 1
        OBVIOUS
      <4> QED
        BY <1>2, <4>1
    <3> QED
      BY <3>1, Zenon
  <2> HIDE DEF Body
  <2> QED
    BY <2>1, Zenon
<1>5. \E f : f = [k \in 0..n |-> Body(f, k)]
  <2> DEFINE f == [k \in 0..n |-> T[0] - T[k]]
  <2>1. ASSUME NEW k \in 0..n PROVE f[k] = Body(f, k)
    <3>1. CASE k = 0
      BY <3>1
    <3>2. CASE k # 0
      <4>1. k - 1 \in 0..n - 1 /\ (k - 1) + 1 = k /\ k - 1 \in 0..n
        BY <3>2
      <4>2. T[k - 1] = T[k] + d[k - 1]
        BY <1>3, <4>1
      <4>3. /\ f[k - 1] = T[0] - T[k - 1] /\ f[k] = T[0] - T[k]
            /\ T[0] \in Nat /\ T[k] \in Nat /\ T[k - 1] \in Nat /\ d[k - 1] \in Nat
        BY <4>1
      <4>4. f[k] = f[k - 1] + d[k - 1]
        <5>1. PICK x, y, z, c \in Nat : /\ x = T[0] /\ y = T[k] /\ z = T[k - 1]
                                       /\ c = d[k - 1]
          BY <4>3
        <5>2. z = y + c
          BY <4>2, <5>1
        <5>3. x - y = (x - z) + c
          BY <5>2
        <5> HIDE DEF f
        <5> QED
          BY <4>3, <5>1, <5>3, Zenon
      <4> QED
        BY <3>2, <4>4
    <3> QED
      BY <3>1, <3>2
  <2>2. f = [k \in 0..n |-> f[k]]
    OBVIOUS
  <2> HIDE DEF f, Body
  <2>3. f = [k \in 0..n |-> Body(f, k)]
    BY <2>1, <2>2
  <2> QED
    BY <2>3
<1>6. PICK S : S = Start
  OBVIOUS
<1>7. S = [k \in 0..n |-> Body(S, k)]
  <2> HIDE DEF Body
  <2>1. \E f : f = [k \in 0..n |-> IF k = 0 THEN 0 ELSE f[k - 1] + Block(k - 1).mm]
    BY <1>4, <1>5, ZenonT(60)
  <2>2. Start = CHOOSE f : f = [k \in 0..n |-> IF k = 0 THEN 0
                                               ELSE f[k - 1] + Block(k - 1).mm]
    BY Zenon DEF Start
  <2>3. S = [k \in 0..n |-> IF k = 0 THEN 0 ELSE S[k - 1] + Block(k - 1).mm]
    BY <1>6, <2>1, <2>2, Zenon
  <2> QED
    BY <1>4, <2>3, Zenon
<1>8. \A k \in 0..n : S[k] = IF k = 0 THEN 0 ELSE S[k - 1] + d[k - 1]
  BY <1>7
<1>9. S[0] = 0 /\ \A k \in 0..n - 1 : S[k + 1] = S[k] + d[k]
  <2>1. 0 \in 0..n
    OBVIOUS
  <2>2. ASSUME NEW k \in 0..n - 1 PROVE S[k + 1] = S[k] + d[k]
    <3>1. k + 1 \in 0..n /\ (k + 1) - 1 = k /\ k + 1 # 0
      OBVIOUS
    <3> QED
      BY <1>8, <3>1
  <2> QED
    BY <1>8, <2>1, <2>2
<1>10. \A k \in 0..n : S[k] \in Nat
  <2> DEFINE D == {k \in 0..n : S[k] \in Nat}
  <2>1. 0 \in D
    BY <1>9
  <2>2. ASSUME NEW k \in 0..n - 1, k \in D PROVE k + 1 \in D
    <3>1. S[k] \in Nat /\ d[k] \in Nat /\ k + 1 \in 0..n
      BY <2>2
    <3>2. PICK x, c \in Nat : x = S[k] /\ c = d[k]
      BY <3>1
    <3>3. S[k + 1] = x + c
      BY <1>9, <3>2
    <3>4. S[k + 1] \in Nat
      BY <3>3
    <3> QED
      BY <3>1, <3>4
  <2> HIDE DEF D
  <2>3. 0..n \subseteq D
    <3>1. n \in Nat
      OBVIOUS
    <3> QED
      BY <2>1, <2>2, <3>1, Upwards
  <2> QED
    BY <2>3 DEF D
<1>11. S \in [0..n -> Nat]
  <2> HIDE DEF Body
  <2> QED
    BY <1>7, <1>10
<1>12. \A k \in 0..n - 1 : S[k] < S[k + 1] /\ S[k + 1] = S[k] + Block(k).mm
  <2> TAKE k \in 0..n - 1
  <2>1. S[k] \in Nat /\ d[k] \in Nat /\ d[k] > 0 /\ S[k + 1] = S[k] + d[k]
    BY <1>2, <1>9, <1>10
  <2>2. d[k] = Block(k).mm
    BY <1>2
  <2>3. S[k] < S[k + 1]
    BY <2>1
  <2> QED
    BY <2>1, <2>2, <2>3
<1> QED
  BY <1>6, <1>9, <1>11, <1>12

(* A queue that is well planned is such a queue of speeds and limits,      *)
LEMMA FastQueue ==
  ASSUME NEW n \in 1..Size - 1, NEW B \in [Index -> BlockType], NEW t \in Index,
         NEW z \in Nat, NEW q, Brakes(B, t, n, 1), Follows(B, t, n - 1, z),
         Fastest(B, t, n, n - 1, z, q), NEW S \in [0..n -> Nat],
         Places(B, t, n, S)
  PROVE  \E e \in [0..n -> Nat], M \in [0..n -> Nat] :
           Speeds(B, t, n, z, e, M) /\ Fast(e, S, M, n)
<1>3. \A k \in 0..n - 1 : /\ At(B, t, k).entry \in Nat /\ At(B, t, k).mm \in Nat
                          /\ At(B, t, k).max_entry \in Nat
  <2> TAKE k \in 0..n - 1
  <2>1. k \in 0..Size - 1
    BY PlannerAssumption
  <2> QED
    BY <2>1, QueueTyped
<1>4. PICK e \in [0..n -> Nat], M \in [0..n -> Nat] :
        /\ e[0] = z /\ e[n] = 0
        /\ \A k \in 1..n - 1 : e[k] = At(B, t, k).entry /\ M[k] = At(B, t, k).max_entry
  <2> DEFINE f == [k \in 0..n |-> IF k = 0 THEN z ELSE IF k = n THEN 0
                                  ELSE At(B, t, k).entry]
             N == [k \in 0..n |-> IF k = n THEN 0 ELSE At(B, t, k).max_entry]
  <2>1. f \in [0..n -> Nat]
    <3>1. ASSUME NEW k \in 0..n
          PROVE  (IF k = 0 THEN z ELSE IF k = n THEN 0 ELSE At(B, t, k).entry) \in Nat
      <4>1. k # n => k \in 0..n - 1
        OBVIOUS
      <4> QED
        BY <1>3, <4>1
    <3> QED
      BY <3>1
  <2>2. N \in [0..n -> Nat]
    <3>1. ASSUME NEW k \in 0..n
          PROVE  (IF k = n THEN 0 ELSE At(B, t, k).max_entry) \in Nat
      <4>1. k # n => k \in 0..n - 1
        OBVIOUS
      <4> QED
        BY <1>3, <4>1
    <3> QED
      BY <3>1
  <2>3. f[0] = z /\ f[n] = 0
    OBVIOUS
  <2>4. ASSUME NEW k \in 1..n - 1
        PROVE  f[k] = At(B, t, k).entry /\ N[k] = At(B, t, k).max_entry
    <3>1. k \in 0..n /\ k # 0 /\ k # n
      OBVIOUS
    <3> QED
      BY <3>1
  <2> HIDE DEF f, N
  <2>5. \A k \in 1..n - 1 : f[k] = At(B, t, k).entry /\ N[k] = At(B, t, k).max_entry
    BY <2>4
  <2> QED
    BY <2>1, <2>2, <2>3, <2>5, Zenon
<1>5. ASSUME NEW k \in 1..n - 1
      PROVE  /\ e[k] <= e[k - 1] + (S[k] - S[k - 1])
             /\ e[k] <= e[k + 1] + (S[k + 1] - S[k])
             /\ e[k] <= M[k]
             /\ \/ e[k] = M[k]
                \/ e[k] = e[k - 1] + (S[k] - S[k - 1])
                \/ e[k] = e[k + 1] + (S[k + 1] - S[k])
  <2>1. k - 1 \in 0..n - 1 /\ (k - 1) + 1 = k /\ k \in 0..n - 1 /\ k + 1 \in 0..n
        /\ k > 0 /\ (k # 1 => k - 1 \in 1..n - 1) /\ (k = 1 => k - 1 = 0)
        /\ (k = n - 1 => k + 1 = n) /\ (k # n - 1 => k + 1 \in 1..n - 1)
    OBVIOUS
  <2>2. e[k - 1] = Ahead1(B, t, z, k) /\ e[k + 1] = Out(B, t, n, k)
    BY <1>4, <2>1 DEF Ahead1, Out
  <2>3. S[k] = S[k - 1] + At(B, t, k - 1).mm /\ S[k + 1] = S[k] + At(B, t, k).mm
    BY <2>1 DEF Places
  <2>4. S[k] - S[k - 1] = At(B, t, k - 1).mm /\ S[k + 1] - S[k] = At(B, t, k).mm
    <3>1. /\ S[k] \in Nat /\ S[k - 1] \in Nat /\ S[k + 1] \in Nat
          /\ At(B, t, k - 1).mm \in Nat /\ At(B, t, k).mm \in Nat
      <4>1. k \in 0..n /\ k - 1 \in 0..n
        BY <2>1
      <4> QED
        BY <1>3, <2>1, <4>1
    <3>2. PICK x, y, w \in Nat, c, d \in Nat :
            /\ x = S[k - 1] /\ y = S[k] /\ w = S[k + 1]
            /\ c = At(B, t, k - 1).mm /\ d = At(B, t, k).mm
      BY <3>1
    <3>3. y = x + c /\ w = y + d
      BY <2>3, <3>2
    <3>4. y - x = c /\ w - y = d
      BY <3>3
    <3> QED
      BY <3>2, <3>4
  <2>5. At(B, t, k).entry <= Ahead1(B, t, z, k) + At(B, t, k - 1).mm
    BY DEF Follows
  <2>6. /\ At(B, t, k).entry <= At(B, t, k).mm + Out(B, t, n, k)
        /\ At(B, t, k).entry <= At(B, t, k).max_entry
    BY <2>1 DEF Brakes
  <2>7. \/ At(B, t, k).entry = At(B, t, k).max_entry
        \/ At(B, t, k).entry = Ahead1(B, t, z, k) + At(B, t, k - 1).mm
        \/ At(B, t, k).entry = At(B, t, k).mm + Out(B, t, n, k)
    BY DEF Fastest
  <2>8. e[k] = At(B, t, k).entry /\ M[k] = At(B, t, k).max_entry
    BY <1>4
  <2>9. At(B, t, k).mm + Out(B, t, n, k) = Out(B, t, n, k) + At(B, t, k).mm
    <3>1. At(B, t, k).mm \in Nat /\ Out(B, t, n, k) \in Nat
      BY <1>3, <1>4, <2>1, <2>2
    <3>2. PICK x, y \in Nat : x = At(B, t, k).mm /\ y = Out(B, t, n, k)
      BY <3>1
    <3>3. x + y = y + x
      OBVIOUS
    <3> QED
      BY <3>2, <3>3, Zenon
  <2>10. /\ e[k] <= e[k - 1] + (S[k] - S[k - 1])
         /\ e[k] <= e[k + 1] + (S[k + 1] - S[k])
         /\ e[k] <= M[k]
    <3>1. e[k] <= e[k - 1] + (S[k] - S[k - 1])
      BY <2>2, <2>4, <2>5, <2>8, Zenon
    <3>2. e[k] <= e[k + 1] + (S[k + 1] - S[k])
      <4>1. At(B, t, k).entry <= Out(B, t, n, k) + At(B, t, k).mm
        BY <2>6, <2>9, Zenon
      <4> QED
        BY <2>2, <2>4, <2>8, <4>1, Zenon
    <3>3. e[k] <= M[k]
      BY <2>6, <2>8, Zenon
    <3> QED
      BY <3>1, <3>2, <3>3
  <2>11. CASE At(B, t, k).entry = At(B, t, k).max_entry
    BY <2>8, <2>10, <2>11, Zenon
  <2>12. CASE At(B, t, k).entry = Ahead1(B, t, z, k) + At(B, t, k - 1).mm
    <3>1. e[k] = e[k - 1] + (S[k] - S[k - 1])
      BY <2>2, <2>4, <2>8, <2>12, Zenon
    <3> QED
      BY <2>10, <3>1, Zenon
  <2>13. CASE At(B, t, k).entry = At(B, t, k).mm + Out(B, t, n, k)
    <3>1. e[k] = e[k + 1] + (S[k + 1] - S[k])
      BY <2>2, <2>4, <2>8, <2>9, <2>13, Zenon
    <3> QED
      BY <2>10, <3>1, Zenon
  <2> QED
    BY <2>7, <2>11, <2>12, <2>13, Zenon
<1>6. Fast(e, S, M, n)
  BY <1>5 DEF Fast, Places
<1> QED
  BY <1>4, <1>6 DEF Speeds

(* and the queue of the planner is one while no override has been lowered. *)
LEMMA FastNow ==
  ASSUME PlannerInv, ~slowed, ~Holding, ~Empty, NEW n \in 1..Size - 1, n = Count
  PROVE  \E e \in [0..n -> Nat], M \in [0..n -> Nat] :
           /\ e[0] = SpeedNow /\ e[n] = 0
           /\ \A k \in 1..n - 1 : e[k] = Block(k).entry /\ M[k] = Block(k).max_entry
           /\ Fast(e, Start, M, n)
<1> USE DEF PlannerInv
<1>0. TypeOK /\ SafeInv /\ PlanInv
  BY DEF SafeInv
<1>1. PICK B \in [Index -> BlockType], t \in Index, z \in Nat, q \in {Offset} :
        /\ \A k : Block(k) = At(B, t, k)
        /\ z = SpeedNow /\ q = Offset
        /\ Brakes(B, t, n, 1)
        /\ Follows(B, t, n - 1, z) /\ Fastest(B, t, n, n - 1, z, q)
  <2>1. /\ block_buffer \in [Index -> BlockType] /\ block_buffer_tail \in Index
        /\ \A k : Block(k) = At(block_buffer, block_buffer_tail, k)
    BY <1>0, QueueRing
  <2>2. Block(0).entry \in Nat /\ prep.current \in Nat
    <3>1. 0 \in 0..Size - 1
      BY PlannerAssumption
    <3>2. Block(0).entry \in Nat
      BY <2>1, <3>1, QueueTyped
    <3> QED
      BY <1>0, <3>2 DEF TypeOK
  <2>3. SpeedNow \in Nat
    BY <2>2 DEF SpeedNow
  <2>4. Brakes(block_buffer, block_buffer_tail, n, 1)
    <3>1. \E lo \in 0..1 : Brakes(block_buffer, block_buffer_tail, n, lo)
      BY <1>0 DEF PlanInv
    <3> QED
      BY <3>1 DEF Brakes
  <2> QED
    BY <1>0, <2>1, <2>3, <2>4 DEF PlanInv
<1>2. PICK S \in [0..n -> Nat] :
        /\ S = Start
        /\ Places(B, t, n, S)
  <2>1. /\ Start \in [0..n -> Nat]
        /\ \A k \in 0..n - 1 : Start[k] < Start[k + 1]
        /\ \A k \in 0..n - 1 : Start[k + 1] = Start[k] + Block(k).mm
    BY <1>0, StartLaw
  <2> QED
    BY <1>1, <2>1 DEF Places
<1>3. PICK e \in [0..n -> Nat], M \in [0..n -> Nat] :
        Speeds(B, t, n, z, e, M) /\ Fast(e, S, M, n)
  BY <1>1, <1>2, FastQueue
<1> QED
  BY <1>1, <1>2, <1>3 DEF Speeds

(* The speed at each place is the least of what bounds it: no plan is      *)
(* faster.                                                                 *)
LEMMA FastestLimit ==
  ASSUME NEW n \in Nat, NEW e \in [0..n -> Nat], NEW S \in [0..n -> Nat],
         NEW M \in [0..n -> Nat], Fast(e, S, M, n) /\ e[n] = 0, NEW k \in 1..n - 1
  PROVE  Least(e, S, M, n, k)
<1>10. \A i \in 0..n - 1 : \A j \in i..n - 1 : e[j] <= e[i] + (S[j] - S[i])
  BY RiseLaw
<1>11. \A i \in 1..n : \A j \in i..n : e[i] <= e[j] + (S[j] - S[i])
  BY FallLaw
<1>12. \/ e[k] = e[0] + (S[k] - S[0])
       \/ \E j \in 1..k : e[k] = M[j] + (S[k] - S[j])
       \/ e[k] = e[k + 1] + (S[k + 1] - S[k])
  <2>1. LeftBound(e, S, M, k)
    BY LeftLimit
  <2> QED
    BY <2>1 DEF LeftBound
<1>13. \/ e[k] # e[k + 1] + (S[k + 1] - S[k])
       \/ e[k] = e[n] + (S[n] - S[k])
       \/ \E j \in k..n - 1 : e[k] = M[j] + (S[j] - S[k])
  <2>1. RightBound(e, S, M, n, k)
    BY RightLimit
  <2> QED
    BY <2>1 DEF RightBound
<1> DEFINE Between(j) == IF j < k THEN S[k] - S[j] ELSE S[j] - S[k]
           L == {M[j] + Between(j) : j \in 1..n - 1}
                \cup {S[n] - S[k], e[0] + (S[k] - S[0])}
<1>4. \A j \in 0..n : e[j] \in Nat /\ S[j] \in Nat /\ M[j] \in Nat
  OBVIOUS
<1>5. k \in 0..n /\ k \in 0..n - 1 /\ 0 \in 0..n /\ n \in 0..n
  OBVIOUS
<1>6. L \in SUBSET Int
  <2>1. ASSUME NEW j \in 1..n - 1 PROVE M[j] + Between(j) \in Int
    BY <1>4, <1>5
  <2>2. S[n] - S[k] \in Int /\ e[0] + (S[k] - S[0]) \in Int
    BY <1>4, <1>5
  <2> QED
    BY <2>1, <2>2
<1>7. ASSUME NEW y \in L PROVE e[k] <= y
  <2>1. CASE y = S[n] - S[k]
    <3>1. e[k] <= e[n] + (S[n] - S[k])
      <4>1. k \in 1..n /\ n \in k..n
        OBVIOUS
      <4> QED
        BY <1>11, <4>1
    <3> QED
      BY <1>4, <1>5, <2>1, <3>1
  <2>2. CASE y = e[0] + (S[k] - S[0])
    <3>1. e[k] <= e[0] + (S[k] - S[0])
      <4>1. 0 \in 0..n - 1 /\ k \in 0..n - 1
        OBVIOUS
      <4> QED
        BY <1>10, <4>1
    <3> QED
      BY <2>2, <3>1
  <2>3. ASSUME NEW j \in 1..n - 1, y = M[j] + Between(j) PROVE e[k] <= y
    <3>1. e[j] <= M[j] /\ j \in 0..n
      BY DEF Fast
    <3>2. CASE j < k
      <4>1. e[k] <= e[j] + (S[k] - S[j])
        <5>1. j \in 0..n - 1 /\ k \in j..n - 1
          BY <3>2
        <5> QED
          BY <1>10, <5>1
      <4> QED
        BY <1>4, <1>5, <2>3, <3>1, <3>2, <4>1
    <3>3. CASE ~(j < k)
      <4>1. e[k] <= e[j] + (S[j] - S[k])
        <5>1. k \in 1..n /\ j \in k..n
          BY <3>3
        <5> QED
          BY <1>11, <5>1
      <4> QED
        <5>1. Between(j) = S[j] - S[k]
          BY <3>3
        <5>2. /\ e[k] \in Nat /\ e[j] \in Nat /\ M[j] \in Nat /\ S[j] \in Nat
              /\ S[k] \in Nat
          BY <1>4, <1>5, <3>1
        <5> HIDE DEF Between, L
        <5> QED
          BY <2>3, <3>1, <4>1, <5>1, <5>2
    <3> QED
      BY <3>2, <3>3
  <2> QED
    BY <2>1, <2>2, <2>3
<1>8. e[k] \in L
  <2>1. CASE e[k] = e[0] + (S[k] - S[0])
    BY <2>1
  <2>2. CASE \E j \in 1..k : e[k] = M[j] + (S[k] - S[j])
    <3>1. PICK j \in 1..k : e[k] = M[j] + (S[k] - S[j])
      BY <2>2
    <3>2. j \in 1..n - 1
      OBVIOUS
    <3>3. Between(j) = S[k] - S[j]
      BY <1>4, <1>5
    <3> QED
      BY <3>1, <3>2, <3>3
  <2>3. CASE e[k] = e[k + 1] + (S[k + 1] - S[k])
    <3>1. \/ e[k] = e[n] + (S[n] - S[k])
          \/ \E j \in k..n - 1 : e[k] = M[j] + (S[j] - S[k])
      BY <1>13, <2>3
    <3>2. CASE e[k] = e[n] + (S[n] - S[k])
      BY <1>4, <1>5, <3>2
    <3>3. CASE \E j \in k..n - 1 : e[k] = M[j] + (S[j] - S[k])
      <4>1. PICK j \in k..n - 1 : e[k] = M[j] + (S[j] - S[k])
        BY <3>3
      <4>2. j \in 1..n - 1 /\ Between(j) = S[j] - S[k]
        OBVIOUS
      <4> QED
        BY <4>1, <4>2
    <3> QED
      BY <3>1, <3>2, <3>3
  <2> QED
    BY <1>12, <2>1, <2>2, <2>3
<1> HIDE DEF L
<1>15. L = Bounds(e, S, M, n, k)
  BY DEF L, Bounds
<1>14. Min(L) = e[k]
  BY <1>6, <1>7, <1>8, LeastElement
<1> QED
  BY <1>14, <1>15 DEF Least

(* So the entry speed of each block is the fastest there is.               *)
LEMMA OptimalNow ==
  ASSUME PlannerInv, ~slowed, ~Holding, ~Empty, Count \in 1..Size - 1,
         NEW k \in 1..Count - 1
  PROVE  Block(k).entry = Optimal(k)
<1>16. PICK n \in Nat : n \in 1..Size - 1 /\ n = Count /\ k \in 1..n - 1
  OBVIOUS
<1>1. Start \in [0..n -> Nat]
  BY <1>16, StartLaw DEF PlannerInv
<1>2. PICK e \in [0..n -> Nat], S \in [0..n -> Nat], M \in [0..n -> Nat] :
        /\ S = Start
        /\ e[0] = SpeedNow /\ e[n] = 0
        /\ \A j \in 1..n - 1 : e[j] = Block(j).entry /\ M[j] = Block(j).max_entry
        /\ Fast(e, S, M, n)
  BY <1>1, <1>16, FastNow
<1>0. Fast(e, S, M, n) /\ e[n] = 0 /\ n \in Nat
  BY <1>2, <1>16
<1> DEFINE Between(j) == IF j < k THEN S[k] - S[j] ELSE S[j] - S[k]
           L == {M[j] + Between(j) : j \in 1..n - 1}
                \cup {S[n] - S[k], e[0] + (S[k] - S[0])}
<1>3. Optimal(k) = Min(L)
  <2>1. \A i, j : Dist(i, j) = S[j] - S[i]
    BY <1>2 DEF Dist
  <2>2. \A j : Gap(j, k) = Between(j)
    BY <2>1 DEF Gap
  <2>3. {Block(j).max_entry + Gap(j, k) : j \in 1..n - 1}
          = {M[j] + Between(j) : j \in 1..n - 1}
    <3> HIDE DEF Between
    <3> QED
      BY <1>2, <2>2
  <2>4. Dist(k, Count) = S[n] - S[k] /\ SpeedNow + Dist(0, k) = e[0] + (S[k] - S[0])
    BY <1>2, <1>16, <2>1
  <2> QED
    BY <1>16, <2>3, <2>4 DEF Optimal
<1>4. e[k] = Min(L)
  <2>1. Least(e, S, M, n, k)
    BY <1>0, <1>16, FastestLimit
  <2>2. L = Bounds(e, S, M, n, k)
    BY DEF Bounds
  <2> QED
    BY <2>1, <2>2 DEF Least
<1> QED
  BY <1>2, <1>3, <1>4, <1>16

(* The incremental passes of planner_recalculate, which stop at the planned*)
(* pointer, leave each block of the queue entered at the fastest speed that*)
(* the limits, the acceleration and the speed now allow, until an override *)
(* is lowered.                                                             *)
THEOREM PlanAlwaysOptimal == Spec => []PlanIsOptimal
<1>1. PlannerInv => PlanIsOptimal
  <2> SUFFICES ASSUME PlannerInv, ~slowed, ~Holding, NEW k \in 1..Count - 1
               PROVE  Block(k).entry = Optimal(k)
    BY DEF PlanIsOptimal
  <2>1. Count \in 0..Size - 1 /\ (Empty <=> Count = 0)
    BY QueueRing DEF PlannerInv, SafeInv
  <2>2. Count \in 1..Size - 1 /\ ~Empty
    BY <2>1, PlannerAssumption
  <2> QED
    BY <2>2, OptimalNow
<1> QED
  BY <1>1, AlwaysPlanned, PTL
=============================================================================
