-------------------------- MODULE FunctionsProofs --------------------------
(***************************************************************************)
(* Theorems about functions that the function run evaluates on chosen      *)
(* inputs, here for every input: a file is the same one in and out of the  *)
(* chroot (ChrootPaths), and a certificate expires when it says            *)
(* (CertExpiry).  The zone functions are with the pipeline that asks them, *)
(* in RequestPipelineProofs.                                               *)
(***************************************************************************)
EXTENDS CertExpiry, FiniteSetTheorems, WellFoundedInduction, TLAPS

CONSTANT Bad

-----------------------------------------------------------------------------
(* A non-empty set of natural numbers has a least element.                 *)
LEMMA LeastNatural ==
  ASSUME NEW S, S \subseteq Nat, S # {}
  PROVE  \E m \in S : \A n \in S : m <= n
<1> DEFINE R == OpToRel(<, Nat)
<1>1. IsWellFoundedOn(R, Nat)
  BY NatLessThanWellFounded, Zenon
<1>2. \A m, n \in Nat : <<n, m>> \in R <=> n < m
  BY DEF OpToRel
<1> HIDE DEF R
<1>3. PICK m \in S : \A n \in S : ~(<<n, m>> \in R)
  BY <1>1, WFMin, Zenon
<1>4. ASSUME NEW n \in S PROVE m <= n
  <2>1. m \in Nat /\ n \in Nat
    OBVIOUS
  <2>2. ~(n < m)
    BY <1>2, <1>3, <2>1, Zenon
  <2> QED
    BY <2>1, <2>2
<1> QED
  BY <1>4

(* What holds of 0, and of the next number with each, holds of all.        *)
LEMMA SetInduction ==
  ASSUME NEW S, S \subseteq Nat, 0 \in S, \A k \in S : k + 1 \in S
  PROVE  S = Nat
<1>1. ASSUME Nat \ S # {} PROVE FALSE
  <2>1. PICK m \in Nat \ S : \A n \in Nat \ S : m <= n
    BY <1>1, LeastNatural, Zenon
  <2>2. m - 1 \in Nat /\ (m - 1) + 1 = m /\ ~(m <= m - 1)
    BY <2>1
  <2>3. m - 1 \in S
    BY <2>1, <2>2
  <2> QED  BY <2>1, <2>2, <2>3
<1> QED  BY <1>1, Zenon

-----------------------------------------------------------------------------
(* The files of a daemon that may have changed its root (ChrootPaths).     *)
Files == INSTANCE ChrootPaths

Names == STRING \ {".", ".."}

(* f[i] is where the first i components of ps lead from at.                *)
Leads(f, at, ps) ==
  f = [i \in 0 .. Len(ps) |-> IF i = 0 THEN at ELSE Files!Entered(f[i - 1], ps[i])]

LEMMA AppendedIsSequence ==
  ASSUME NEW S, NEW s \in Seq(S), NEW x \in S
  PROVE  Append(s, x) \in Seq(S)
OBVIOUS

LEMMA EnteredIsDirectory ==
  ASSUME NEW at \in Seq(Names), NEW c \in STRING
  PROVE  /\ Files!Entered(at, c) \in Seq(Names)
         /\ Files!Entered(at, c) = Files!pushed(at, c)
<1>1. CASE c = "."
  BY <1>1 DEF Files!Entered, Files!pushed
<1>2. CASE c = ".."
  <2>1. Len(at) \in Nat /\ DOMAIN at = 1 .. Len(at)
    OBVIOUS
  <2>2. CASE at = <<>>
    <3>1. SubSeq(at, 1, Len(at) - 1) = <<>>
      BY <2>2
    <3> QED  BY <1>2, <2>2, <3>1 DEF Files!Entered, Files!pushed
  <2>3. CASE at # <<>>
    <3>1. Len(at) - 1 \in 0 .. Len(at)
      BY <2>1, <2>3
    <3>2. SubSeq(at, 1, Len(at) - 1) = [i \in 1 .. Len(at) - 1 |-> at[i]]
      BY <2>1, <3>1
    <3>3. [i \in 1 .. Len(at) - 1 |-> at[i]] \in Seq(Names)
      BY <2>1, <3>1
    <3> QED  BY <1>2, <2>3, <3>2, <3>3 DEF Files!Entered, Files!pushed
  <2> QED  BY <2>2, <2>3, Zenon
<1>3. CASE c \in Names
  <2>1. Append(at, c) \in Seq(Names)
    BY <1>3, AppendedIsSequence, Zenon
  <2> QED  BY <1>3, <2>1 DEF Files!Entered, Files!pushed, Names
<1> QED  BY <1>1, <1>2, <1>3 DEF Names

(* A walk can be taken, one component after the other.                     *)
LEMMA WalkExists ==
  ASSUME NEW at \in Seq(Names), NEW ps \in Seq(STRING)
  PROVE  \E f \in [0 .. Len(ps) -> Seq(Names)] : Leads(f, at, ps)
<1> DEFINE Upto(f, m) == \A i \in 0 .. m : f[i] = IF i = 0 THEN at ELSE Files!Entered(f[i - 1], ps[i])
           T == {m \in Nat : m <= Len(ps) => \E f \in [0 .. m -> Seq(Names)] : Upto(f, m)}
<1>1. 0 \in T
  <2> DEFINE f == [i \in 0 .. 0 |-> at]
  <2>1. f \in [0 .. 0 -> Seq(Names)] /\ Upto(f, 0)
    OBVIOUS
  <2> QED  BY <2>1, Zenon
<1>2. ASSUME NEW m \in T PROVE m + 1 \in T
  <2>1. CASE ~(m + 1 <= Len(ps))
    BY <2>1
  <2>2. CASE m + 1 <= Len(ps)
    <3>1. m \in Nat /\ m <= Len(ps) /\ Len(ps) \in Nat /\ m + 1 \in 1 .. Len(ps)
      BY <2>2
    <3>2. PICK f \in [0 .. m -> Seq(Names)] : Upto(f, m)
      BY <3>1
    <3>3. f[m] \in Seq(Names) /\ ps[m + 1] \in STRING
      BY <3>1
    <3> DEFINE x == Files!Entered(f[m], ps[m + 1])
               g == [i \in 0 .. m + 1 |-> IF i = m + 1 THEN x ELSE f[i]]
    <3>4. x \in Seq(Names)
      BY <3>3, EnteredIsDirectory, Zenon
    <3>5. ASSUME NEW i \in 0 .. m + 1 PROVE g[i] = IF i = 0 THEN at ELSE Files!Entered(g[i - 1], ps[i])
      <4>1. i # 0 => g[i - 1] = f[i - 1]
        BY <3>1
      <4>2. CASE i = m + 1
        <5>1. i # 0 /\ i - 1 = m
          BY <3>1, <4>2
        <5>2. g[i] = x
          BY <4>2
        <5> HIDE DEF g
        <5> QED  BY <4>1, <4>2, <5>1, <5>2
      <4>3. CASE i # m + 1
        <5>1. i \in 0 .. m /\ g[i] = f[i]
          BY <3>1, <4>3
        <5> HIDE DEF g
        <5> QED  BY <3>2, <4>1, <5>1
      <4> QED  BY <4>2, <4>3
    <3>6. g \in [0 .. m + 1 -> Seq(Names)]
      <4> HIDE DEF x
      <4> QED  BY <3>1, <3>4
    <3> HIDE DEF g
    <3>7. Upto(g, m + 1)
      BY <3>5
    <3> HIDE DEF Upto
    <3> QED  BY <3>1, <3>6, <3>7
  <2> QED  BY <2>1, <2>2, Zenon
<1>3. T \subseteq Nat
  OBVIOUS
<1>4. T = Nat
  <2> HIDE DEF T
  <2> QED  BY <1>1, <1>2, <1>3, SetInduction, Zenon
<1>5. Len(ps) \in Nat /\ Len(ps) <= Len(ps)
  OBVIOUS
<1>6. PICK f \in [0 .. Len(ps) -> Seq(Names)] : Upto(f, Len(ps))
  BY <1>4, <1>5, Zenon
<1>7. f = [i \in 0 .. Len(ps) |-> f[i]]
  OBVIOUS
<1>8. Leads(f, at, ps)
  BY <1>6, <1>7 DEF Leads
<1> QED  BY <1>6, <1>8

(* Whatever goes from component to component as a walk does ends where the *)
(* walk ends.                                                              *)
LEMMA WalkIs ==
  ASSUME NEW at \in Seq(Names), NEW ps \in Seq(STRING), NEW f,
         f[0] = at, \A i \in 1 .. Len(ps) : f[i] = Files!Entered(f[i - 1], ps[i])
  PROVE  Files!Walk(at, ps) = f[Len(ps)]
<1> DEFINE n == Len(ps)
           to == CHOOSE g : Leads(g, at, ps)
           T == {m \in Nat : m <= n => to[m] = f[m]}
<1>1. Files!Walk(at, ps) = to[n]
  BY Zenon DEF Files!Walk, Leads
<1>2. Leads(to, at, ps)
  <2>1. \E g \in [0 .. Len(ps) -> Seq(Names)] : Leads(g, at, ps)
    BY WalkExists
  <2> QED  BY <2>1, Zenon
<1> HIDE DEF to
<1>3. n \in Nat /\ n <= n
  OBVIOUS
<1>4. \A i \in 0 .. n : to[i] = IF i = 0 THEN at ELSE Files!Entered(to[i - 1], ps[i])
  BY <1>2 DEF Leads
<1>5. \A i \in 1 .. n : f[i] = Files!Entered(f[i - 1], ps[i])
  OBVIOUS
<1> HIDE DEF n
<1>6. 0 \in T
  BY <1>3, <1>4
<1>7. ASSUME NEW m \in T PROVE m + 1 \in T
  <2>1. CASE ~(m + 1 <= n)
    BY <2>1
  <2>2. CASE m + 1 <= n
    <3>1. m \in Nat /\ to[m] = f[m]
      BY <1>3, <2>2
    <3>2. m + 1 \in 1 .. n /\ m + 1 \in 0 .. n /\ m + 1 # 0 /\ (m + 1) - 1 = m
      BY <1>3, <2>2, <3>1
    <3>3. to[m + 1] = f[m + 1]
      BY <1>4, <1>5, <3>1, <3>2
    <3> QED  BY <3>1, <3>3
  <2> QED  BY <2>1, <2>2
<1>8. T \subseteq Nat
  OBVIOUS
<1>9. T = Nat
  <2> HIDE DEF T
  <2> QED  BY <1>6, <1>7, <1>8, SetInduction, Zenon
<1>10. to[n] = f[n]
  BY <1>3, <1>9
<1> QED  BY <1>1, <1>10 DEF n

(* A walk along two paths, one after the other.                            *)
LEMMA WalkInTwo ==
  ASSUME NEW at \in Seq(Names), NEW ps \in Seq(STRING), NEW qs \in Seq(STRING)
  PROVE  /\ Files!Walk(at, ps) \in Seq(Names)
         /\ Files!Walk(at, ps \o qs) = Files!Walk(Files!Walk(at, ps), qs)
<1> DEFINE m == Len(ps)
           n == Len(qs)
           both == ps \o qs
<1>1. /\ m \in Nat /\ n \in Nat /\ both \in Seq(STRING) /\ Len(both) = m + n
      /\ \A i \in 1 .. m : both[i] = ps[i]
      /\ \A i \in 1 .. n : both[m + i] = qs[i]
  OBVIOUS
<1> HIDE DEF both, m, n
<1>2. PICK f \in [0 .. m + n -> Seq(Names)] : Leads(f, at, both)
  BY <1>1, WalkExists, Zenon
<1>3. f[0] = at /\ \A i \in 1 .. m + n : f[i] = Files!Entered(f[i - 1], both[i])
  BY <1>1, <1>2 DEF Leads
<1>4. Files!Walk(at, both) = f[m + n]
  <2>1. \A i \in 1 .. Len(both) : f[i] = Files!Entered(f[i - 1], both[i])
    BY <1>1, <1>3
  <2>2. Files!Walk(at, both) = f[Len(both)]
    BY <1>1, <1>3, <2>1, WalkIs, Zenon
  <2> QED  BY <1>1, <2>2
<1>5. Files!Walk(at, ps) = f[m]
  <2>1. \A i \in 1 .. m : f[i] = Files!Entered(f[i - 1], ps[i])
    BY <1>1, <1>3
  <2> QED  BY <1>3, <2>1, WalkIs, Zenon DEF m
<1>6. f[m] \in Seq(Names)
  BY <1>1
<1>7. Files!Walk(f[m], qs) = f[m + n]
  <2> DEFINE g == [i \in 0 .. n |-> f[m + i]]
  <2>1. g[0] = f[m] /\ g[n] = f[m + n]
    BY <1>1
  <2>2. ASSUME NEW i \in 1 .. n PROVE g[i] = Files!Entered(g[i - 1], qs[i])
    <3>1. /\ i \in 0 .. n /\ i - 1 \in 0 .. n /\ m + i \in 1 .. m + n
          /\ (m + i) - 1 = m + (i - 1)
      BY <1>1
    <3>2. g[i] = f[m + i] /\ g[i - 1] = f[(m + i) - 1]
      BY <3>1
    <3>3. f[m + i] = Files!Entered(f[(m + i) - 1], both[m + i])
      BY <1>3, <3>1
    <3> HIDE DEF g
    <3> QED  BY <1>1, <3>2, <3>3
  <2> HIDE DEF g
  <2>3. Files!Walk(f[m], qs) = g[n]
    BY <1>6, <2>1, <2>2, WalkIs DEF n
  <2> QED  BY <2>1, <2>3
<1> QED  BY <1>4, <1>5, <1>6, <1>7 DEF both

(* A path without dots is walked as it is written.                         *)
LEMMA WalkOfNames ==
  ASSUME NEW ps \in Seq(Names)
  PROVE  Files!Walk(<<>>, ps) = ps
<1> DEFINE n == Len(ps)
           f == [i \in 0 .. n |-> SubSeq(ps, 1, i)]
<1>1. n \in Nat /\ ps \in Seq(STRING) /\ <<>> \in Seq(Names)
  BY DEF Names
<1>2. f[0] = <<>> /\ f[n] = ps
  BY <1>1
<1>3. ASSUME NEW i \in 1 .. n PROVE f[i] = Files!Entered(f[i - 1], ps[i])
  <2>1. i \in 0 .. n /\ i - 1 \in 0 .. n /\ ps[i] \in Names
    BY <1>1
  <2>2. f[i] = SubSeq(ps, 1, i) /\ f[i - 1] = SubSeq(ps, 1, i - 1)
    BY <2>1
  <2>3. SubSeq(ps, 1, i) = Append(SubSeq(ps, 1, i - 1), ps[i])
    BY <1>1, <2>1
  <2>4. Files!Entered(SubSeq(ps, 1, i - 1), ps[i]) = Append(SubSeq(ps, 1, i - 1), ps[i])
    BY <2>1 DEF Files!Entered, Names
  <2> HIDE DEF f
  <2> QED  BY <2>2, <2>3, <2>4, Zenon
<1> HIDE DEF f
<1>4. Files!Walk(<<>>, ps) = f[Len(ps)]
  BY <1>1, <1>2, <1>3, WalkIs, Zenon
<1> QED  BY <1>2, <1>4

(* normalize_lexical walks from the root.                                  *)
LEMMA NormalizedIsWalked ==
  ASSUME NEW path, path.parts \in Seq(STRING)
  PROVE  Files!normalize_lexical(path) = Files!Path(path.absolute, Files!Walk(<<>>, path.parts))
<1> DEFINE ps == path.parts
           n == Len(ps)
           Pushes(g) == g = [i \in 0 .. n |-> IF i = 0 THEN <<>> ELSE Files!pushed(g[i - 1], ps[i])]
           g == CHOOSE h : Pushes(h)
<1>1. Files!normalize_lexical(path) = Files!Path(path.absolute, g[n])
  BY Zenon DEF Files!normalize_lexical
<1>2. PICK f \in [0 .. n -> Seq(Names)] : Leads(f, <<>>, ps)
  <2>1. <<>> \in Seq(Names)
    OBVIOUS
  <2> QED  BY <2>1, WalkExists, Zenon
<1>3. n \in Nat /\ ps \in Seq(STRING)
  OBVIOUS
<1> HIDE DEF ps
<1>4. \A i \in 0 .. n : f[i] = IF i = 0 THEN <<>> ELSE Files!Entered(f[i - 1], ps[i])
  BY <1>2, Zenon DEF Leads
<1>5. ASSUME NEW i \in 0 .. n PROVE f[i] = IF i = 0 THEN <<>> ELSE Files!pushed(f[i - 1], ps[i])
  <2>0. i # 0 => i - 1 \in 0 .. n /\ i \in 1 .. Len(ps)
    BY <1>3
  <2>1. i # 0 => f[i - 1] \in Seq(Names) /\ ps[i] \in STRING
    <3> HIDE DEF n
    <3> QED  BY <1>3, <2>0
  <2>2. i # 0 => Files!Entered(f[i - 1], ps[i]) = Files!pushed(f[i - 1], ps[i])
    BY <2>1, EnteredIsDirectory, Zenon
  <2> QED  BY <1>4, <2>2
<1>6. Pushes(f)
  <2>1. f = [i \in 0 .. n |-> f[i]]
    OBVIOUS
  <2> QED  BY <1>5, <2>1
<1>7. Pushes(g)
  <2> HIDE DEF Pushes
  <2> QED  BY <1>6, Zenon
<1> HIDE DEF g
<1> DEFINE T == {m \in Nat : m <= n => g[m] = f[m]}
<1>8. \A i \in 0 .. n : g[i] = IF i = 0 THEN <<>> ELSE Files!pushed(g[i - 1], ps[i])
  BY <1>7
<1> HIDE DEF n
<1>9. 0 \in T
  BY <1>3, <1>5, <1>8
<1>10. ASSUME NEW m \in T PROVE m + 1 \in T
  <2>1. CASE ~(m + 1 <= n)
    BY <2>1
  <2>2. CASE m + 1 <= n
    <3>1. m \in Nat /\ g[m] = f[m]
      BY <1>3, <2>2
    <3>2. m + 1 \in 0 .. n /\ m + 1 # 0 /\ (m + 1) - 1 = m
      BY <1>3, <2>2, <3>1
    <3>3. g[m + 1] = f[m + 1]
      BY <1>5, <1>8, <3>1, <3>2
    <3> QED  BY <3>1, <3>3
  <2> QED  BY <2>1, <2>2
<1>11. T \subseteq Nat
  OBVIOUS
<1>12. T = Nat
  <2> HIDE DEF T
  <2> QED  BY <1>9, <1>10, <1>11, SetInduction, Zenon
<1>13. n <= n
  BY <1>3
<1>14. g[n] = f[n]
  BY <1>3, <1>12, <1>13, Zenon
<1>15. Files!Walk(<<>>, ps) = f[n]
  <2>1. f[0] = <<>> /\ \A i \in 1 .. n : f[i] = Files!Entered(f[i - 1], ps[i])
    BY <1>3, <1>4
  <2>2. <<>> \in Seq(Names)
    OBVIOUS
  <2> QED  BY <1>3, <2>1, <2>2, WalkIs, Zenon DEF n
<1> QED  BY <1>1, <1>14, <1>15 DEF ps

-----------------------------------------------------------------------------
Paths == [absolute: BOOLEAN, parts: Seq(STRING)]

Urls == [kind: {"memory", "server", "sqlite"}, path: Paths]

TlsListeners == [enabled: BOOLEAN, cert_path: Paths, key_path: Paths]

Configs == [chroot_dir: Paths, socket: Paths, database: Urls, listeners: SUBSET TlsListeners]

\* Where a path of a configuration leads, from the directory dir or from the root.
Meant(path, dir) == Files!Walk(IF path.absolute THEN <<>> ELSE dir, path.parts)

(* A path of the configuration that resolve_path_for_chroot_host accepts   *)
(* has, by its host name, the meaning of the configured path, and lies in  *)
(* the directory.  That the directory was normalised before does not       *)
(* change anything.                                                        *)
LEMMA HostName ==
  ASSUME Bad \notin Paths, NEW cd \in Paths, NEW path \in Paths,
         cd.absolute
  PROVE  LET dir == Files!Walk(<<>>, cd.parts)
             host == Files!resolve_path_for_chroot_host(path, cd)
         IN /\ dir \in Seq(Names)
            /\ Files!parse_chroot_dir(cd) = Files!Path(TRUE, dir)
            /\ Files!resolve_path_for_chroot_host(path, Files!parse_chroot_dir(cd)) = host
            /\ host # Bad => /\ host = Files!Path(TRUE, Meant(path, dir))
                            /\ Meant(path, dir) \in Seq(Names)
                            /\ Files!starts_with(Meant(path, dir), dir)
<1> DEFINE dir == Files!Walk(<<>>, cd.parts)
           host == Files!resolve_path_for_chroot_host(path, cd)
           p == Files!Path(TRUE, dir)
           joined == Files!join(p, path)
<1>1. /\ cd.parts \in Seq(STRING) /\ path.parts \in Seq(STRING)
      /\ cd.absolute = TRUE /\ path.absolute \in BOOLEAN
      /\ <<>> \in Seq(Names) /\ <<>> \in Seq(STRING)
  BY DEF Paths
<1>2. dir \in Seq(Names) /\ dir \in Seq(STRING)
  <2>1. dir \in Seq(Names)
    BY <1>1, WalkInTwo, Zenon
  <2> QED  BY <2>1 DEF Names
<1>3. Files!parse_chroot_dir(cd) = p
  BY <1>1, NormalizedIsWalked, Zenon DEF Files!parse_chroot_dir
<1> HIDE DEF dir
<1>4. p.parts = dir /\ p.absolute = TRUE /\ p \in Paths
  BY <1>2 DEF Files!Path, Paths
<1> HIDE DEF p
<1>5. Files!parse_chroot_dir(p) = p
  <2>1. Files!normalize_lexical(p) = Files!Path(TRUE, Files!Walk(<<>>, dir))
    BY <1>2, <1>4, NormalizedIsWalked, Zenon
  <2>2. Files!normalize_lexical(p) = p
    BY <1>2, <2>1, WalkOfNames, Zenon DEF p
  <2> QED  BY <1>4, <2>2 DEF Files!parse_chroot_dir
<1>6. /\ host = Files!resolve_scoped_host_path(path, p)
      /\ Files!resolve_path_for_chroot_host(path, p) = host
  <2>1. p # Bad
    BY <1>4
  <2> QED  BY <1>3, <1>5, <2>1 DEF Files!resolve_path_for_chroot_host
<1>7. /\ Files!normalize_lexical(joined) = Files!Path(TRUE, Meant(path, dir))
      /\ Meant(path, dir) \in Seq(Names)
  <2>1. CASE path.absolute
    <3>1. joined = path /\ path.absolute = TRUE
      BY <1>1, <2>1 DEF Files!join
    <3>2. Files!normalize_lexical(path) = Files!Path(TRUE, Files!Walk(<<>>, path.parts))
      BY <1>1, <3>1, NormalizedIsWalked, Zenon
    <3>3. Files!Walk(<<>>, path.parts) \in Seq(Names)
      BY <1>1, WalkInTwo, Zenon
    <3> QED  BY <2>1, <3>1, <3>2, <3>3 DEF Meant
  <2>2. CASE ~path.absolute
    <3>1. joined.absolute = TRUE /\ joined.parts = dir \o path.parts
      BY <1>4, <2>2 DEF Files!join, Files!Path
    <3>2. joined.parts \in Seq(STRING)
      BY <1>1, <1>2, <3>1
    <3>3. Files!normalize_lexical(joined) = Files!Path(TRUE, Files!Walk(<<>>, joined.parts))
      BY <3>1, <3>2, NormalizedIsWalked, Zenon
    <3>4. Files!Walk(<<>>, dir \o path.parts) = Files!Walk(Files!Walk(<<>>, dir), path.parts)
      BY <1>1, <1>2, WalkInTwo, Zenon
    <3>5. Files!Walk(<<>>, dir) = dir
      BY <1>2, WalkOfNames
    <3>6. Files!Walk(dir, path.parts) \in Seq(Names)
      BY <1>1, <1>2, WalkInTwo
    <3> QED  BY <2>2, <3>1, <3>3, <3>4, <3>5, <3>6, Zenon DEF Meant
  <2> QED  BY <2>1, <2>2, Zenon
<1>8. host # Bad => /\ host = Files!Path(TRUE, Meant(path, dir))
                   /\ Files!starts_with(Meant(path, dir), dir)
  <2> DEFINE to == Files!normalize_lexical(joined)
  <2>1. to.parts = Meant(path, dir)
    BY <1>7 DEF Files!Path
  <2>2. host # Bad => host = to /\ Files!starts_with(to.parts, p.parts)
    BY <1>6, Zenon DEF Files!resolve_scoped_host_path
  <2> QED  BY <1>4, <1>7, <2>1, <2>2, Zenon
<1>9. Files!parse_chroot_dir(cd) = Files!Path(TRUE, dir)
  BY <1>3 DEF p
<1>10. Files!resolve_path_for_chroot_host(path, Files!parse_chroot_dir(cd)) = host
  BY <1>3, <1>6
<1> HIDE DEF host
<1> QED  BY <1>2, <1>7, <1>8, <1>9, <1>10, Zenon DEF dir, host

(* run_daemon: under its runtime name, seen from the directory, or under   *)
(* its host name, a file that was accepted is the one that was configured. *)
LEMMA FileName ==
  ASSUME Bad \notin Paths, NEW cd \in Paths, NEW path \in Paths, NEW root \in BOOLEAN,
         cd.absolute, Files!resolve_path_for_chroot_host(path, cd) # Bad
  PROVE  LET dir == Files!Walk(<<>>, cd.parts)
             name == Files!NameOf(path, root, cd)
         IN /\ name \in Paths
            /\ (IF root THEN dir ELSE <<>>) \o name.parts = Meant(path, dir)
            /\ Files!starts_with(Meant(path, dir), dir)
<1> DEFINE dir == Files!Walk(<<>>, cd.parts)
           to == Meant(path, dir)
           host == Files!resolve_path_for_chroot_host(path, cd)
           name == Files!NameOf(path, root, cd)
<1>1. /\ dir \in Seq(Names) /\ Files!parse_chroot_dir(cd) = Files!Path(TRUE, dir)
      /\ host = Files!Path(TRUE, to) /\ to \in Seq(Names) /\ Files!starts_with(to, dir)
      /\ host # Bad
  BY HostName, Zenon
<1> HIDE DEF dir, to, host
<1>2. to \in Seq(STRING) /\ dir \in Seq(STRING)
  BY <1>1 DEF Names
<1>3. host.parts = to /\ Files!parse_chroot_dir(cd).parts = dir
  BY <1>1 DEF Files!Path
<1>4. CASE root
  <2> DEFINE rest == SubSeq(to, Len(dir) + 1, Len(to))
  <2>1. Len(dir) \in Nat /\ Len(to) \in Nat /\ Len(dir) <= Len(to) /\ SubSeq(to, 1, Len(dir)) = dir
    BY <1>1, <1>2 DEF Files!starts_with
  <2>2. rest \in Seq(STRING)
    BY <1>2, <2>1
  <2>3. dir \o rest = to
    BY <1>2, <2>1
  <2>4. name = Files!Path(TRUE, rest)
    BY <1>1, <1>3, <1>4, Zenon DEF Files!NameOf, Files!resolve_path_for_chroot_runtime, host
  <2> HIDE DEF rest, name
  <2>5. name \in Paths /\ name.parts = rest
    BY <2>2, <2>4 DEF Files!Path, Paths
  <2> QED  BY <1>1, <1>4, <2>3, <2>5, Zenon DEF name, dir, to
<1>5. CASE ~root
  <2>1. name = host
    BY <1>5 DEF Files!NameOf, host
  <2> HIDE DEF name
  <2>2. name \in Paths
    BY <1>1, <1>2, <2>1 DEF Files!Path, Paths
  <2>3. <<>> \o to = to
    BY <1>2
  <2>4. name.parts = to
    BY <1>3, <2>1
  <2> QED  BY <1>1, <1>5, <2>2, <2>3, <2>4 DEF name, dir, to
<1> QED  BY <1>4, <1>5, Zenon

(* In every configuration that validate_config accepts, the control socket *)
(* that the daemon binds in its chroot is the one that stop, reload and    *)
(* status open, and the database, the certificates and the keys are the    *)
(* same files whether or not the daemon confines itself; all of them are   *)
(* where walking the configured path leads, and that is in the directory.  *)
(* Directory and paths are arbitrary, with dots and dot-dots anywhere.     *)
THEOREM SameFilesInEveryConfiguration ==
  ASSUME Bad \notin Paths, Bad \notin Urls, NEW config \in Configs
  PROVE  Files!SameFileInsideAndOut(config)
<1> DEFINE cd == config.chroot_dir
           dir == Files!Walk(<<>>, cd.parts)
           Is(root, path, name) ==
             /\ name # Bad
             /\ (IF root THEN dir ELSE <<>>) \o name.parts
                  = Files!Walk(IF path.absolute THEN <<>> ELSE dir, path.parts)
             /\ Files!starts_with((IF root THEN dir ELSE <<>>) \o name.parts, dir)
           url(root) == Files!database_url(config.database, root, cd)
<1> SUFFICES ASSUME Files!validate_config(config), NEW root \in BOOLEAN
             PROVE  /\ Is(root, config.socket, Files!control_socket_path(config.socket, root, cd))
                    /\ Files!resolve_control_socket_path(config.socket, cd).parts
                         = Files!Walk(IF config.socket.absolute THEN <<>> ELSE dir, config.socket.parts)
                    /\ \A l \in {x \in config.listeners : x.enabled} :
                         LET tls == Files!listener_tls(l, FALSE, root, cd)
                         IN Is(root, l.cert_path, tls.cert_path) /\ Is(root, l.key_path, tls.key_path)
                    /\ config.database.kind = "sqlite" =>
                         url(root) # Bad /\ Is(root, config.database.path, url(root).path)
  BY Zenon DEF Files!SameFileInsideAndOut
<1>1. /\ cd \in Paths /\ config.socket \in Paths /\ config.database \in Urls
      /\ config.listeners \in SUBSET TlsListeners
  BY DEF Configs
<1> HIDE DEF cd
<1>2. cd.absolute
  BY DEF Files!validate_config, Files!parse_chroot_dir, cd
<1>3. ASSUME NEW path \in Paths, Files!resolve_path_for_chroot_host(path, Files!parse_chroot_dir(cd)) # Bad
      PROVE  /\ Files!resolve_path_for_chroot_host(path, cd) # Bad
             /\ Files!resolve_path_for_chroot_host(path, cd).parts = Meant(path, dir)
             /\ Files!NameOf(path, root, cd) \in Paths
             /\ Is(root, path, Files!NameOf(path, root, cd))
  <2> DEFINE host == Files!resolve_path_for_chroot_host(path, cd)
  <2>1. host # Bad /\ host = Files!Path(TRUE, Meant(path, dir))
    BY <1>1, <1>2, <1>3, HostName, Zenon
  <2> HIDE DEF host
  <2>2. host.parts = Meant(path, dir)
    BY <2>1 DEF Files!Path
  <2> DEFINE name == Files!NameOf(path, root, cd)
  <2>3. /\ name \in Paths
        /\ (IF root THEN dir ELSE <<>>) \o name.parts = Meant(path, dir)
        /\ Files!starts_with(Meant(path, dir), dir)
    BY <1>1, <1>2, <2>1, FileName, Zenon DEF host
  <2> HIDE DEF name, dir
  <2>4. Is(root, path, name)
    BY <2>3, Zenon DEF Meant
  <2> QED  BY <2>1, <2>2, <2>3, <2>4, Zenon DEF host, name
<1> DEFINE Accepted(path) == Files!resolve_path_for_chroot_host(path, Files!parse_chroot_dir(cd)) # Bad
<1>4. Accepted(config.socket)
  BY DEF Files!validate_config, Files!validate_control_socket_path, cd
<1>5. \A l \in config.listeners : l.enabled => Accepted(l.cert_path) /\ Accepted(l.key_path)
  BY DEF Files!validate_config, Files!validate_listener_tls_paths, cd
<1>6. config.database.kind = "sqlite" => Accepted(config.database.path)
  BY DEF Files!validate_config, Files!validate_sqlite_path, cd
<1>7. /\ Is(root, config.socket, Files!control_socket_path(config.socket, root, cd))
      /\ Files!resolve_control_socket_path(config.socket, cd).parts = Meant(config.socket, dir)
  <2> HIDE DEF Is, dir
  <2> QED  BY <1>1, <1>3, <1>4 DEF Files!control_socket_path, Files!resolve_control_socket_path
<1>8. ASSUME NEW l \in config.listeners, l.enabled
      PROVE  LET tls == Files!listener_tls(l, FALSE, root, cd)
             IN Is(root, l.cert_path, tls.cert_path) /\ Is(root, l.key_path, tls.key_path)
  <2>1. l.cert_path \in Paths /\ l.key_path \in Paths
    BY <1>1 DEF TlsListeners
  <2> DEFINE tls == Files!listener_tls(l, FALSE, root, cd)
  <2>2. tls.cert_path = Files!NameOf(l.cert_path, root, cd) /\ tls.key_path = Files!NameOf(l.key_path, root, cd)
    BY DEF Files!listener_tls
  <2> HIDE DEF tls, Is, dir
  <2>3. Is(root, l.cert_path, tls.cert_path) /\ Is(root, l.key_path, tls.key_path)
    BY <1>3, <1>5, <1>8, <2>1, <2>2
  <2> QED  BY <2>3, Zenon DEF tls
<1>9. ASSUME config.database.kind = "sqlite"
      PROVE  url(root) # Bad /\ Is(root, config.database.path, url(root).path)
  <2> DEFINE db == config.database
             name == Files!NameOf(db.path, root, cd)
  <2>1. db \in Urls /\ db.path \in Paths
    BY <1>1 DEF Urls
  <2>2. name \in Paths /\ Is(root, db.path, name)
    <3> HIDE DEF Is
    <3> QED  BY <1>3, <1>6, <1>9, <2>1
  <2>3. url(root) = Files!UrlFor(db, name)
    BY DEF Files!database_url, Files!sqlite_url_for_chroot_runtime, Files!sqlite_url_for_chroot_host, Files!NameOf
  <2> HIDE DEF name, Is, url, dir
  <2>4. Files!UrlFor(db, name) = [db EXCEPT !.path = name]
    BY <1>9, <2>2 DEF Files!UrlFor
  <2> HIDE DEF db
  <2>5. [db EXCEPT !.path = name] \in Urls /\ [db EXCEPT !.path = name].path = name
    BY <2>1, <2>2 DEF Urls
  <2> QED  BY <2>2, <2>3, <2>4, <2>5 DEF db
<1> HIDE DEF Is, url, dir
<1> QED  BY <1>7, <1>8, <1>9, Zenon DEF Meant

-----------------------------------------------------------------------------
(* How long a certificate lasts (CertExpiry).  First the calendar, then    *)
(* the fields that parse_x509_not_after steps over, from the outside in.   *)

(* How many of the years before y are leap years, from year 1 on.          *)
LeapsBefore(y) == (y - 1) \div 4 - (y - 1) \div 100 + (y - 1) \div 400

LEMMA OneYear ==
  ASSUME NEW y \in Nat, y >= 1
  PROVE  LeapsBefore(y + 1) = LeapsBefore(y) + IF Leap(y) THEN 1 ELSE 0
<1>1. (y + 1) - 1 = y
  OBVIOUS
<1>2. y \div 4 = (y - 1) \div 4 + IF y % 4 = 0 THEN 1 ELSE 0
  OBVIOUS
<1>3. y \div 100 = (y - 1) \div 100 + IF y % 100 = 0 THEN 1 ELSE 0
  OBVIOUS
<1>4. y \div 400 = (y - 1) \div 400 + IF y % 400 = 0 THEN 1 ELSE 0
  OBVIOUS
<1>5. (y % 400 = 0 => y % 100 = 0) /\ (y % 100 = 0 => y % 4 = 0)
  OBVIOUS
<1> QED  BY <1>1, <1>2, <1>3, <1>4, <1>5 DEF LeapsBefore, Leap

LeapsFrom1970(y) == {k \in 1970 .. y - 1 : Leap(k)}

Counted(y) ==
  IsFiniteSet(LeapsFrom1970(y)) /\ Cardinality(LeapsFrom1970(y)) = LeapsBefore(y) - 477

LEMMA CountOneYear ==
  ASSUME NEW y \in Nat, y >= 1970, Counted(y)
  PROVE  Counted(y + 1)
<1>1. LeapsFrom1970(y + 1) = IF Leap(y) THEN LeapsFrom1970(y) \cup {y} ELSE LeapsFrom1970(y)
  <2>1. 1970 .. (y + 1) - 1 = (1970 .. y - 1) \cup {y}
    OBVIOUS
  <2> QED  BY <2>1 DEF LeapsFrom1970
<1>2. y \notin LeapsFrom1970(y)
  BY DEF LeapsFrom1970
<1>3. LeapsBefore(y + 1) = LeapsBefore(y) + IF Leap(y) THEN 1 ELSE 0
  BY OneYear
<1>4. LeapsBefore(y) \in Int
  BY DEF LeapsBefore
<1>5. CASE Leap(y)
  <2> DEFINE L == LeapsFrom1970(y)
  <2>1. IsFiniteSet(L) /\ Cardinality(L) = LeapsBefore(y) - 477 /\ y \notin L
    BY <1>2 DEF Counted
  <2>2. LeapsFrom1970(y + 1) = L \cup {y}
    BY <1>1, <1>5
  <2> HIDE DEF L
  <2>3. IsFiniteSet(L \cup {y}) /\ Cardinality(L \cup {y}) = Cardinality(L) + 1
    BY <2>1, FS_AddElement
  <2>4. Cardinality(L \cup {y}) = LeapsBefore(y + 1) - 477
    BY <1>3, <1>4, <1>5, <2>1, <2>3
  <2> QED  BY <2>2, <2>3, <2>4 DEF Counted
<1>6. CASE ~Leap(y)
  BY <1>1, <1>3, <1>4, <1>6 DEF Counted
<1> QED  BY <1>5, <1>6

(* The leap years from 1970 on are as many as that.                        *)
LEMMA LeapsAreCounted == \A k \in Nat : Counted(1970 + k)
<1> DEFINE T == {k \in Nat : Counted(1970 + k)}
<1>1. 0 \in T
  <2>1. LeapsFrom1970(1970) = {}
    BY DEF LeapsFrom1970
  <2>2. LeapsBefore(1970) = 477
    BY DEF LeapsBefore
  <2>3. Counted(1970)
    BY <2>1, <2>2, FS_EmptySet DEF Counted
  <2> QED  BY <2>3
<1>2. ASSUME NEW k \in T PROVE k + 1 \in T
  <2> DEFINE y == 1970 + k
  <2>1. y \in Nat /\ y >= 1970 /\ 1970 + (k + 1) = y + 1 /\ k + 1 \in Nat /\ Counted(y)
    OBVIOUS
  <2> HIDE DEF y
  <2>2. Counted(y + 1)
    BY <2>1, CountOneYear
  <2> QED  BY <2>1, <2>2
<1>3. T \subseteq Nat
  OBVIOUS
<1>4. T = Nat
  <2> HIDE DEF T
  <2> QED  BY <1>1, <1>2, <1>3, SetInduction, Zenon
<1>5. ASSUME NEW k \in Nat PROVE Counted(1970 + k)
  <2>1. k \in T
    <3> HIDE DEF T
    <3> QED  BY <1>4
  <2> QED  BY <2>1
<1> QED  BY <1>5

LEMMA LeapYears ==
  ASSUME NEW y \in Nat, y >= 1970
  PROVE  DaysToYear(y) = 365 * (y - 1970) + LeapsBefore(y) - 477
<1>1. y - 1970 \in Nat /\ 1970 + (y - 1970) = y
  OBVIOUS
<1>2. PICK k \in Nat : 1970 + k = y
  BY <1>1
<1>3. Counted(y)
  BY <1>2, LeapsAreCounted
<1>4. LeapsBefore(y) \in Int
  BY DEF LeapsBefore
<1> QED  BY <1>3, <1>4 DEF DaysToYear, Counted, LeapsFrom1970

EarlyDays(year, month, day) ==
  365 * (year - 1) + LeapsBefore(year) + (153 * (month + 9) + 2) \div 5 + day - 1

LateDays(year, month, day) ==
  365 * year + LeapsBefore(year + 1) + (153 * (month - 3) + 2) \div 5 + day - 1

(* days_from_civil, without eras.                                          *)
LEMMA CivilDays ==
  ASSUME NEW year \in Nat, year >= 1, NEW month \in 1 .. 12, NEW day \in Int
  PROVE  /\ month <= 2 => days_from_civil(year, month, day) = EarlyDays(year, month, day)
         /\ month > 2 => days_from_civil(year, month, day) = LateDays(year, month, day)
<1> DEFINE y == IF month <= 2 THEN year - 1 ELSE year
           m == IF month > 2 THEN month - 3 ELSE month + 9
           era == y \div 400
           yoe == y - era * 400
           doy == (153 * m + 2) \div 5 + day - 1
<1>1. y \in Nat /\ m \in Nat
  OBVIOUS
<1>2. days_from_civil(year, month, day) = era * 146097 + yoe * 365 + yoe \div 4 - yoe \div 100 + doy
  BY SMT DEF days_from_civil
<1>3. doy \in Int
  BY <1>1
<1> HIDE DEF y, doy
<1>4. era \in Nat /\ yoe \in 0 .. 399 /\ y = 400 * era + yoe
  BY <1>1
<1> HIDE DEF era, yoe
<1>5. y \div 4 = 100 * era + yoe \div 4
  BY <1>4
<1>6. y \div 100 = 4 * era + yoe \div 100
  BY <1>4
<1>7. y \div 400 = era
  BY <1>4
<1>8. LeapsBefore(y + 1) = y \div 4 - y \div 100 + y \div 400
  BY <1>1 DEF LeapsBefore
<1>9. yoe \div 4 \in Nat /\ yoe \div 100 \in Nat
  BY <1>4
<1>10. days_from_civil(year, month, day) = 365 * y + LeapsBefore(y + 1) + doy
  BY <1>2, <1>3, <1>4, <1>5, <1>6, <1>7, <1>8, <1>9
<1>11. LeapsBefore(y + 1) \in Int /\ 365 * y \in Int /\ (153 * m + 2) \div 5 \in Int
  BY <1>1 DEF LeapsBefore
<1>12. days_from_civil(year, month, day) = 365 * y + LeapsBefore(y + 1) + (153 * m + 2) \div 5 + day - 1
  BY <1>10, <1>11 DEF doy
<1>13. month <= 2 => y = year - 1 /\ y + 1 = year /\ m = month + 9
  BY DEF y
<1>14. month > 2 => y = year /\ m = month - 3
  BY DEF y
<1> HIDE DEF m
<1> QED  BY <1>12, <1>13, <1>14 DEF EarlyDays, LateDays

(* days_from_civil counts days as the calendar does.                       *)
LEMMA DaysAreCounted ==
  ASSUME NEW year \in Nat, year >= 1970, NEW month \in 1 .. 12, NEW day \in Nat
  PROVE  days_from_civil(year, month, day) - Epoch
           = DaysToYear(year) + DaysToMonth(year, month) + day - 1
<1> DEFINE leap == IF Leap(year) THEN 1 ELSE 0
           before == LeapsBefore(year)
<1>1. Epoch = 365 * 1969 + 477 + 306
  BY SMT DEF Epoch, days_from_civil
<1>2. before \in Int /\ leap \in {0, 1}
  BY DEF LeapsBefore
<1>3. LeapsBefore(year + 1) = before + leap
  BY OneYear
<1>4. DaysToYear(year) = 365 * (year - 1970) + before - 477
  BY LeapYears
<1>5. year >= 1 /\ day \in Int
  OBVIOUS
<1> HIDE DEF before, leap
<1>6. CASE month <= 2
  <2> DEFINE doy == (153 * (month + 9) + 2) \div 5
  <2>1. days_from_civil(year, month, day) = 365 * (year - 1) + before + doy + day - 1
    <3>1. days_from_civil(year, month, day) = EarlyDays(year, month, day)
      BY <1>5, <1>6, CivilDays
    <3> QED  BY <3>1 DEF before, EarlyDays
  <2>2. DaysToMonth(year, month) = doy - 306 /\ doy \in Int
    BY <1>6 DEF DaysToMonth, MonthLength
  <2> HIDE DEF doy
  <2> QED  BY <1>1, <1>2, <1>4, <2>1, <2>2
<1>7. CASE month > 2
  <2> DEFINE doy == (153 * (month - 3) + 2) \div 5
  <2>1. days_from_civil(year, month, day) = 365 * year + (before + leap) + doy + day - 1
    <3>1. days_from_civil(year, month, day) = LateDays(year, month, day)
      BY <1>5, <1>7, CivilDays
    <3> QED  BY <1>3, <3>1 DEF LateDays
  <2>2. DaysToMonth(year, month) = doy + 59 + leap /\ doy \in Int
    <3>1. MonthLength(year, 2) = 28 + leap
      BY DEF MonthLength, leap
    <3> QED  BY <1>2, <1>7, <3>1 DEF DaysToMonth, MonthLength
  <2> HIDE DEF doy
  <2> QED  BY <1>1, <1>2, <1>4, <2>1, <2>2
<1> QED  BY <1>6, <1>7

-----------------------------------------------------------------------------
(* Bytes are numbers; nothing below needs that they are less than 256.     *)
Octets == Nat

(* What der holds from the position pos on begins with q.                  *)
Has(der, pos, q) ==
  /\ pos \in Nat
  /\ pos + Len(q) <= Len(der)
  /\ \A i \in 1 .. Len(q) : der[pos + i] = q[i]

LEMMA LengthIsNat ==
  ASSUME NEW q \in Seq(Octets)
  PROVE  Len(q) \in Nat
OBVIOUS

LEMMA HasItself ==
  ASSUME NEW q \in Seq(Octets)
  PROVE  Has(q, 0, q)
BY DEF Has

InTwo(der, pos, q, r) ==
  /\ Has(der, pos, q)
  /\ Has(der, pos + Len(q), r)
  /\ Len(q \o r) = Len(q) + Len(r)

LEMMA JoinBytes ==
  ASSUME NEW q \in Seq(Octets), NEW r \in Seq(Octets)
  PROVE  q \o r \in Seq(Octets) /\ Len(q \o r) = Len(q) + Len(r)
OBVIOUS

LEMMA HasInTwo ==
  ASSUME NEW der \in Seq(Octets), NEW pos, NEW q \in Seq(Octets), NEW r \in Seq(Octets),
         Has(der, pos, q \o r)
  PROVE  InTwo(der, pos, q, r)
<1>1. /\ Len(q \o r) = Len(q) + Len(r) /\ Len(q) \in Nat /\ Len(r) \in Nat /\ Len(der) \in Nat
      /\ \A i \in 1 .. Len(q) : (q \o r)[i] = q[i]
      /\ \A i \in 1 .. Len(r) : (q \o r)[Len(q) + i] = r[i]
  OBVIOUS
<1>3. pos \in Nat /\ pos + Len(q \o r) <= Len(der)
  BY DEF Has
<1>4. \A i \in 1 .. Len(q) + Len(r) : der[pos + i] = (q \o r)[i]
  BY <1>1 DEF Has
<1>5. Has(der, pos, q)
  BY <1>1, <1>3, <1>4 DEF Has
<1>6. ASSUME NEW i \in 1 .. Len(r) PROVE der[(pos + Len(q)) + i] = r[i]
  <2>1. Len(q) + i \in 1 .. Len(q) + Len(r) /\ (pos + Len(q)) + i = pos + (Len(q) + i)
    BY <1>1, <1>3
  <2> QED  BY <1>1, <1>4, <2>1
<1>7. Has(der, pos + Len(q), r)
  BY <1>1, <1>3, <1>6 DEF Has
<1> QED  BY <1>1, <1>5, <1>7 DEF InTwo

LEMMA LengthIsBytes ==
  ASSUME NEW n \in Nat
  PROVE  DerLength(n) \in Seq(Octets) /\ Len(DerLength(n)) \in 1 .. 4
<1>1. /\ n \in Octets /\ n \div 256 \in Octets /\ n % 256 \in Octets /\ n \div 65536 \in Octets
      /\ (n \div 256) % 256 \in Octets /\ 129 \in Octets /\ 130 \in Octets /\ 131 \in Octets
  BY SMT DEF Octets
<1>2. CASE n < 128
  BY <1>1, <1>2, SMT DEF DerLength
<1>3. CASE n >= 128 /\ n < 256
  BY <1>1, <1>3, SMT DEF DerLength
<1>4. CASE n >= 256 /\ n < 65536
  BY <1>1, <1>4, SMT DEF DerLength
<1>5. CASE n >= 65536
  BY <1>1, <1>5, SMT DEF DerLength
<1> QED  BY <1>2, <1>3, <1>4, <1>5, SMT

(* parse_asn1_length reads what DER writes.                                *)
(* A length that is written in m further bytes.                            *)
LEMMA LongLengthIsRead ==
  ASSUME NEW der, NEW pos \in Nat, Len(der) \in Nat, NEW m \in 1 .. 4,
         Byte(der, pos) = 128 + m, (pos + 1) + m <= Len(der)
  PROVE  parse_asn1_length(der, pos) = <<Unsigned(der, pos + 1, m), (pos + 1) + m>>
<1> DEFINE first == Byte(der, pos)
<1>1. first - 128 = m /\ ~(first < 0) /\ ~(first < 128) /\ ~(m > 4 \/ (pos + 1) + m > Len(der))
  <2> HIDE DEF first
  <2>1. first = 128 + m
    BY DEF first
  <2> QED  BY <2>1
<1> QED  BY <1>1, Zenon DEF parse_asn1_length

LEMMA FourBytes ==
  ASSUME NEW der, NEW pos \in Nat, NEW q, NEW a, NEW b, NEW c, NEW d,
         q = <<a, b, c, d>>, \A i \in 1 .. Len(q) : der[pos + i] = q[i]
  PROVE  /\ Len(q) = 4 /\ der[pos + 1] = a /\ der[(pos + 1) + 1] = b
         /\ der[(pos + 1) + 2] = c /\ der[(pos + 1) + 3] = d
<1>1. Len(q) = 4 /\ q[1] = a /\ q[2] = b /\ q[3] = c /\ q[4] = d
  OBVIOUS
<1>2. (pos + 1) + 1 = pos + 2 /\ (pos + 1) + 2 = pos + 3 /\ (pos + 1) + 3 = pos + 4
  OBVIOUS
<1>3. \A i \in 1 .. 4 : der[pos + i] = q[i]
  BY <1>1
<1>4. der[pos + 1] = q[1] /\ der[pos + 2] = q[2] /\ der[pos + 3] = q[3] /\ der[pos + 4] = q[4]
  BY <1>3
<1> QED  BY <1>1, <1>2, <1>4

LEMMA LengthIsRead ==
  ASSUME NEW der \in Seq(Octets), NEW pos, NEW n \in Nat,
         Has(der, pos, DerLength(n))
  PROVE  parse_asn1_length(der, pos) = <<n, pos + Len(DerLength(n))>>
<1> DEFINE q == DerLength(n)
<1>1. pos \in Nat /\ Len(der) \in Nat /\ pos + Len(q) <= Len(der)
  BY DEF Has
<1>2. \A i \in 1 .. Len(q) : der[pos + i] = q[i]
  BY DEF Has
<1>3. CASE n < 128
  <2>1. q = <<n>>
    BY <1>3 DEF DerLength
  <2>2. Len(q) = 1 /\ der[pos + 1] = n
    BY <1>2, <2>1
  <2> HIDE DEF q
  <2>3. Byte(der, pos) = n
    BY <1>1, <2>2 DEF Byte
  <2>4. parse_asn1_length(der, pos) = <<n, pos + 1>>
    BY <1>3, <2>3 DEF parse_asn1_length
  <2> QED  BY <2>2, <2>4 DEF q
<1>4. CASE n >= 128 /\ n < 256
  <2>1. q = <<129, n>>
    BY <1>4 DEF DerLength
  <2>2. Len(q) = 2 /\ der[pos + 1] = 129 /\ der[(pos + 1) + 1] = n
    BY <1>1, <1>2, <2>1
  <2> HIDE DEF q
  <2>3. Byte(der, pos) = 129
    BY <1>1, <2>2 DEF Byte
  <2>4. Unsigned(der, pos + 1, 1) = n
    BY <2>2 DEF Unsigned
  <2>5. parse_asn1_length(der, pos) = <<n, pos + 2>>
    <3>1. 128 + 1 = 129 /\ 1 \in 1 .. 4 /\ (pos + 1) + 1 = pos + 2 /\ (pos + 1) + 1 <= Len(der)
      BY <1>1, <2>2
    <3> QED  BY <1>1, <2>3, <2>4, <3>1, LongLengthIsRead
  <2> QED  BY <2>2, <2>5 DEF q
<1>5. CASE n >= 256 /\ n < 65536
  <2>1. q = <<130, n \div 256, n % 256>>
    BY <1>5 DEF DerLength
  <2>2. Len(q) = 3 /\ der[pos + 1] = 130 /\ der[(pos + 1) + 1] = n \div 256 /\ der[(pos + 1) + 2] = n % 256
    BY <1>1, <1>2, <2>1
  <2> HIDE DEF q
  <2>3. Byte(der, pos) = 130
    BY <1>1, <2>2 DEF Byte
  <2>4. Unsigned(der, pos + 1, 2) = 256 * (n \div 256) + (n % 256)
    BY <2>2 DEF Unsigned
  <2>5. Unsigned(der, pos + 1, 2) = n
    BY <2>4
  <2>6. parse_asn1_length(der, pos) = <<n, pos + 3>>
    <3>1. 128 + 2 = 130 /\ 2 \in 1 .. 4 /\ (pos + 1) + 2 = pos + 3 /\ (pos + 1) + 2 <= Len(der)
      BY <1>1, <2>2
    <3> QED  BY <1>1, <2>3, <2>5, <3>1, LongLengthIsRead
  <2> QED  BY <2>2, <2>6 DEF q
<1>6. CASE n >= 65536
  <2>1. q = <<131, n \div 65536, (n \div 256) % 256, n % 256>>
    BY <1>6 DEF DerLength
  <2> HIDE DEF q
  <2>2. /\ Len(q) = 4 /\ der[pos + 1] = 131 /\ der[(pos + 1) + 1] = n \div 65536
        /\ der[(pos + 1) + 2] = (n \div 256) % 256 /\ der[(pos + 1) + 3] = n % 256
    BY <1>1, <1>2, <2>1, FourBytes, SMT
  <2>3. Byte(der, pos) = 131
    BY <1>1, <2>2 DEF Byte
  <2>4. Unsigned(der, pos + 1, 3) = 256 * (256 * (n \div 65536) + ((n \div 256) % 256)) + (n % 256)
    BY <2>2 DEF Unsigned
  <2>5. Unsigned(der, pos + 1, 3) = n
    BY <2>4
  <2>6. parse_asn1_length(der, pos) = <<n, pos + 4>>
    <3>1. 128 + 3 = 131 /\ 3 \in 1 .. 4 /\ (pos + 1) + 3 = pos + 4 /\ (pos + 1) + 3 <= Len(der)
      BY <1>1, <2>2
    <3> QED  BY <1>1, <2>3, <2>5, <3>1, LongLengthIsRead
  <2> QED  BY <2>2, <2>6 DEF q
<1> QED  BY <1>3, <1>4, <1>5, <1>6

TlvIsBytes(tag, v) == Tlv(tag, v) \in Seq(Octets) /\ Len(Tlv(tag, v)) \in Nat /\ Len(v) < Len(Tlv(tag, v))

LEMMA TlvBytes ==
  ASSUME NEW tag \in Octets, NEW v \in Seq(Octets)
  PROVE  TlvIsBytes(tag, v)
<1>1. DerLength(Len(v)) \in Seq(Octets) /\ Len(DerLength(Len(v))) \in 1 .. 4
  BY LengthIsBytes
<1>2. <<tag>> \in Seq(Octets) /\ Len(<<tag>>) = 1
  OBVIOUS
<1>3. <<tag>> \o DerLength(Len(v)) \in Seq(Octets)
  BY <1>1, <1>2
<1> QED  BY <1>1, <1>2, <1>3 DEF Tlv, TlvIsBytes

(* The value of what stands at pos, and the position after it.             *)
TlvIsRead(der, pos, tag, v) ==
  LET at == pos + Len(Tlv(tag, v)) - Len(v)
  IN /\ Byte(der, pos) = tag
     /\ parse_asn1_length(der, pos + 1) = <<Len(v), at>>
     /\ skip_tag_and_length(der, pos, tag) = at
     /\ skip_tlv(der, pos) = pos + Len(Tlv(tag, v))
     /\ Has(der, at, v)

LEMMA TlvRead ==
  ASSUME NEW der \in Seq(Octets), NEW pos, NEW tag \in Octets, NEW v \in Seq(Octets),
         Has(der, pos, Tlv(tag, v))
  PROVE  TlvIsRead(der, pos, tag, v)
<1> DEFINE l == DerLength(Len(v))
           t == <<tag>>
           h == t \o l
           at == pos + Len(Tlv(tag, v)) - Len(v)
<1>1. l \in Seq(Octets) /\ Len(l) \in 1 .. 4
  BY LengthIsBytes
<1>2. t \in Seq(Octets) /\ Len(t) = 1 /\ t[1] = tag
  OBVIOUS
<1>3. h \in Seq(Octets) /\ Tlv(tag, v) = h \o v
  BY <1>1, <1>2 DEF Tlv
<1> HIDE DEF l, t, h
<1>4. InTwo(der, pos, h, v) /\ InTwo(der, pos, t, l)
  <2>1. InTwo(der, pos, h, v)
    BY <1>3, HasInTwo, Zenon
  <2>2. Has(der, pos, h)
    BY <2>1 DEF InTwo
  <2>3. Has(der, pos, t \o l)
    BY <2>2 DEF h
  <2>4. InTwo(der, pos, t, l)
    BY <1>1, <1>2, <2>3, HasInTwo, Zenon
  <2> QED  BY <2>1, <2>4
<1>5. /\ Has(der, pos, t) /\ Has(der, pos + 1, l) /\ Len(h) = 1 + Len(l)
      /\ Has(der, pos + Len(h), v) /\ Len(Tlv(tag, v)) = Len(h) + Len(v)
  BY <1>2, <1>3, <1>4 DEF InTwo, h
<1>6. pos \in Nat /\ Len(der) \in Nat /\ pos + 1 <= Len(der) /\ der[pos + 1] = tag
  BY <1>2, <1>5 DEF Has
<1>7. Byte(der, pos) = tag
  BY <1>6 DEF Byte
<1>8. Len(v) \in Nat
  OBVIOUS
<1>9. parse_asn1_length(der, pos + 1) = <<Len(v), (pos + 1) + Len(l)>>
  BY <1>5, <1>8, LengthIsRead DEF l
<1>10. at = (pos + 1) + Len(l) /\ at = pos + Len(h)
       /\ Len(v) + at = pos + Len(Tlv(tag, v)) /\ at \in Nat
  BY <1>1, <1>5, <1>6, <1>8
<1> HIDE DEF at
<1>11. parse_asn1_length(der, pos + 1) = <<Len(v), at>>
  BY <1>9, <1>10
<1>12. skip_tag_and_length(der, pos, tag) = at /\ skip_tlv(der, pos) = pos + Len(Tlv(tag, v))
  <2> DEFINE length == parse_asn1_length(der, pos + 1)
  <2>1. length # NoTime /\ length[1] = Len(v) /\ length[2] = at
    BY <1>11 DEF NoTime
  <2>2. skip_tag_and_length(der, pos, tag) = length[2] /\ skip_tlv(der, pos) = length[1] + length[2]
    <3>1. ~(pos < 0)
      BY <1>6
    <3>2. length # NoTime
      BY <2>1
    <3>3. ~(pos < 0 \/ length = NoTime) /\ ~(pos < 0 \/ Byte(der, pos) # tag \/ length = NoTime)
      BY <1>7, <3>1, <3>2, Zenon
    <3>4. skip_tag_and_length(der, pos, tag) = length[2]
      BY <3>3, Zenon DEF skip_tag_and_length
    <3>5. skip_tlv(der, pos) = length[1] + length[2]
      BY <3>3, ZenonT(60) DEF skip_tlv
    <3> QED  BY <3>4, <3>5
  <2> HIDE DEF length
  <2> QED  BY <1>10, <2>1, <2>2
<1>13. Has(der, at, v)
  BY <1>5, <1>10
<1> QED  BY <1>7, <1>11, <1>12, <1>13 DEF TlvIsRead, at

Written(v, k, n) == Has(v, k, TwoDigits(n)) /\ n \in 0 .. 99 /\ v \in Seq(Octets)

LEMMA TwoDigitsBytes ==
  ASSUME NEW n \in 0 .. 99
  PROVE  TwoDigits(n) \in Seq(Octets) /\ Len(TwoDigits(n)) = 2
<1>1. 48 + (n \div 10) \in Octets /\ 48 + (n % 10) \in Octets
  BY SMT DEF Octets
<1> QED  BY <1>1, SMT DEF TwoDigits

Digit(d, x) == d \in 0 .. 9 /\ x = 48 + d /\ x \in 48 .. 57 /\ x - 48 = d

LEMMA DigitsOf ==
  ASSUME NEW v, NEW k, NEW n, Written(v, k, n)
  PROVE  /\ k \in Nat /\ Len(v) \in Nat /\ k + 2 <= Len(v)
         /\ \E d, e \in 0 .. 9 : n = 10 * d + e /\ Digit(d, v[k + 1]) /\ Digit(e, v[k + 2])
<1> DEFINE d == n \div 10
           e == n % 10
<1>1. /\ k \in Nat /\ Len(v) \in Nat /\ k + 2 <= Len(v) /\ v[k + 1] = 48 + d /\ v[k + 2] = 48 + e
  <2>1. Len(TwoDigits(n)) = 2 /\ TwoDigits(n)[1] = 48 + d /\ TwoDigits(n)[2] = 48 + e
    BY DEF TwoDigits
  <2> QED  BY <2>1, SMT DEF Has, Written
<1>2. n \in Nat /\ n <= 99
  BY DEF Written
<1>3. d \in 0 .. 9 /\ e \in 0 .. 9 /\ n = 10 * d + e
  BY <1>2, SMT
<1> HIDE DEF d, e
<1>4. \A c \in 0 .. 9 : Digit(c, 48 + c)
  BY SMT DEF Digit
<1>5. Digit(d, v[k + 1]) /\ Digit(e, v[k + 2])
  BY <1>1, <1>3, <1>4, Zenon
<1> QED  BY <1>1, <1>3, <1>5, Zenon

LEMMA TwoDigitsRead ==
  ASSUME NEW v, NEW k, NEW n, Written(v, k, n)
  PROVE  Digits(v, k + 1, 2) = n
<1>1. k \in Nat /\ Len(v) \in Nat /\ k + 2 <= Len(v)
  BY DigitsOf
<1>2. PICK d \in 0 .. 9, e \in 0 .. 9 : n = 10 * d + e /\ Digit(d, v[k + 1]) /\ Digit(e, v[k + 2])
  BY DigitsOf, Zenon
<1>3. \A i \in k + 1 .. (k + 1) + 2 - 1 : v[i] \in 48 .. 57
  <2> SUFFICES ASSUME NEW i \in k + 1 .. (k + 1) + 2 - 1 PROVE v[i] \in 48 .. 57
    OBVIOUS
  <2>1. i = k + 1 \/ i = k + 2
    BY <1>1, SMT
  <2> QED  BY <1>2, <2>1, Zenon DEF Digit
<1>4. Digits(v, k + 1, 2) = 10 * (v[(k + 1) + 0] - 48) + (v[(k + 1) + 1] - 48)
  BY <1>1, <1>3, SMT DEF Digits
<1>5. (k + 1) + 0 = k + 1 /\ (k + 1) + 1 = k + 2
  BY <1>1, SMT
<1>6. v[(k + 1) + 0] - 48 = d /\ v[(k + 1) + 1] - 48 = e
  BY <1>2, <1>5, Zenon DEF Digit
<1> QED  BY <1>2, <1>4, <1>6, Zenon

LEMMA FourDigitsRead ==
  ASSUME NEW v, NEW m, NEW n, NEW k, NEW l, Written(v, k, m), Written(v, l, n), k = 0, l = 2
  PROVE  Digits(v, 1, 4) = 100 * m + n
<1>1. Len(v) \in Nat /\ l + 2 <= Len(v)
  BY DigitsOf
<1>2. PICK b \in 0 .. 9, c \in 0 .. 9 : m = 10 * b + c /\ Digit(b, v[k + 1]) /\ Digit(c, v[k + 2])
  BY DigitsOf, Zenon
<1>3. PICK d \in 0 .. 9, e \in 0 .. 9 : n = 10 * d + e /\ Digit(d, v[l + 1]) /\ Digit(e, v[l + 2])
  BY DigitsOf, Zenon
<1>4. k + 1 = 1 /\ k + 2 = 1 + 1 /\ l + 1 = 1 + 2 /\ l + 2 = 1 + 3 /\ 1 + 0 = 1
  BY SMT
<1>5. Digit(b, v[1 + 0]) /\ Digit(c, v[1 + 1]) /\ Digit(d, v[1 + 2]) /\ Digit(e, v[1 + 3])
  BY <1>2, <1>3, <1>4, SMT
<1>6. \A i \in 1 .. 1 + 4 - 1 : v[i] \in 48 .. 57
  BY <1>5, SMT DEF Digit
<1>7. Digits(v, 1, 4) = 1000 * (v[1 + 0] - 48) + 100 * (v[1 + 1] - 48) + 10 * (v[1 + 2] - 48) + (v[1 + 3] - 48)
  BY <1>1, <1>6, SMT DEF Digits
<1>8. v[1 + 0] - 48 = b /\ v[1 + 1] - 48 = c /\ v[1 + 2] - 48 = d /\ v[1 + 3] - 48 = e
  BY <1>5, SMT DEF Digit
<1>9. Digits(v, 1, 4) = 1000 * b + 100 * c + 10 * d + e
  BY <1>7, <1>8, SMT
<1> QED  BY <1>2, <1>3, <1>9, SMT

(* The point in time that a time is.                                       *)
AnyYear == {y \in Nat : y <= 9999}

Years == {y \in AnyYear : y >= 1970}

LEMMA YearIsThere ==
  ASSUME NEW y \in Years
  PROVE  y # -1
BY SMT DEF Years, AnyYear

LEMMA YearInTwo ==
  ASSUME NEW y \in AnyYear
  PROVE  y % 100 \in 0 .. 99 /\ y \div 100 \in 0 .. 99
<1>1. y \in Int /\ 0 <= y /\ y <= 9999
  BY SMT DEF AnyYear
<1>2. y % 100 \in 0 .. 99
  BY <1>1, SMT
<1>3. y \div 100 \in 0 .. 99
  BY <1>1, SMT
<1> QED  BY <1>2, <1>3

Times == [year : AnyYear, month : 1 .. 12, day : 1 .. 31,
          hour : 0 .. 23, minute : 0 .. 59, second : 0 .. 60]

Clock(t) == TwoDigits(t.month) \o TwoDigits(t.day) \o TwoDigits(t.hour)
              \o TwoDigits(t.minute) \o TwoDigits(t.second) \o <<90>>

(* The month, day, hour, minute and second stand at k.                     *)
ClockAt(v, k, t) ==
  /\ Written(v, k, t.month)
  /\ Written(v, k + 2, t.day)
  /\ Written(v, k + 4, t.hour)
  /\ Written(v, k + 6, t.minute)
  /\ Written(v, k + 8, t.second)

LEMMA ClockBytes ==
  ASSUME NEW t \in Times
  PROVE  Clock(t) \in Seq(Octets) /\ Len(Clock(t)) = 11
<1> DEFINE a == TwoDigits(t.month)
           b == TwoDigits(t.day)
           c == TwoDigits(t.hour)
           d == TwoDigits(t.minute)
           e == TwoDigits(t.second)
           z == <<90>>
           p == a \o b
           q == p \o c
           r == q \o d
           s == r \o e
<1>1. /\ t.month \in 0 .. 99 /\ t.day \in 0 .. 99 /\ t.hour \in 0 .. 99
      /\ t.minute \in 0 .. 99 /\ t.second \in 0 .. 99
  BY SMT DEF Times
<1>2. /\ a \in Seq(Octets) /\ b \in Seq(Octets) /\ c \in Seq(Octets) /\ d \in Seq(Octets) /\ e \in Seq(Octets)
      /\ Len(a) = 2 /\ Len(b) = 2 /\ Len(c) = 2 /\ Len(d) = 2 /\ Len(e) = 2
  BY <1>1, TwoDigitsBytes, Zenon
<1>3. z \in Seq(Octets) /\ Len(z) = 1
  BY SMT DEF Octets
<1> HIDE DEF a, b, c, d, e, z
<1>4. p \in Seq(Octets) /\ Len(p) = Len(a) + Len(b)
  BY <1>2, JoinBytes, Zenon
<1>5. q \in Seq(Octets) /\ Len(q) = Len(p) + Len(c)
  BY <1>2, <1>4, JoinBytes, Zenon
<1>6. r \in Seq(Octets) /\ Len(r) = Len(q) + Len(d)
  BY <1>2, <1>5, JoinBytes, Zenon
<1>7. s \in Seq(Octets) /\ Len(s) = Len(r) + Len(e)
  BY <1>2, <1>6, JoinBytes, Zenon
<1>8. s \o z \in Seq(Octets) /\ Len(s \o z) = Len(s) + Len(z)
  BY <1>3, <1>7, JoinBytes, Zenon
<1>9. Clock(t) = s \o z
  BY Zenon DEF Clock, a, b, c, d, e, z
<1> HIDE DEF p, q, r, s
<1>10. Len(s \o z) = 11
  BY <1>2, <1>3, <1>4, <1>5, <1>6, <1>7, <1>8, SMT
<1> QED  BY <1>8, <1>9, <1>10, Zenon

LEMMA ClockIsWritten ==
  ASSUME NEW t \in Times, NEW v \in Seq(Octets), NEW k \in Nat, Has(v, k, Clock(t))
  PROVE  ClockAt(v, k, t)
<1> DEFINE a == TwoDigits(t.month)
           b == TwoDigits(t.day)
           c == TwoDigits(t.hour)
           d == TwoDigits(t.minute)
           e == TwoDigits(t.second)
           z == <<90>>
<1>1. /\ t.month \in 0 .. 99 /\ t.day \in 0 .. 99 /\ t.hour \in 0 .. 99
      /\ t.minute \in 0 .. 99 /\ t.second \in 0 .. 99
  BY SMT DEF Times
<1>2. /\ a \in Seq(Octets) /\ b \in Seq(Octets) /\ c \in Seq(Octets) /\ d \in Seq(Octets) /\ e \in Seq(Octets)
      /\ Len(a) = 2 /\ Len(b) = 2 /\ Len(c) = 2 /\ Len(d) = 2 /\ Len(e) = 2
  BY <1>1, TwoDigitsBytes, Zenon
<1>3. z \in Seq(Octets)
  BY SMT DEF Octets
<1>4. Has(v, k, a \o b \o c \o d \o e \o z)
  BY DEF Clock
<1> HIDE DEF a, b, c, d, e, z
<1> DEFINE p == a \o b
           q == p \o c
           r == q \o d
           s == r \o e
<1>5. /\ p \in Seq(Octets) /\ q \in Seq(Octets) /\ r \in Seq(Octets) /\ s \in Seq(Octets)
      /\ Len(p) = 4 /\ Len(q) = 6 /\ Len(r) = 8
  <2>1. p \in Seq(Octets) /\ Len(p) = Len(a) + Len(b)
    BY <1>2, JoinBytes, Zenon
  <2>2. q \in Seq(Octets) /\ Len(q) = Len(p) + Len(c)
    BY <1>2, <2>1, JoinBytes, Zenon
  <2>3. r \in Seq(Octets) /\ Len(r) = Len(q) + Len(d)
    BY <1>2, <2>2, JoinBytes, Zenon
  <2>4. s \in Seq(Octets)
    BY <1>2, <2>3, JoinBytes, Zenon
  <2> HIDE DEF p, q, r, s
  <2> QED  BY <1>2, <2>1, <2>2, <2>3, <2>4
<1>6. Has(v, k, s)
  <2> HIDE DEF s
  <2>1. InTwo(v, k, s, z)
    BY <1>3, <1>4, <1>5, HasInTwo, Zenon DEF s
  <2> QED  BY <2>1 DEF InTwo
<1>7. Has(v, k, r) /\ Has(v, k + 8, e)
  <2>1. InTwo(v, k, r, e)
    BY <1>2, <1>5, <1>6, HasInTwo, Zenon
  <2> HIDE DEF r
  <2> QED  BY <1>5, <2>1 DEF InTwo
<1>8. Has(v, k, q) /\ Has(v, k + 6, d)
  <2>1. InTwo(v, k, q, d)
    BY <1>2, <1>5, <1>7, HasInTwo, Zenon
  <2> HIDE DEF q
  <2> QED  BY <1>5, <2>1 DEF InTwo
<1>9. Has(v, k, p) /\ Has(v, k + 4, c)
  <2>1. InTwo(v, k, p, c)
    BY <1>2, <1>5, <1>8, HasInTwo, Zenon
  <2> HIDE DEF p
  <2> QED  BY <1>5, <2>1 DEF InTwo
<1>10. Has(v, k, a) /\ Has(v, k + 2, b)
  <2>1. InTwo(v, k, a, b)
    BY <1>2, <1>9, HasInTwo, Zenon
  <2> QED  BY <1>2, <2>1 DEF InTwo
<1> QED  BY <1>1, <1>7, <1>8, <1>9, <1>10 DEF ClockAt, Written, a, b, c, d, e

LEMMA ClockIsRead ==
  ASSUME NEW v, NEW k, NEW t, ClockAt(v, k, t)
  PROVE  /\ Digits(v, k + 1, 2) = t.month /\ Digits(v, (k + 2) + 1, 2) = t.day
         /\ Digits(v, (k + 4) + 1, 2) = t.hour /\ Digits(v, (k + 6) + 1, 2) = t.minute
         /\ Digits(v, (k + 8) + 1, 2) = t.second
BY TwoDigitsRead, Zenon DEF ClockAt

LEMMA Centuries ==
  ASSUME NEW y \in Years
  PROVE  /\ 100 * (y \div 100) + (y % 100) = y
         /\ y < 2050 => y = IF y % 100 >= 50 THEN 1900 + (y % 100) ELSE 2000 + (y % 100)
         /\ y % 100 \in 0 .. 99 /\ y \div 100 \in 0 .. 99
<1>1. 100 * (y \div 100) + (y % 100) = y /\ y % 100 \in 0 .. 99 /\ y \div 100 \in 19 .. 99
  BY SMT DEF Years, AnyYear
<1>2. ASSUME y < 2050 PROVE y \div 100 \in {19, 20}
  BY <1>2, SMT DEF Years, AnyYear
<1> QED  BY <1>1, <1>2, SMT DEF Years, AnyYear

(* The tag, the position of the month and the digits of the year.          *)
YearAt(v, k, tag, y) ==
  \/ tag = 23 /\ k = 2 /\ y < 2050 /\ \E i : i = 0 /\ Written(v, i, y % 100)
  \/ tag = 24 /\ k = 4 /\ \E i, j : i = 0 /\ j = 2 /\ Written(v, i, y \div 100) /\ Written(v, j, y % 100)

LEMMA YearIsRead ==
  ASSUME NEW v, NEW k, NEW tag, NEW y \in Years, YearAt(v, k, tag, y)
  PROVE  YearIn(tag, v) = y
<1> DEFINE low == y % 100
           high == y \div 100
<1>1. CASE tag = 24
  <2>1. PICK i, j : i = 0 /\ j = 2 /\ Written(v, i, high) /\ Written(v, j, low)
    BY <1>1, SMT DEF YearAt
  <2>2. 100 * high + low = y
    BY Centuries, SMT
  <2> HIDE DEF high, low
  <2>3. Digits(v, 1, 4) = 100 * high + low
    BY <2>1, FourDigitsRead, SMT
  <2> QED  BY <1>1, <2>2, <2>3, SMT DEF YearIn
<1>2. CASE tag = 23
  <2>1. PICK i : i = 0 /\ Written(v, i, low)
    BY <1>2, SMT DEF YearAt
  <2>2. y < 2050
    BY <1>2, SMT DEF YearAt
  <2>3. low \in 0 .. 99 /\ y = IF low >= 50 THEN 1900 + low ELSE 2000 + low
    BY <2>2, Centuries, SMT
  <2> HIDE DEF low
  <2>4. Digits(v, i + 1, 2) = low
    BY <2>1, TwoDigitsRead, SMT
  <2>5. Digits(v, 1, 2) = low
    BY <2>1, <2>4, SMT
  <2> QED  BY <1>2, <2>3, <2>5, SMT DEF YearIn
<1> QED  BY <1>1, <1>2, SMT DEF YearAt

TimeOf(t) ==
  LET days == days_from_civil(t.year, t.month, t.day) - Epoch
      secs == 3600 * t.hour + 60 * t.minute + t.second
  IN IF Negative(days, secs) THEN NoTime ELSE <<days, secs>>

(* parse_asn1_time on the contents of a time.                              *)
LEMMA TimeIsRead ==
  ASSUME NEW v, NEW k, NEW t \in Times, NEW tag, t.year \in Years,
         ClockAt(v, k, t), YearAt(v, k, tag, t.year)
  PROVE  parse_asn1_time(tag, v) = TimeOf(t)
<1> DEFINE year == YearIn(tag, v)
           from == IF tag = 24 THEN 5 ELSE 3
           part == [i \in 0 .. 4 |-> Digits(v, from + 2 * i, 2)]
           days == days_from_civil(year, part[0], part[1]) - Epoch
           secs == 3600 * part[2] + 60 * part[3] + part[4]
<1>1. t.year \in Years
  OBVIOUS
<1>2. year = t.year
  BY <1>1, YearIsRead, Zenon
<1>3. /\ Digits(v, k + 1, 2) = t.month /\ Digits(v, (k + 2) + 1, 2) = t.day
      /\ Digits(v, (k + 4) + 1, 2) = t.hour /\ Digits(v, (k + 6) + 1, 2) = t.minute
      /\ Digits(v, (k + 8) + 1, 2) = t.second
  BY ClockIsRead, Zenon
<1>4. from = k + 1 /\ k \in {2, 4} /\ tag \in {23, 24}
  BY SMT DEF YearAt
<1>5. part[0] = t.month /\ part[1] = t.day /\ part[2] = t.hour /\ part[3] = t.minute /\ part[4] = t.second
  <2> HIDE DEF from
  <2>1. /\ from + 2 * 0 = k + 1 /\ from + 2 * 1 = (k + 2) + 1 /\ from + 2 * 2 = (k + 4) + 1
        /\ from + 2 * 3 = (k + 6) + 1 /\ from + 2 * 4 = (k + 8) + 1
    BY <1>4, SMT
  <2>2. /\ part[0] = Digits(v, from + 2 * 0, 2) /\ part[1] = Digits(v, from + 2 * 1, 2)
        /\ part[2] = Digits(v, from + 2 * 2, 2) /\ part[3] = Digits(v, from + 2 * 3, 2)
        /\ part[4] = Digits(v, from + 2 * 4, 2)
    BY SMT
  <2> HIDE DEF part
  <2> QED  BY <1>3, <2>1, <2>2, Zenon
<1>6. /\ t.month \in Nat /\ t.day \in Nat /\ t.hour \in Nat /\ t.minute \in Nat /\ t.second \in Nat
  BY SMT DEF Times
<1>7. parse_asn1_time(tag, v)
        = IF tag \notin {23, 24} \/ year = -1 \/ (\E i \in 0 .. 4 : part[i] = -1) THEN NoTime
          ELSE SinceEpoch(year, part)
  BY Zenon DEF parse_asn1_time
<1> HIDE DEF year, from, part
<1>8. ~(tag \notin {23, 24} \/ year = -1 \/ (\E i \in 0 .. 4 : part[i] = -1))
  <2>1. year # -1
    BY <1>1, <1>2, YearIsThere, Zenon
  <2>2. ASSUME NEW i \in 0 .. 4 PROVE part[i] # -1
    <3>1. i = 0 \/ i = 1 \/ i = 2 \/ i = 3 \/ i = 4
      BY SMT
    <3>2. part[i] \in Nat
      BY <1>5, <1>6, <3>1
    <3> QED  BY <3>2, SMT
  <2> QED  BY <1>4, <2>1, <2>2
<1>9. days = days_from_civil(t.year, t.month, t.day) - Epoch
  BY <1>2, <1>5
<1>10. secs = 3600 * t.hour + 60 * t.minute + t.second
  BY <1>5
<1>11. SinceEpoch(year, part) = IF Negative(days, secs) THEN NoTime ELSE <<days, secs>>
  BY SMT DEF SinceEpoch
<1> HIDE DEF days, secs
<1>12. parse_asn1_time(tag, v) = IF Negative(days, secs) THEN NoTime ELSE <<days, secs>>
  BY <1>7, <1>8, <1>11, Zenon
<1> QED  BY <1>9, <1>10, <1>12, SMT DEF TimeOf

TimeTag(t) == IF t.year < 2050 THEN 23 ELSE 24

YearDigits(t) ==
  IF t.year < 2050 THEN TwoDigits(t.year % 100)
  ELSE TwoDigits(t.year \div 100) \o TwoDigits(t.year % 100)

Contents(t) == YearDigits(t) \o Clock(t)

LEMMA TimeIsTlv ==
  ASSUME NEW t
  PROVE  DerTime(t) = Tlv(TimeTag(t), Contents(t))
<1>1. CASE t.year < 2050
  BY <1>1, SMT DEF DerTime, TimeTag, YearDigits, Contents, Clock
<1>2. CASE ~(t.year < 2050)
  BY <1>2, SMT DEF DerTime, TimeTag, YearDigits, Contents, Clock
<1> QED  BY <1>1, <1>2

LEMMA YearBytes ==
  ASSUME NEW t \in Times
  PROVE  /\ YearDigits(t) \in Seq(Octets) /\ Len(YearDigits(t)) \in {2, 4}
         /\ Contents(t) \in Seq(Octets) /\ Len(Contents(t)) <= 15
<1> DEFINE low == TwoDigits(t.year % 100)
           high == TwoDigits(t.year \div 100)
<1>1. t.year \in AnyYear
  BY Zenon DEF Times
<1>2. t.year % 100 \in 0 .. 99 /\ t.year \div 100 \in 0 .. 99
  BY <1>1, YearInTwo, Zenon
<1>3. low \in Seq(Octets) /\ Len(low) = 2 /\ high \in Seq(Octets) /\ Len(high) = 2
  BY <1>2, TwoDigitsBytes, Zenon
<1>4. YearDigits(t) = IF t.year < 2050 THEN low ELSE high \o low
  BY SMT DEF YearDigits
<1> HIDE DEF low, high
<1>5. high \o low \in Seq(Octets) /\ Len(high \o low) = Len(high) + Len(low)
  BY <1>3, JoinBytes, Zenon
<1>6. YearDigits(t) \in Seq(Octets) /\ Len(YearDigits(t)) \in {2, 4}
  BY <1>3, <1>4, <1>5, SMT
<1>7. Clock(t) \in Seq(Octets) /\ Len(Clock(t)) = 11
  BY ClockBytes, Zenon
<1>8. Contents(t) \in Seq(Octets) /\ Len(Contents(t)) = Len(YearDigits(t)) + Len(Clock(t))
  BY <1>6, <1>7, JoinBytes, Zenon DEF Contents
<1>9. Len(Contents(t)) <= 15
  <2> DEFINE m == Len(YearDigits(t))
             n == Len(Contents(t))
  <2>1. m \in {2, 4} /\ n = m + 11
    BY <1>6, <1>7, <1>8, Zenon
  <2> HIDE DEF m, n
  <2>2. n <= 15
    BY <2>1, SMT
  <2> QED  BY <2>2, Zenon DEF n
<1> QED  BY <1>6, <1>8, <1>9, Zenon

LEMMA ContentsAreRead ==
  ASSUME NEW t \in Times, t.year \in Years
  PROVE  parse_asn1_time(TimeTag(t), Contents(t)) = TimeOf(t)
<1> DEFINE v == Contents(t)
           low == t.year % 100
           high == t.year \div 100
           k == Len(YearDigits(t))
<1>1. /\ YearDigits(t) \in Seq(Octets) /\ k \in {2, 4} /\ v \in Seq(Octets)
  BY YearBytes, Zenon
<1>2. Clock(t) \in Seq(Octets)
  BY ClockBytes, Zenon
<1>3. low \in 0 .. 99 /\ high \in 0 .. 99
  BY Centuries, SMT
<1>4. Has(v, 0, YearDigits(t)) /\ Has(v, 0 + k, Clock(t))
  <2>1. Has(v, 0, YearDigits(t) \o Clock(t))
    BY <1>1, HasItself, Zenon DEF Contents
  <2> HIDE DEF v
  <2>2. InTwo(v, 0, YearDigits(t), Clock(t))
    BY <1>1, <1>2, <2>1, HasInTwo, Zenon
  <2> QED  BY <2>2, Zenon DEF InTwo
<1> HIDE DEF v
<1>5. 0 + k = k /\ k \in Nat
  BY <1>1, SMT
<1>6. ClockAt(v, k, t)
  <2>1. Has(v, k, Clock(t))
    BY <1>4, <1>5, Zenon
  <2> HIDE DEF k
  <2> QED  BY <1>1, <1>5, <2>1, ClockIsWritten, Zenon
<1>7. YearAt(v, k, TimeTag(t), t.year)
  <2>1. TwoDigits(low) \in Seq(Octets) /\ Len(TwoDigits(low)) = 2
        /\ TwoDigits(high) \in Seq(Octets) /\ Len(TwoDigits(high)) = 2
    BY <1>3, TwoDigitsBytes, Zenon
  <2>2. CASE t.year < 2050
    <3>1. YearDigits(t) = TwoDigits(low) /\ TimeTag(t) = 23
      BY <2>2, SMT DEF YearDigits, TimeTag
    <3>2. Written(v, 0, low) /\ k = 2
      BY <1>1, <1>3, <1>4, <2>1, <3>1 DEF Written
    <3> HIDE DEF k
    <3> QED  BY <2>2, <3>1, <3>2, SMT DEF YearAt
  <2>3. CASE ~(t.year < 2050)
    <3> DEFINE h == TwoDigits(high)
               l == TwoDigits(low)
    <3>1. YearDigits(t) = h \o l /\ TimeTag(t) = 24
      BY <2>3, SMT DEF YearDigits, TimeTag
    <3>2. h \in Seq(Octets) /\ l \in Seq(Octets) /\ Len(h) = 2 /\ Len(l) = 2
      BY <2>1
    <3> HIDE DEF h, l
    <3>3. Has(v, 0, h \o l)
      BY <1>4, <3>1, Zenon
    <3>4. InTwo(v, 0, h, l)
      BY <1>1, <3>2, <3>3, HasInTwo, Zenon
    <3>5. Has(v, 0, h) /\ Has(v, 0 + Len(h), l) /\ Len(h \o l) = Len(h) + Len(l)
      BY <3>4, Zenon DEF InTwo
    <3>6. 0 + Len(h) = 2 /\ k = 4
      BY <3>1, <3>2, <3>5, SMT
    <3>7. Has(v, 2, l)
      BY <3>5, <3>6, Zenon
    <3>8. Written(v, 0, high) /\ Written(v, 2, low)
      BY <1>1, <1>3, <3>5, <3>7, Zenon DEF Written, h, l
    <3> HIDE DEF k
    <3> QED  BY <2>3, <3>1, <3>6, <3>8, SMT DEF YearAt
  <2> QED  BY <2>2, <2>3
<1> HIDE DEF k
<1> QED  BY <1>6, <1>7, TimeIsRead, Zenon DEF v

(* Where the version ends, and where the validity begins.                  *)
AfterVersion(der, tbs) == IF tbs >= 0 /\ Byte(der, tbs) = 160 THEN skip_tlv(der, tbs) ELSE tbs

Validity(der, tbs) ==
  skip_tag_and_length(der, skip_tlv(der, skip_tlv(der, skip_tlv(der, AfterVersion(der, tbs)))), 48)

IsVersion(V) == V = <<>> \/ \E w \in Seq(Octets) : V = Tlv(160, w)

LEMMA VersionIsSkipped ==
  ASSUME NEW der \in Seq(Octets), NEW b, NEW V, NEW serial \in Seq(Octets), IsVersion(V),
         Has(der, b, V), Has(der, b + Len(V), Tlv(2, serial))
  PROVE  AfterVersion(der, b) = b + Len(V)
<1>1. b \in Nat
  BY DEF Has
<1>2. CASE V = <<>>
  <2>1. b + Len(V) = b
    BY <1>1, <1>2, SMT
  <2>2. Has(der, b, Tlv(2, serial)) /\ 2 \in Octets
    BY <2>1, SMT DEF Octets
  <2>3. Byte(der, b) = 2
    BY <2>2, TlvRead, Zenon DEF TlvIsRead
  <2> QED  BY <2>1, <2>3, SMT DEF AfterVersion
<1>3. ASSUME NEW w \in Seq(Octets), V = Tlv(160, w) PROVE AfterVersion(der, b) = b + Len(V)
  <2>1. Has(der, b, Tlv(160, w)) /\ 160 \in Octets
    BY <1>3, SMT DEF Octets
  <2>2. TlvIsRead(der, b, 160, w)
    BY <2>1, TlvRead, Zenon
  <2>3. Byte(der, b) = 160 /\ skip_tlv(der, b) = b + Len(V)
    BY <1>3, <2>2, Zenon DEF TlvIsRead
  <2> QED  BY <1>1, <2>3, SMT DEF AfterVersion
<1> QED  BY <1>2, <1>3, Zenon DEF IsVersion

LEMMA FieldsAreRead ==
  ASSUME NEW der \in Seq(Octets), NEW b, NEW V \in Seq(Octets), NEW serial \in Seq(Octets),
         NEW algorithm \in Seq(Octets), NEW issuer \in Seq(Octets), NEW x \in Seq(Octets),
         NEW rest \in Seq(Octets), IsVersion(V),
         Has(der, b, V \o Tlv(2, serial) \o Tlv(48, algorithm) \o Tlv(48, issuer) \o Tlv(48, x) \o rest)
  PROVE  Has(der, Validity(der, b), x)
<1> DEFINE S == Tlv(2, serial)
           A == Tlv(48, algorithm)
           I == Tlv(48, issuer)
           D == Tlv(48, x)
           p == V \o S
           q == p \o A
           r == q \o I
           s == r \o D
<1>1. 2 \in Octets /\ 48 \in Octets
  BY SMT DEF Octets
<1>2. S \in Seq(Octets) /\ A \in Seq(Octets) /\ I \in Seq(Octets) /\ D \in Seq(Octets)
  BY <1>1, TlvBytes, Zenon DEF TlvIsBytes
<1> HIDE DEF S, A, I, D
<1>3. p \in Seq(Octets) /\ q \in Seq(Octets) /\ r \in Seq(Octets) /\ s \in Seq(Octets)
  BY <1>2, JoinBytes, Zenon
<1>4. Has(der, b, s \o rest)
  BY Zenon DEF S, A, I, D
<1>5. InTwo(der, b, s, rest)
  <2> HIDE DEF s
  <2> QED  BY <1>3, <1>4, HasInTwo, Zenon
<1>6. InTwo(der, b, r, D)
  <2>1. Has(der, b, s)
    BY <1>5, Zenon DEF InTwo
  <2> HIDE DEF r
  <2> QED  BY <1>2, <1>3, <2>1, HasInTwo, Zenon
<1>7. InTwo(der, b, q, I)
  <2>1. Has(der, b, r)
    BY <1>6, Zenon DEF InTwo
  <2> HIDE DEF q
  <2> QED  BY <1>2, <1>3, <2>1, HasInTwo, Zenon
<1>8. InTwo(der, b, p, A)
  <2>1. Has(der, b, q)
    BY <1>7, Zenon DEF InTwo
  <2> HIDE DEF p
  <2> QED  BY <1>2, <1>3, <2>1, HasInTwo, Zenon
<1>9. InTwo(der, b, V, S)
  <2>1. Has(der, b, p)
    BY <1>8, Zenon DEF InTwo
  <2> QED  BY <1>2, <2>1, HasInTwo, Zenon
<1>10. /\ Has(der, b, V) /\ Has(der, b + Len(V), S) /\ Has(der, b + Len(p), A)
       /\ Has(der, b + Len(q), I) /\ Has(der, b + Len(r), D)
       /\ Len(p) = Len(V) + Len(S) /\ Len(q) = Len(p) + Len(A) /\ Len(r) = Len(q) + Len(I)
  BY <1>6, <1>7, <1>8, <1>9, Zenon DEF InTwo
<1>11. /\ b \in Nat /\ Len(V) \in Nat /\ Len(S) \in Nat /\ Len(A) \in Nat /\ Len(I) \in Nat
       /\ Len(p) \in Nat /\ Len(q) \in Nat /\ Len(r) \in Nat
  <2>1. b \in Nat
    BY <1>10, Zenon DEF Has
  <2> HIDE DEF p, q, r
  <2> QED  BY <1>2, <1>3, <2>1, LengthIsNat, Zenon
<1>12. AfterVersion(der, b) = b + Len(V)
  <2>1. Has(der, b, V) /\ Has(der, b + Len(V), Tlv(2, serial))
    BY <1>10, Zenon DEF S
  <2> QED  BY <2>1, VersionIsSkipped
<1> HIDE DEF p, q, r, s
<1>13. skip_tlv(der, b + Len(V)) = b + Len(p)
  <2>1. TlvIsRead(der, b + Len(V), 2, serial)
    BY <1>1, <1>10, TlvRead, Zenon DEF S
  <2>2. skip_tlv(der, b + Len(V)) = (b + Len(V)) + Len(S)
    BY <2>1, Zenon DEF TlvIsRead, S
  <2> QED  BY <1>10, <1>11, <2>2, SMT
<1>14. skip_tlv(der, b + Len(p)) = b + Len(q)
  <2>1. TlvIsRead(der, b + Len(p), 48, algorithm)
    BY <1>1, <1>10, TlvRead, Zenon DEF A
  <2>2. skip_tlv(der, b + Len(p)) = (b + Len(p)) + Len(A)
    BY <2>1, Zenon DEF TlvIsRead, A
  <2> QED  BY <1>10, <1>11, <2>2, SMT
<1>15. skip_tlv(der, b + Len(q)) = b + Len(r)
  <2>1. TlvIsRead(der, b + Len(q), 48, issuer)
    BY <1>1, <1>10, TlvRead, Zenon DEF I
  <2>2. skip_tlv(der, b + Len(q)) = (b + Len(q)) + Len(I)
    BY <2>1, Zenon DEF TlvIsRead, I
  <2> QED  BY <1>10, <1>11, <2>2, SMT
<1>16. TlvIsRead(der, b + Len(r), 48, x)
  BY <1>1, <1>10, TlvRead, Zenon DEF D
<1>17. Has(der, skip_tag_and_length(der, b + Len(r), 48), x)
  BY <1>16, Zenon DEF TlvIsRead
<1>18. Validity(der, b) = skip_tag_and_length(der, b + Len(r), 48)
  BY <1>12, <1>13, <1>14, <1>15, Zenon DEF Validity
<1> QED  BY <1>17, <1>18, Zenon

LEMMA SameSequence ==
  ASSUME NEW S, NEW s \in Seq(S), NEW t \in Seq(S),
         Len(s) = Len(t), \A i \in 1 .. Len(s) : s[i] = t[i]
  PROVE  s = t
OBVIOUS

(* The part of der that holds v.                                           *)
LEMMA PartHeld ==
  ASSUME NEW der \in Seq(Octets), NEW at, NEW v \in Seq(Octets), Has(der, at, v)
  PROVE  SubSeq(der, at + 1, Len(v) + at) = v /\ Len(v) + at <= Len(der)
<1>1. at \in Nat /\ Len(v) \in Nat /\ Len(der) \in Nat /\ at + Len(v) <= Len(der)
  BY DEF Has
<1>2. \A i \in 1 .. Len(v) : der[at + i] = v[i]
  BY DEF Has
<1> DEFINE part == SubSeq(der, at + 1, Len(v) + at)
<1>3. part \in Seq(Octets) /\ Len(part) = Len(v)
  BY <1>1
<1>4. ASSUME NEW i \in 1 .. Len(v) PROVE part[i] = v[i]
  <2>1. part[i] = der[at + i]
    BY <1>1
  <2> QED  BY <1>2, <2>1, Zenon
<1>5. part = v
  <2> HIDE DEF part
  <2> QED  BY <1>3, <1>4, SameSequence
<1> QED  BY <1>1, <1>5

LEMMA TimeTags ==
  ASSUME NEW t
  PROVE  TimeTag(t) \in Octets
BY SMT DEF TimeTag, Octets

LEMMA TimeBytes ==
  ASSUME NEW t \in Times
  PROVE  DerTime(t) \in Seq(Octets)
BY TimeIsTlv, TimeTags, YearBytes, TlvBytes, Zenon DEF TlvIsBytes

(* Past notBefore stands notAfter, which is read.                          *)
NotAfter(der, at) ==
  LET after  == skip_tlv(der, at)
      length == parse_asn1_length(der, after + 1)
  IN IF after < 0 \/ Byte(der, after) = -1 \/ length = NoTime THEN NoTime
     ELSE IF length[1] + length[2] > Len(der) THEN NoTime
     ELSE parse_asn1_time(Byte(der, after), SubSeq(der, length[2] + 1, length[1] + length[2]))

LEMMA NotAfterIsRead ==
  ASSUME NEW der \in Seq(Octets), NEW at, NEW before \in Times, NEW t \in Times, t.year \in Years,
         Has(der, at, DerTime(before) \o DerTime(t))
  PROVE  NotAfter(der, at) = TimeOf(t)
<1> DEFINE B == DerTime(before)
           T == DerTime(t)
           v == Contents(t)
           tag == TimeTag(t)
           after == at + Len(B)
           start == after + Len(Tlv(tag, v)) - Len(v)
           length == parse_asn1_length(der, after + 1)
<1>1. B \in Seq(Octets) /\ T \in Seq(Octets)
  BY TimeBytes, Zenon
<1>2. v \in Seq(Octets) /\ tag \in Octets
  BY TimeTags, YearBytes, Zenon
<1>3. Contents(before) \in Seq(Octets) /\ TimeTag(before) \in Octets
  BY TimeTags, YearBytes, Zenon
<1>4. InTwo(der, at, B, T)
  BY <1>1, HasInTwo, Zenon
<1>5. Has(der, at, B) /\ Has(der, after, T)
  BY <1>4, Zenon DEF InTwo
<1>6. skip_tlv(der, at) = after
  <2>1. Has(der, at, Tlv(TimeTag(before), Contents(before)))
    BY <1>5, TimeIsTlv, Zenon
  <2>2. TlvIsRead(der, at, TimeTag(before), Contents(before))
    BY <1>3, <2>1, TlvRead, Zenon
  <2> QED  BY <2>2, TimeIsTlv, Zenon DEF TlvIsRead
<1> HIDE DEF after
<1>7. TlvIsRead(der, after, tag, v)
  <2>1. Has(der, after, Tlv(tag, v))
    BY <1>5, TimeIsTlv, Zenon
  <2> QED  BY <1>2, <2>1, TlvRead, Zenon
<1>8. after \in Nat
  BY <1>5, Zenon DEF Has
<1> HIDE DEF v, tag
<1>9. Byte(der, after) = tag /\ length = <<Len(v), start>> /\ Has(der, start, v)
  BY <1>7, Zenon DEF TlvIsRead
<1>10. SubSeq(der, start + 1, Len(v) + start) = v /\ Len(v) + start <= Len(der)
  <2> HIDE DEF start
  <2> QED  BY <1>2, <1>9, PartHeld, Zenon
<1>11. start \in Nat /\ Len(v) \in Nat /\ Len(der) \in Nat
  <2>1. start \in Nat
    BY <1>9, Zenon DEF Has
  <2> HIDE DEF start
  <2> QED  BY <1>2, <2>1
<1>12. length # NoTime /\ length[1] = Len(v) /\ length[2] = start
  <2> HIDE DEF start
  <2> QED  BY <1>9 DEF NoTime
<1>13. ~(after < 0) /\ tag # -1
  BY <1>2, <1>8, SMT DEF Octets
<1>14. ~(length[1] + length[2] > Len(der))
  <2>1. ~(Len(v) + start > Len(der))
    <3> HIDE DEF start
    <3> QED  BY <1>10, <1>11, SMT
  <2> QED  BY <1>12, <2>1, Zenon
<1>15. NotAfter(der, at)
         = IF after < 0 \/ Byte(der, after) = -1 \/ length = NoTime THEN NoTime
           ELSE IF length[1] + length[2] > Len(der) THEN NoTime
           ELSE parse_asn1_time(Byte(der, after), SubSeq(der, length[2] + 1, length[1] + length[2]))
  BY <1>6, Zenon DEF NotAfter
<1> HIDE DEF start, length
<1>16. NotAfter(der, at) = parse_asn1_time(tag, SubSeq(der, start + 1, Len(v) + start))
  BY <1>9, <1>12, <1>13, <1>14, <1>15, Zenon
<1>17. NotAfter(der, at) = parse_asn1_time(tag, v)
  BY <1>10, <1>16, Zenon
<1> QED  BY <1>17, ContentsAreRead, Zenon DEF v, tag

LEMMA ParseIs ==
  ASSUME NEW der
  PROVE  parse_x509_not_after(der)
           = NotAfter(der, Validity(der, skip_tag_and_length(der, skip_tag_and_length(der, 0, 48), 48)))
BY Zenon DEF parse_x509_not_after, NotAfter, Validity, AfterVersion

(* Certificates: any bytes in the fields before and after the validity.    *)
Certificates ==
  [version : BOOLEAN, serial : Seq(Octets), algorithm : Seq(Octets), issuer : Seq(Octets),
   before : Times, after : Times, rest : Seq(Octets), signature : Seq(Octets)]

LEMMA CertificateIsRead ==
  ASSUME NEW c \in Certificates, c.after.year \in Years
  PROVE  parse_x509_not_after(Certificate(c)) = TimeOf(c.after)
<1> DEFINE V == IF c.version THEN Tlv(160, Tlv(2, <<2>>)) ELSE <<>>
           X == DerTime(c.before) \o DerTime(c.after)
           F == V \o Tlv(2, c.serial) \o Tlv(48, c.algorithm) \o Tlv(48, c.issuer) \o Tlv(48, X)
           B == TbsCertificate(c)
           T == Tlv(48, B)
           der == Certificate(c)
<1>1. /\ c.serial \in Seq(Octets) /\ c.algorithm \in Seq(Octets) /\ c.issuer \in Seq(Octets)
      /\ c.before \in Times /\ c.after \in Times /\ c.rest \in Seq(Octets) /\ c.signature \in Seq(Octets)
  BY Zenon DEF Certificates
<1>2. 0 \in Octets /\ 2 \in Octets /\ 48 \in Octets /\ 160 \in Octets
  BY SMT DEF Octets
<1>3. V \in Seq(Octets) /\ IsVersion(V)
  <2>1. <<2>> \in Seq(Octets) /\ <<>> \in Seq(Octets)
    BY <1>2
  <2>2. Tlv(2, <<2>>) \in Seq(Octets)
    BY <1>2, <2>1, TlvBytes, Zenon DEF TlvIsBytes
  <2>3. Tlv(160, Tlv(2, <<2>>)) \in Seq(Octets)
    BY <1>2, <2>2, TlvBytes, Zenon DEF TlvIsBytes
  <2> QED  BY <2>1, <2>2, <2>3, Zenon DEF IsVersion
<1>4. X \in Seq(Octets)
  BY <1>1, TimeBytes, JoinBytes, Zenon
<1>5. B = F \o c.rest
  BY Zenon DEF TbsCertificate
<1> HIDE DEF V, X
<1>6. F \in Seq(Octets)
  <2>1. /\ Tlv(2, c.serial) \in Seq(Octets) /\ Tlv(48, c.algorithm) \in Seq(Octets)
        /\ Tlv(48, c.issuer) \in Seq(Octets) /\ Tlv(48, X) \in Seq(Octets)
    BY <1>1, <1>2, <1>4, TlvBytes, Zenon DEF TlvIsBytes
  <2> QED  BY <1>3, <2>1, JoinBytes, Zenon
<1>7. B \in Seq(Octets)
  <2> HIDE DEF F, B
  <2> QED  BY <1>1, <1>5, <1>6, JoinBytes, Zenon
<1>8. T \in Seq(Octets)
  <2> HIDE DEF B
  <2> QED  BY <1>2, <1>7, TlvBytes, Zenon DEF TlvIsBytes
<1> DEFINE W == T \o c.signature
<1>9. W \in Seq(Octets)
  <2> HIDE DEF T
  <2> QED  BY <1>1, <1>8, JoinBytes, Zenon
<1>10. der = Tlv(48, W)
  BY Zenon DEF Certificate
<1> HIDE DEF W, der
<1>11. der \in Seq(Octets)
  BY <1>2, <1>9, <1>10, TlvBytes, Zenon DEF TlvIsBytes
<1>12. Has(der, skip_tag_and_length(der, 0, 48), W)
  <2>1. Has(der, 0, Tlv(48, W))
    BY <1>10, <1>11, HasItself, Zenon
  <2>2. TlvIsRead(der, 0, 48, W)
    BY <1>2, <1>9, <1>11, <2>1, TlvRead, Zenon
  <2> QED  BY <2>2, Zenon DEF TlvIsRead
<1> DEFINE outer == skip_tag_and_length(der, 0, 48)
           tbs == skip_tag_and_length(der, outer, 48)
<1>13. Has(der, outer, T)
  <2> HIDE DEF T, outer
  <2>1. Has(der, outer, T \o c.signature)
    BY <1>12, Zenon DEF W, outer
  <2>2. InTwo(der, outer, T, c.signature)
    BY <1>1, <1>8, <1>11, <2>1, HasInTwo, Zenon
  <2> QED  BY <2>2, Zenon DEF InTwo
<1>14. Has(der, tbs, B)
  <2> HIDE DEF B, outer
  <2>1. TlvIsRead(der, outer, 48, B)
    BY <1>2, <1>7, <1>11, <1>13, TlvRead, Zenon
  <2> QED  BY <2>1, Zenon DEF TlvIsRead
<1> HIDE DEF B, T, outer, tbs
<1>15. Has(der, tbs, F \o c.rest)
  BY <1>5, <1>14, Zenon
<1>16. Has(der, Validity(der, tbs), X)
  BY <1>1, <1>3, <1>4, <1>11, <1>15, FieldsAreRead
<1>17. NotAfter(der, Validity(der, tbs)) = TimeOf(c.after)
  <2>1. Has(der, Validity(der, tbs), DerTime(c.before) \o DerTime(c.after))
    BY <1>16, Zenon DEF X
  <2> QED  BY <1>1, <1>11, <2>1, NotAfterIsRead, Zenon
<1>18. parse_x509_not_after(der) = NotAfter(der, Validity(der, tbs))
  BY ParseIs, Zenon DEF outer, tbs
<1> QED  BY <1>17, <1>18, Zenon DEF der

LEMMA DaysAreNat ==
  ASSUME NEW y \in Nat, y >= 1970, NEW m \in 1 .. 12
  PROVE  DaysToYear(y) \in Nat /\ DaysToMonth(y, m) \in Nat
<1>1. PICK k \in Nat : 1970 + k = y
  <2>1. y - 1970 \in Nat /\ 1970 + (y - 1970) = y
    BY SMT
  <2> QED  BY <2>1
<1>2. Counted(y)
  BY <1>1, LeapsAreCounted
<1>3. Cardinality(LeapsFrom1970(y)) \in Nat
  BY <1>2, FS_CardinalityType DEF Counted
<1>4. 365 * (y - 1970) \in Nat
  BY SMT
<1>5. DaysToYear(y) \in Nat
  BY <1>3, <1>4, SMT DEF DaysToYear, LeapsFrom1970
<1>6. \A n \in 1 .. 11 : MonthLength(y, n) \in Nat
  BY SMT DEF MonthLength
<1>7. DaysToMonth(y, m) \in Nat
  BY <1>6, SMT DEF DaysToMonth
<1> QED  BY <1>5, <1>7

LEMMA TimeIsTheCalendars ==
  ASSUME NEW t \in Times, t.year \in Years
  PROVE  TimeOf(t) = <<DaysToYear(t.year) + DaysToMonth(t.year, t.month) + t.day - 1,
                       3600 * t.hour + 60 * t.minute + t.second>>
<1> DEFINE y == t.year
           m == t.month
           d == t.day
           days == days_from_civil(y, m, d) - Epoch
           secs == 3600 * t.hour + 60 * t.minute + t.second
           counted == DaysToYear(y) + DaysToMonth(y, m) + d - 1
<1>1. m \in 1 .. 12 /\ d \in 1 .. 31
  BY Zenon DEF Times
<1>2. y \in Nat /\ y >= 1970
  <2>1. \A n \in Years : n \in Nat /\ n >= 1970
    BY SMT DEF Years, AnyYear
  <2> QED  BY <2>1
<1>3. d \in Nat /\ d >= 1
  BY <1>1, SMT
<1> HIDE DEF y, m, d
<1>4. days = counted
  BY <1>1, <1>2, <1>3, DaysAreCounted, SMT
<1>5. DaysToYear(y) \in Nat /\ DaysToMonth(y, m) \in Nat
  BY <1>1, <1>2, DaysAreNat, SMT
<1>6. counted \in Nat
  BY <1>3, <1>5, SMT
<1> HIDE DEF counted
<1>7. TimeOf(t) = IF Negative(days, secs) THEN NoTime ELSE <<days, secs>>
  BY SMT DEF TimeOf, y, m, d
<1>8. secs \in Nat
  <2>1. t.hour \in Nat /\ t.minute \in Nat /\ t.second \in Nat
    BY SMT DEF Times
  <2> QED  BY <2>1, SMT
<1> HIDE DEF days, secs
<1>9. ~Negative(days, secs)
  BY <1>4, <1>6, <1>8, SMT DEF Negative
<1>10. TimeOf(t) = <<counted, secs>>
  BY <1>4, <1>7, <1>9, Zenon
<1> QED  BY <1>10, SMT DEF counted, secs, y, m, d

(* parse_x509_not_after finds the day and the second at which any          *)
(* certificate ends: with or without a version, whatever the serial        *)
(* number, algorithm, issuer and the rest hold and however long they are,  *)
(* for every end from 1970 to 9999, on either side of the change from      *)
(* UTCTime to GeneralizedTime.  (Lengths are written in bytes as long as   *)
(* they are below MaxLength.)                                              *)
THEOREM EveryExpiryIsRead ==
  ASSUME NEW c \in Certificates, c.after.year \in Years
  PROVE  ExpiryIsTheCertificates(c)
<1>1. c.after \in Times
  BY Zenon DEF Certificates
<1>2. parse_x509_not_after(Certificate(c)) = TimeOf(c.after)
  BY CertificateIsRead, Zenon
<1> DEFINE t == c.after
<1>3. TimeOf(t) = <<DaysToYear(t.year) + DaysToMonth(t.year, t.month) + t.day - 1,
                    3600 * t.hour + 60 * t.minute + t.second>>
  <2>1. t \in Times /\ t.year \in Years
    BY <1>1
  <2> HIDE DEF t
  <2> QED  BY <2>1, TimeIsTheCalendars
<1> QED  BY <1>2, <1>3 DEF ExpiryIsTheCertificates
=============================================================================
