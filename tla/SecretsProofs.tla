--------------------------- MODULE SecretsProofs ----------------------------
(***************************************************************************)
(* Theorems about what becomes of secrets: the value a script is given     *)
(* (EnvVars), for any variables, keys and restarts, and what its log shows *)
(* of it (SecretMasker), for any texts, chunks and secrets.                *)
(***************************************************************************)
EXTENDS EnvVars, SecretMasker, SequenceTheorems, WellFoundedInduction, TLAPS

(* The key a process that is up encrypts with.                             *)
StartInv ==
    /\ boot = "create" => setting = None /\ key_file = "absent"
    /\ boot = "write" => setting = None /\ key_file = "empty"
    /\ boot = "up" /\ setting = None => key_file \in FileKeys /\ service = key_file
    /\ boot = "up" /\ setting # None => service = setting

(* All that was ever encrypted under a generated key, in the table or      *)
(* about to be, was so under the key in the file: a file that is not there *)
(* or is empty has never held one.                                         *)
FileInv ==
    /\ \A i \in VarId :
         rows[i] # None /\ rows[i].source = "file" =>
           key_file \in FileKeys /\ rows[i].under = key_file
    /\ rotation # None =>
         boot = "up" /\ rotation.row.under = service /\ rotation.row.source = Source

EnvInv == EnvVarsTypeOK /\ StartInv /\ FileInv

(* What is encrypted now is encrypted as FileInv has it.                   *)
LEMMA EncryptedAt ==
    ASSUME EnvVarsAssumption, EnvInv, boot = "up",
           NEW key \in Key, NEW scope \in Runner \cup {None}, NEW value \in Value
    PROVE  LET row == Encrypted(key, scope, value) IN
             /\ row \in VarRow /\ row.under = service /\ row.source = Source
             /\ Source = "file" => key_file \in FileKeys /\ service = key_file
<1>1. service \in MasterKey /\ Source \in {"file", "env"}
  BY DEF EnvInv, EnvVarsTypeOK, EnvVarsAssumption, Source
<1>2. Source = "file" => key_file \in FileKeys /\ service = key_file
  BY DEF EnvInv, EnvVarsTypeOK, StartInv, Source
<1> QED BY <1>1, <1>2 DEF Encrypted, VarRow

(* The boot: no row is the file's before there is a key in it.             *)
LEMMA BootSteps ==
    ASSUME EnvVarsAssumption, EnvInv, LoadKey \/ CreateFile \/ WriteFile \/ Stop
    PROVE  EnvInv'
<1> USE DEF EnvInv, EnvVarsTypeOK, StartInv, FileInv
<1>1. CASE LoadKey
  <2>1. rotation = None
    BY <1>1 DEF LoadKey
  <2>2. key_file \in {"absent", "empty"} \cup FileKeys
    OBVIOUS
  <2>3. CASE setting # None
    BY <1>1, <2>1, <2>3 DEF LoadKey, MasterKey, EnvVarsAssumption
  <2>4. CASE setting = None /\ key_file = "absent"
    BY <1>1, <2>1, <2>4 DEF LoadKey
  <2>5. CASE setting = None /\ key_file = "empty"
    BY <1>1, <2>1, <2>5 DEF LoadKey
  <2>6. CASE setting = None /\ key_file \in FileKeys
    BY <1>1, <2>1, <2>6 DEF LoadKey, MasterKey, EnvVarsAssumption
  <2> QED BY <2>2, <2>3, <2>4, <2>5, <2>6
<1>3. CASE CreateFile
  BY <1>3 DEF CreateFile, EnvVarsAssumption
<1>4. CASE WriteFile
  BY <1>4 DEF WriteFile, EnvVarsAssumption, MasterKey
<1>5. CASE Stop
  BY <1>5 DEF Stop
<1> QED BY <1>1, <1>3, <1>4, <1>5

(* The operations of the service write what they encrypted in this boot.   *)
LEMMA ServiceSteps ==
    ASSUME EnvVarsAssumption, EnvInv,
           \/ RotateSave
           \/ \E key \in Key, scope \in Runner \cup {None}, value \in Value :
                CreateVar(key, scope, value)
           \/ \E i \in VarId : DeleteVar(i)
           \/ \E i \in VarId, value \in Value : RotateRead(i, value)
    PROVE  EnvInv'
<1>1. ASSUME UNCHANGED <<setting, key_file, service, boot, generated>>,
             rows' \in [VarId -> VarRow \cup {None}],
             rotation' \in [id : VarId, row : VarRow] \cup {None},
             \A i \in VarId : 
               \/ rows'[i] = None \/ rows'[i] = rows[i]
               \/ (rows'[i].source = "file" =>
                     key_file \in FileKeys /\ rows'[i].under = key_file),
             rotation' # None => /\ boot = "up" /\ rotation'.row.under = service
                                 /\ rotation'.row.source = Source
      PROVE  EnvInv'
  BY <1>1 DEF EnvInv, EnvVarsTypeOK, StartInv, FileInv, Source
<1>2. ASSUME NEW key \in Key, NEW scope \in Runner \cup {None}, NEW value \in Value,
             CreateVar(key, scope, value)
      PROVE  EnvInv'
  <2> DEFINE i == 1 + Max(Stored \cup {0})
             row == Encrypted(key, scope, value)
  <2>1. /\ row \in VarRow /\ row.under = service /\ row.source = Source
        /\ Source = "file" => key_file \in FileKeys /\ service = key_file
    BY <1>2, EncryptedAt DEF CreateVar
  <2>2. i \in VarId /\ rows' = [rows EXCEPT ![i] = row]
    BY <1>2 DEF CreateVar
  <2> HIDE DEF i, row
  <2> QED BY <1>1, <1>2, <2>1, <2>2 DEF CreateVar, EnvInv, EnvVarsTypeOK, FileInv
<1>3. ASSUME NEW i \in VarId, DeleteVar(i) PROVE EnvInv'
  BY <1>1, <1>3 DEF DeleteVar, EnvInv, EnvVarsTypeOK, FileInv
<1>4. ASSUME NEW i \in VarId, NEW value \in Value, RotateRead(i, value) PROVE EnvInv'
  <2>1. rows[i] \in VarRow /\ rows[i].key \in Key /\ rows[i].scope \in Runner \cup {None}
    BY <1>4 DEF RotateRead, Stored, EnvInv, EnvVarsTypeOK, VarRow
  <2> DEFINE row == Encrypted(rows[i].key, rows[i].scope, value)
  <2>2. row \in VarRow /\ row.under = service /\ row.source = Source
    BY <1>4, <2>1, EncryptedAt DEF RotateRead
  <2>3. rotation' = [id |-> i, row |-> row]
    BY <1>4 DEF RotateRead
  <2> HIDE DEF row
  <2> QED BY <1>1, <1>4, <2>2, <2>3 DEF RotateRead, EnvInv, EnvVarsTypeOK
<1>5. CASE RotateSave
  <2>1. /\ rotation \in [id : VarId, row : VarRow] /\ boot = "up"
        /\ rotation.row.under = service /\ rotation.row.source = Source
    BY <1>5 DEF RotateSave, EnvInv, EnvVarsTypeOK, FileInv
  <2>2. Source = "file" => key_file \in FileKeys /\ service = key_file
    BY <2>1 DEF Source, EnvInv, StartInv
  <2>3. rows' \in [VarId -> VarRow \cup {None}]
    BY <1>5, <2>1 DEF RotateSave, EnvInv, EnvVarsTypeOK
  <2>4. \A i \in VarId : rows'[i] = rows[i] \/ rows'[i] = rotation.row
    BY <1>5, <2>1 DEF RotateSave, EnvInv, EnvVarsTypeOK
  <2> QED BY <1>1, <1>5, <2>1, <2>2, <2>3, <2>4 DEF RotateSave
<1> QED BY <1>2, <1>3, <1>4, <1>5

(* The variable of a runner wins if no other has its name and scope.       *)
LEMMA OwnWins ==
    ASSUME EnvVarsTypeOK, NEW r \in Runner, NEW i \in InScope(r),
           rows[i].scope = r, Sole(i)
    PROVE  Winner(r, rows[i].key) = i
<1> DEFINE own == {j \in InScope(r) : rows[j].key = rows[i].key /\ rows[j].scope = r}
<1>1. own = {i}
  BY DEF Sole, InScope
<1>2. i \in Nat
  BY DEF InScope, Stored, VarId
<1>3. Max({i}) = i
  BY <1>2 DEF Max
<1> QED BY <1>1, <1>3 DEF Winner

(* The invariant of EnvVars.                                               *)
LEMMA EnvInvariant == ASSUME EnvVarsAssumption PROVE EnvVarsSpec => []EnvInv
<1>1. EnvVarsInit => EnvInv
  BY DEF EnvVarsInit, EnvInv, EnvVarsTypeOK, StartInv, FileInv
<1>2. EnvInv /\ [EnvVarsNext]_envVars => EnvInv'
  <2> SUFFICES ASSUME EnvInv, [EnvVarsNext]_envVars PROVE EnvInv'
    OBVIOUS
  <2>1. CASE EnvVarsNext
    BY <2>1, BootSteps, ServiceSteps DEF EnvVarsNext
  <2>2. CASE UNCHANGED envVars
    BY <2>2 DEF envVars, EnvInv, EnvVarsTypeOK, StartInv, FileInv, Source
  <2> QED BY <2>1, <2>2
<1> QED BY <1>1, <1>2, PTL DEF EnvVarsSpec

(* Secrets survive crashes and restarts, and a runner's own variable       *)
(* overrides the project's, for any number of variables and of keys.       *)
THEOREM SecretsResolveHolds ==
    ASSUME EnvVarsAssumption PROVE EnvVarsSpec => []SecretsResolve
<1>1. EnvVarsSpec => []EnvInv
  BY EnvInvariant
<1>2. EnvInv => SecretsResolve
  <2> SUFFICES ASSUME EnvInv PROVE SecretsResolve
    OBVIOUS
  <2>1. SecretsReadable
    BY DEF SecretsReadable, EnvInv, StartInv, FileInv, Undecryptable, InScope, Stored,
       Source
  <2>2. OwnOverrides
    <3> SUFFICES ASSUME NEW r \in Runner, NEW i \in InScope(r), rows[i].scope = r, Sole(i)
                 PROVE  Resolved(r)[rows[i].key] = rows[i].value
      BY DEF OwnOverrides
    <3>1. Winner(r, rows[i].key) = i
      BY OwnWins DEF EnvInv
    <3> QED BY <3>1 DEF Resolved
  <2> QED BY <2>1, <2>2 DEF SecretsResolve
<1> QED BY <1>1, <1>2, PTL

-----------------------------------------------------------------------------

(* A text before it is masked, and after.                                  *)
RawText == Seq(Read)
Masked == Read \cup {Mask}

(* A set of naturals has a least element, and a greatest if it is bounded. *)
LEMMA LeastPlace ==
    ASSUME NEW S \in SUBSET Nat, S # {}
    PROVE  \E m \in S : \A i \in S : m <= i
<1>1. IsWellFoundedOn(OpToRel(<, Nat), Nat)
  BY NatLessThanWellFounded
<1>2. PICK m \in S : \A i \in S : ~(<<i, m>> \in OpToRel(<, Nat))
  BY <1>1, WFMin
<1>3. \A i \in S : ~(i < m)
  BY <1>2 DEF OpToRel
<1> QED BY <1>3

LEMMA GreatestPlace ==
    ASSUME NEW n \in Nat, NEW S \in SUBSET (0..n), S # {}
    PROVE  \E m \in S : \A i \in S : i <= m
<1> DEFINE D == {d \in 0..n : n - d \in S}
<1>1. PICK i \in S : TRUE
  OBVIOUS
<1>2. n - (n - i) = i /\ n - i \in 0..n
  OBVIOUS
<1>3. D \in SUBSET Nat /\ n - i \in D
  BY <1>1, <1>2
<1>4. PICK d \in D : \A e \in D : d <= e
  BY <1>3, LeastPlace
<1>5. n - d \in S /\ d \in 0..n
  BY <1>4
<1>6. ASSUME NEW j \in S PROVE j <= n - d
  <2>1. n - (n - j) = j /\ n - j \in 0..n /\ j \in 0..n
    OBVIOUS
  <2>2. n - j \in D
    BY <2>1
  <2>3. d <= n - j
    BY <1>4, <2>2
  <2> QED BY <1>5, <2>1, <2>3
<1> QED BY <1>5, <1>6

(* Induction from the end of a text: what holds of a place, if it holds of *)
(* all those after it, holds of all.                                       *)
LEMMA FromTheEnd ==
    ASSUME NEW n \in Nat, NEW S, n + 1 \in S,
           \A i \in 1..n : (\A j \in (i + 1)..(n + 1) : j \in S) => i \in S
    PROVE  \A i \in 1..(n + 1) : i \in S
<1> DEFINE Bad == {i \in 1..n : i \notin S}
<1>1. ASSUME Bad # {} PROVE FALSE
  <2>1. Bad \in SUBSET (0..n)
    OBVIOUS
  <2>2. PICK m \in Bad : \A i \in Bad : i <= m
    BY <1>1, <2>1, GreatestPlace
  <2>3. m \in 1..n /\ m \notin S
    BY <2>2
  <2>4. ASSUME NEW j \in (m + 1)..(n + 1) PROVE j \in S
    <3>1. j = n + 1 \/ (j \in 1..n /\ ~(j <= m))
      BY <2>3
    <3> QED BY <2>2, <3>1
  <2> QED BY <2>3, <2>4
<1>2. \A i \in 1..(n + 1) : i = n + 1 \/ i \in 1..n
  OBVIOUS
<1> QED BY <1>1, <1>2

(* f is computed place by place from the end.                              *)
Unfolds(f, n, base, next, comb) ==
    f[n + 1] = base /\ \A i \in 1..n : f[i] = comb[i][f[next[i]]]

(* A function on 1..(n + 1) may be defined from its end backwards.         *)
LEMMA Backwards ==
    ASSUME NEW n \in Nat, NEW X, NEW base \in X,
           NEW next \in [1..n -> 1..(n + 1)], \A i \in 1..n : next[i] > i,
           NEW comb \in [1..n -> [X -> X]]
    PROVE  \E f \in [1..(n + 1) -> X] : Unfolds(f, n, base, next, comb)
<1> DEFINE Works(f, k) ==
             f[n + 1] = base /\ \A i \in k..n : f[i] = comb[i][f[next[i]]]
           Bad == {d \in 0..n : ~ \E f \in [1..(n + 1) -> X] : Works(f, n + 1 - d)}
<1>1. ASSUME Bad # {} PROVE FALSE
  <2>1. Bad \in SUBSET Nat
    OBVIOUS
  <2>2. PICK d \in Bad : \A e \in Bad : d <= e
    BY <1>1, <2>1, LeastPlace
  <2>3. d \in 0..n /\ ~ \E f \in [1..(n + 1) -> X] : Works(f, n + 1 - d)
    BY <2>2
  <2>4. CASE d = 0
    <3> DEFINE f == [i \in 1..(n + 1) |-> base]
    <3>1. f \in [1..(n + 1) -> X] /\ Works(f, n + 1 - d)
      BY <2>4
    <3> QED BY <2>3, <3>1
  <2>5. CASE d # 0
    <3>1. d - 1 \in 0..n /\ ~(d <= d - 1) /\ n + 1 - (d - 1) = n + 1 - d + 1
      BY <2>3, <2>5
    <3>2. d - 1 \notin Bad
      BY <2>2, <3>1
    <3>3. PICK f \in [1..(n + 1) -> X] : Works(f, n + 1 - (d - 1))
      BY <3>1, <3>2
    <3> DEFINE k == n + 1 - d
               g == [f EXCEPT ![k] = comb[k][f[next[k]]]]
    <3>4. k \in 1..n
      BY <2>3, <2>5
    <3>5. next[k] \in 1..(n + 1) /\ comb[k] \in [X -> X]
      BY <3>4
    <3>6. g \in [1..(n + 1) -> X]
      BY <3>3, <3>5
    <3>7. \A i \in 1..(n + 1) : i # k => g[i] = f[i]
      BY <3>3
    <3>8. g[k] = comb[k][f[next[k]]]
      BY <3>3, <3>4
    <3>9. Works(f, k + 1)
      BY <3>1, <3>3
    <3> HIDE DEF g, k, Bad
    <3>10. g[n + 1] = base
      BY <3>4, <3>7, <3>9
    <3>11. ASSUME NEW i \in k..n PROVE g[i] = comb[i][g[next[i]]]
      <4>1. i \in 1..n /\ next[i] \in 1..(n + 1) /\ next[i] > i /\ next[i] # k
        BY <3>4
      <4>2. g[next[i]] = f[next[i]]
        BY <3>7, <4>1
      <4>3. CASE i = k
        BY <3>8, <4>2, <4>3
      <4>4. CASE i # k
        <5>1. i \in (k + 1)..n /\ i \in 1..(n + 1)
          BY <3>4, <4>4
        <5> QED BY <3>7, <3>9, <4>2, <4>4, <5>1
      <4> QED BY <4>3, <4>4
    <3>12. Works(g, k)
      BY <3>10, <3>11
    <3> QED BY <2>3, <3>6, <3>12 DEF k
  <2> QED BY <2>4, <2>5
<1>2. n \in 0..n /\ n + 1 - n = 1
  OBVIOUS
<1>3. PICK f \in [1..(n + 1) -> X] : Works(f, n + 1 - n)
  BY <1>1, <1>2
<1>4. \A i \in 1..n : f[i] = comb[i][f[next[i]]]
  BY <1>2, <1>3
<1> QED BY <1>3, <1>4 DEF Unfolds

(* v stands in t at place i, letter by letter.                             *)
Spells(v, t, i) ==
    i + Len(v) <= Len(t) + 1 /\ \A k \in 1..Len(v) : v[k] = t[i + k - 1]

LEMMA OccursAt ==
    ASSUME NEW T, NEW t \in Seq(T), NEW v \in Seq(T), NEW i \in 1..Len(t), Len(v) > 0
    PROVE  Occurs(v, t, i) <=> Spells(v, t, i)
<1>1. Len(t) \in Nat /\ Len(v) \in Nat
  OBVIOUS
<1>2. ASSUME i + Len(v) <= Len(t) + 1
      PROVE  /\ SubSeq(t, i, i + Len(v) - 1) \in Seq(T)
             /\ Len(SubSeq(t, i, i + Len(v) - 1)) = Len(v)
             /\ \A k \in 1..Len(v) : SubSeq(t, i, i + Len(v) - 1)[k] = t[i + k - 1]
  <2> DEFINE j == i + Len(v) - 1
  <2>1. i \in Int /\ j \in Int /\ i <= j /\ j - i + 1 = Len(v) /\ j <= Len(t)
    BY <1>1, <1>2
  <2>2. \A k \in i..j : t[k] \in T
    BY <1>1, <2>1, ElementOfSeq
  <2> HIDE DEF j
  <2>3. /\ SubSeq(t, i, j) \in Seq(T)
        /\ Len(SubSeq(t, i, j)) = j - i + 1
        /\ \A k \in 1..(j - i + 1) : SubSeq(t, i, j)[k] = t[i + k - 1]
    BY <2>1, <2>2, SubSeqProperties
  <2> QED BY <2>1, <2>3 DEF j
<1>3. ASSUME i + Len(v) <= Len(t) + 1, \A k \in 1..Len(v) : v[k] = t[i + k - 1]
      PROVE  SubSeq(t, i, i + Len(v) - 1) = v
  BY <1>2, <1>3, SeqEqual
<1> QED BY <1>2, <1>3 DEF Occurs, Spells

(* What re's alternation, longest value first, matches at a place.         *)
LEMMA WidthIs ==
    ASSUME values \in SUBSET RawText, NEW t \in RawText, NEW i \in 1..Len(t)
    PROVE  /\ Width(t, i) \in 0..(Len(t) + 1 - i)
           /\ \A v \in values : Occurs(v, t, i) => Len(v) <= Width(t, i)
           /\ \/ Width(t, i) = 0
              \/ \E v \in values : Occurs(v, t, i) /\ Len(v) = Width(t, i)
<1> DEFINE S == {Len(v) : v \in {w \in values : Occurs(w, t, i)}} \cup {0}
<1>1. Len(t) \in Nat /\ Len(t) + 1 - i \in Nat
  BY DEF RawText
<1>2. S \in SUBSET (0..(Len(t) + 1 - i)) /\ S # {}
  BY <1>1 DEF RawText, Occurs
<1>3. \E m \in S : \A j \in S : j <= m
  BY <1>1, <1>2, GreatestPlace
<1>4. \E m \in S : \A j \in S : m >= j
  BY <1>1, <1>2, <1>3
<1>5. Max(S) \in S /\ \A j \in S : Max(S) >= j
  BY <1>4 DEF Max
<1>6. Width(t, i) = Max(S)
  BY DEF Width
<1>7. \A v \in values : Occurs(v, t, i) => Len(v) \in S
  OBVIOUS
<1>8. Max(S) \in 0..(Len(t) + 1 - i)
  BY <1>2, <1>5
<1>9. Max(S) = 0 \/ \E v \in values : Occurs(v, t, i) /\ Len(v) = Max(S)
  BY <1>5
<1> HIDE DEF S
<1>10. ASSUME NEW v \in values, Occurs(v, t, i) PROVE Len(v) <= Width(t, i)
  <2>1. Len(v) \in S /\ Len(v) \in Int
    BY <1>2, <1>7, <1>10
  <2> QED BY <1>5, <1>6, <1>8, <2>1
<1> QED BY <1>6, <1>8, <1>9, <1>10

(* The width is that of any other text that holds the same matches there.  *)
LEMMA WidthSame ==
    ASSUME values \in SUBSET RawText,
           NEW t \in RawText, NEW i \in 1..Len(t), NEW u \in RawText, NEW j \in 1..Len(u),
           \A v \in values : Occurs(v, u, j) => Occurs(v, t, i),
           \A v \in values : Occurs(v, t, i) /\ Len(v) = Width(t, i) => Occurs(v, u, j)
    PROVE  Width(u, j) = Width(t, i)
<1>1. Width(t, i) \in Nat /\ Width(u, j) \in Nat
  BY WidthIs DEF RawText
<1>2. Width(u, j) <= Width(t, i)
  <2>1. CASE Width(u, j) = 0
    BY <1>1, <2>1
  <2>2. ASSUME NEW v \in values, Occurs(v, u, j) /\ Len(v) = Width(u, j)
        PROVE  Width(u, j) <= Width(t, i)
    BY <2>2, WidthIs
  <2> QED BY <2>1, <2>2, WidthIs
<1>3. Width(t, i) <= Width(u, j)
  <2>1. CASE Width(t, i) = 0
    BY <1>1, <2>1
  <2>2. ASSUME NEW v \in values, Occurs(v, t, i) /\ Len(v) = Width(t, i)
        PROVE  Width(t, i) <= Width(u, j)
    BY <2>2, WidthIs
  <2> QED BY <2>1, <2>2, WidthIs
<1> QED BY <1>1, <1>2, <1>3

(* The scan of t: where it goes on after place i, what it leaves of what   *)
(* it goes over, and the match it finds there.                             *)
Jump(t, i) == IF Width(t, i) = 0 THEN i + 1 ELSE i + Width(t, i)
Piece(t, i) == IF Width(t, i) = 0 THEN <<t[i]>> ELSE <<Mask>>
FoundAt(t, i) == IF Width(t, i) = 0 THEN {} ELSE {<<i, i + Width(t, i) - 1>>}

(* The scan moves on, by one piece at a time.                              *)
LEMMA ScanIs ==
    ASSUME values \in SUBSET RawText, NEW t \in RawText, NEW i \in 1..Len(t)
    PROVE  /\ Jump(t, i) \in (i + 1)..(Len(t) + 1)
           /\ Piece(t, i) \in Seq(Masked) /\ Len(Piece(t, i)) = 1
           /\ FoundAt(t, i) \in SUBSET (Nat \X Nat) /\ \A m \in FoundAt(t, i) : m[1] = i
<1>1. Width(t, i) \in 0..(Len(t) + 1 - i) /\ Len(t) \in Nat
  BY WidthIs DEF RawText
<1>2. t[i] \in Masked /\ Mask \in Masked
  BY ElementOfSeq DEF RawText, Masked
<1>3. \A a \in Masked : <<a>> \in Seq(Masked) /\ Len(<<a>>) = 1
  OBVIOUS
<1>4. Jump(t, i) \in (i + 1)..(Len(t) + 1)
  BY <1>1 DEF Jump
<1>5. Piece(t, i) \in Seq(Masked) /\ Len(Piece(t, i)) = 1
  BY <1>2, <1>3 DEF Piece
<1>6. CASE Width(t, i) = 0
  BY <1>4, <1>5, <1>6 DEF FoundAt
<1>7. CASE Width(t, i) # 0
  <2>1. i \in Nat /\ i + Width(t, i) - 1 \in Nat
    BY <1>1
  <2> QED BY <1>4, <1>5, <1>7, <2>1 DEF FoundAt
<1> QED BY <1>6, <1>7

(* The recursions of sub() and finditer() are well founded.                *)
LEMMA SubIs ==
    ASSUME values \in SUBSET RawText, NEW t \in RawText
    PROVE  /\ \A i \in 1..(Len(t) + 1) : SubFrom(t)[i] \in Seq(Masked)
           /\ SubFrom(t)[Len(t) + 1] = <<>>
           /\ \A i \in 1..Len(t) :
                SubFrom(t)[i] = Piece(t, i) \o SubFrom(t)[Jump(t, i)]
<1> DEFINE n == Len(t)
           X == Seq(Masked)
           empty == <<>>
           next == [i \in 1..n |-> Jump(t, i)]
           comb == [i \in 1..n |-> [x \in X |-> Piece(t, i) \o x]]
           Body(f) == [i \in 1..(n + 1) |->
                         IF i > n THEN <<>>
                         ELSE IF Width(t, i) = 0 THEN <<t[i]>> \o f[i + 1]
                         ELSE <<Mask>> \o f[i + Width(t, i)]]
           g == SubFrom(t)
<1>1. n \in Nat /\ \A i \in 1..n : Jump(t, i) \in (i + 1)..(n + 1) /\ Piece(t, i) \in X
  BY ScanIs DEF RawText
<1>2. next \in [1..n -> 1..(n + 1)] /\ \A i \in 1..n : next[i] > i
  BY <1>1
<1>3. \A i \in 1..n : \A x \in X : Piece(t, i) \o x \in X
  BY <1>1, ConcatProperties
<1>4. comb \in [1..n -> [X -> X]]
  BY <1>3
<1>5. empty \in X
  BY EmptySeq
<1>6. \A i \in 1..(n + 1) : (i = n + 1 /\ i > n) \/ (i \in 1..n /\ ~(i > n))
  BY <1>1
<1>7. g = CHOOSE f : f = Body(f)
  BY DEF SubFrom
<1> HIDE DEF n, next, comb, X, empty, g
<1>8. PICK f \in [1..(n + 1) -> X] : Unfolds(f, n, empty, next, comb)
  BY <1>1, <1>2, <1>4, <1>5, Backwards
<1>9. f[n + 1] = empty /\ \A i \in 1..n : f[i] = Piece(t, i) \o f[Jump(t, i)]
  BY <1>1, <1>2, <1>8 DEF comb, next, Unfolds
<1>10. f = Body(f)
  <2>1. ASSUME NEW i \in 1..n PROVE f[i] = Body(f)[i]
    <3>1. i \in 1..(n + 1) /\ ~(i > n)
      BY <1>1
    <3>2. CASE Width(t, i) = 0
      BY <1>9, <3>1, <3>2 DEF Piece, Jump
    <3>3. CASE Width(t, i) # 0
      BY <1>9, <3>1, <3>3 DEF Piece, Jump
    <3> QED BY <3>2, <3>3
  <2>2. \A i \in 1..(n + 1) : f[i] = Body(f)[i]
    BY <1>6, <1>9, <2>1 DEF empty
  <2> QED BY <2>2
<1>11. g = Body(g)
  <2> HIDE DEF Body
  <2> QED BY <1>7, <1>10
<1>12. /\ g[n + 1] = empty
       /\ \A i \in 1..n : g[i] = Piece(t, i) \o g[Jump(t, i)]
  <2>1. n + 1 \in 1..(n + 1) /\ n + 1 > n /\ \A i \in 1..n : i \in 1..(n + 1) /\ ~(i > n)
    BY <1>1
  <2>2. \A i \in 1..(n + 1) : g[i] = Body(g)[i]
    BY <1>11
  <2>3. \A i \in 1..(n + 1) : g[i] = IF i > n THEN <<>>
                         ELSE IF Width(t, i) = 0 THEN <<t[i]>> \o g[i + 1]
                         ELSE <<Mask>> \o g[i + Width(t, i)]
    BY <2>2
  <2>4. \A i \in 1..n : g[i] = Piece(t, i) \o g[Jump(t, i)]
    BY <2>1, <2>3 DEF Piece, Jump
  <2>5. g[n + 1] = empty
    BY <2>1, <2>3 DEF empty
  <2> QED BY <2>4, <2>5
<1>13. \A i \in 1..(n + 1) : g[i] \in X
  <2> DEFINE S == {i \in 1..(n + 1) : g[i] \in X}
  <2>1. n + 1 \in S
    BY <1>1, <1>5, <1>12
  <2>2. ASSUME NEW i \in 1..n, \A j \in (i + 1)..(n + 1) : j \in S PROVE i \in S
    <3>1. Jump(t, i) \in (i + 1)..(n + 1) /\ i \in 1..(n + 1)
      BY <1>1
    <3>2. g[Jump(t, i)] \in X
      BY <2>2, <3>1
    <3> QED BY <1>3, <1>12, <3>1, <3>2
  <2> HIDE DEF S
  <2>3. \A i \in 1..(n + 1) : i \in S
    BY <1>1, <2>1, <2>2, FromTheEnd
  <2> QED BY <2>3 DEF S
<1> QED BY <1>12, <1>13 DEF g, n, empty, X

LEMMA MatchesIs ==
    ASSUME values \in SUBSET RawText, NEW t \in RawText
    PROVE  /\ MatchesFrom(t)[Len(t) + 1] = {}
           /\ \A i \in 1..Len(t) :
                MatchesFrom(t)[i] = FoundAt(t, i) \cup MatchesFrom(t)[Jump(t, i)]
           /\ \A i \in 1..(Len(t) + 1) : \A m \in MatchesFrom(t)[i] : m[1] \in i..Len(t)
<1> DEFINE n == Len(t)
           X == SUBSET (Nat \X Nat)
           empty == {}
           next == [i \in 1..n |-> Jump(t, i)]
           comb == [i \in 1..n |-> [x \in X |-> FoundAt(t, i) \cup x]]
           Body(f) == [i \in 1..(n + 1) |->
                         IF i > n THEN {}
                         ELSE IF Width(t, i) = 0 THEN f[i + 1]
                         ELSE {<<i, i + Width(t, i) - 1>>} \cup f[i + Width(t, i)]]
           g == MatchesFrom(t)
<1>1. n \in Nat /\ \A i \in 1..n : Jump(t, i) \in (i + 1)..(n + 1) /\ FoundAt(t, i) \in X
  BY ScanIs DEF RawText
<1>2. next \in [1..n -> 1..(n + 1)] /\ \A i \in 1..n : next[i] > i
  BY <1>1
<1>3. \A i \in 1..n : \A x \in X : FoundAt(t, i) \cup x \in X
  BY <1>1
<1>4. comb \in [1..n -> [X -> X]]
  BY <1>3
<1>5. empty \in X
  OBVIOUS
<1>6. \A i \in 1..(n + 1) : (i = n + 1 /\ i > n) \/ (i \in 1..n /\ ~(i > n))
  BY <1>1
<1>7. g = CHOOSE f : f = Body(f)
  BY DEF MatchesFrom
<1> HIDE DEF n, next, comb, X, empty, g
<1>8. PICK f \in [1..(n + 1) -> X] : Unfolds(f, n, empty, next, comb)
  BY <1>1, <1>2, <1>4, <1>5, Backwards
<1>9. f[n + 1] = empty /\ \A i \in 1..n : f[i] = FoundAt(t, i) \cup f[Jump(t, i)]
  BY <1>1, <1>2, <1>8 DEF comb, next, Unfolds
<1>10. f = Body(f)
  <2>1. ASSUME NEW i \in 1..n PROVE f[i] = Body(f)[i]
    <3>1. i \in 1..(n + 1) /\ ~(i > n)
      BY <1>1
    <3>2. CASE Width(t, i) = 0
      <4>1. FoundAt(t, i) = {} /\ Jump(t, i) = i + 1
        BY <3>2 DEF FoundAt, Jump
      <4>2. f[i] = f[i + 1]
        BY <1>9, <4>1
      <4> QED BY <3>1, <3>2, <4>2
    <3>3. CASE Width(t, i) # 0
      <4>1. /\ FoundAt(t, i) = {<<i, i + Width(t, i) - 1>>}
            /\ Jump(t, i) = i + Width(t, i)
        BY <3>3 DEF FoundAt, Jump
      <4>2. f[i] = {<<i, i + Width(t, i) - 1>>} \cup f[i + Width(t, i)]
        BY <1>9, <4>1
      <4> QED BY <3>1, <3>3, <4>2
    <3> QED BY <3>2, <3>3
  <2>2. \A i \in 1..(n + 1) : f[i] = Body(f)[i]
    BY <1>6, <1>9, <2>1 DEF empty
  <2> QED BY <2>2
<1>11. g = Body(g)
  <2> HIDE DEF Body
  <2> QED BY <1>7, <1>10
<1>12. /\ g[n + 1] = empty
       /\ \A i \in 1..n : g[i] = FoundAt(t, i) \cup g[Jump(t, i)]
  <2>1. n + 1 \in 1..(n + 1) /\ n + 1 > n /\ \A i \in 1..n : i \in 1..(n + 1) /\ ~(i > n)
    BY <1>1
  <2>2. \A i \in 1..(n + 1) : g[i] = Body(g)[i]
    BY <1>11
  <2>3. \A i \in 1..(n + 1) : g[i] = IF i > n THEN {}
                         ELSE IF Width(t, i) = 0 THEN g[i + 1]
                         ELSE {<<i, i + Width(t, i) - 1>>} \cup g[i + Width(t, i)]
    BY <2>2
  <2>4. \A i \in 1..n : g[i] = FoundAt(t, i) \cup g[Jump(t, i)]
    BY <2>1, <2>3 DEF FoundAt, Jump
  <2>5. g[n + 1] = empty
    BY <2>1, <2>3 DEF empty
  <2> QED BY <2>4, <2>5
<1>13. \A i \in 1..(n + 1) : \A m \in g[i] : m[1] \in i..n
  <2> DEFINE S == {i \in 1..(n + 1) : \A m \in g[i] : m[1] \in i..n}
  <2>1. n + 1 \in S
    BY <1>1, <1>12 DEF empty
  <2>2. ASSUME NEW i \in 1..n, \A j \in (i + 1)..(n + 1) : j \in S PROVE i \in S
    <3>1. Jump(t, i) \in (i + 1)..(n + 1) /\ i \in 1..(n + 1)
      BY <1>1
    <3>2. \A m \in g[Jump(t, i)] : m[1] \in Jump(t, i)..n
      BY <2>2, <3>1
    <3>3. \A m \in FoundAt(t, i) : m[1] = i
      BY ScanIs DEF n
    <3>4. ASSUME NEW m \in g[i] PROVE m[1] \in i..n
      <4>1. m \in FoundAt(t, i) \/ m \in g[Jump(t, i)]
        BY <1>12
      <4>2. i \in i..n /\ \A k \in Jump(t, i)..n : k \in i..n
        BY <1>1, <3>1
      <4> QED BY <3>2, <3>3, <4>1, <4>2
    <3> QED BY <3>1, <3>4
  <2> HIDE DEF S
  <2>3. \A i \in 1..(n + 1) : i \in S
    BY <1>1, <2>1, <2>2, FromTheEnd
  <2> QED BY <2>3 DEF S
<1> QED BY <1>12, <1>13 DEF g, n, empty

(* Occurrences of a secret in a text made of two.                          *)
LEMMA OccursBefore ==
    ASSUME NEW T, NEW q \in Seq(T), NEW y \in Seq(T), NEW v \in Seq(T), Len(v) > 0,
           NEW i \in 1..Len(q), i + Len(v) <= Len(q) + 1
    PROVE  Occurs(v, q \o y, i) <=> Occurs(v, q, i)
<1> DEFINE t == q \o y
<1>1. /\ t \in Seq(T) /\ Len(t) = Len(q) + Len(y)
      /\ Len(q) \in Nat /\ Len(y) \in Nat /\ Len(v) \in Nat
      /\ \A k \in 1..Len(q) : t[k] = q[k]
  BY ConcatProperties
<1> HIDE DEF t
<1>2. i \in 1..Len(t) /\ i + Len(v) <= Len(t) + 1
      /\ \A k \in 1..Len(v) : i + k - 1 \in 1..Len(q)
  BY <1>1
<1>3. Occurs(v, q, i) <=> \A k \in 1..Len(v) : v[k] = q[i + k - 1]
  BY OccursAt DEF Spells
<1>4. Occurs(v, t, i) <=> \A k \in 1..Len(v) : v[k] = t[i + k - 1]
  <2>1. t \in Seq(T) /\ i \in 1..Len(t)
    BY <1>1, <1>2
  <2>2. Occurs(v, t, i) <=> Spells(v, t, i)
    BY <2>1, OccursAt
  <2> QED BY <1>2, <2>2 DEF Spells
<1> QED BY <1>1, <1>2, <1>3, <1>4 DEF t

LEMMA OccursAfter ==
    ASSUME NEW T, NEW q \in Seq(T), NEW y \in Seq(T), NEW v \in Seq(T), Len(v) > 0,
           NEW j \in 1..Len(y)
    PROVE  Occurs(v, q \o y, Len(q) + j) <=> Occurs(v, y, j)
<1> DEFINE t == q \o y
           i == Len(q) + j
<1>1. /\ t \in Seq(T) /\ Len(t) = Len(q) + Len(y)
      /\ Len(q) \in Nat /\ Len(y) \in Nat /\ Len(v) \in Nat
      /\ \A k \in 1..Len(y) : t[Len(q) + k] = y[k]
  BY ConcatProperties
<1> HIDE DEF t
<1>2. i \in 1..Len(t)
      /\ (i + Len(v) <= Len(t) + 1 <=> j + Len(v) <= Len(y) + 1)
      /\ (j + Len(v) <= Len(y) + 1 =>
            \A k \in 1..Len(v) : j + k - 1 \in 1..Len(y) /\ i + k - 1 = Len(q) + (j + k - 1))
  BY <1>1
<1>3. Occurs(v, y, j) <=> /\ j + Len(v) <= Len(y) + 1
                          /\ \A k \in 1..Len(v) : v[k] = y[j + k - 1]
  <2>1. Occurs(v, y, j) <=> Spells(v, y, j)
    BY OccursAt
  <2> QED BY <2>1 DEF Spells
<1> HIDE DEF i
<1>4. Occurs(v, t, i) <=> /\ i + Len(v) <= Len(t) + 1
                               /\ \A k \in 1..Len(v) : v[k] = t[i + k - 1]
  <2>1. t \in Seq(T) /\ i \in 1..Len(t)
    BY <1>1, <1>2
  <2>2. Occurs(v, t, i) <=> Spells(v, t, i)
    BY <2>1, OccursAt
  <2> QED BY <1>2, <2>2 DEF Spells
<1>5. j + Len(v) <= Len(y) + 1 =>
        \A k \in 1..Len(v) : t[i + k - 1] = y[j + k - 1]
  BY <1>1, <1>2
<1> QED BY <1>2, <1>3, <1>4, <1>5 DEF i, t

Secrets == values \in SUBSET RawText /\ \A v \in values : Len(v) > 0

(* Where no secret reaches out of q, scanning more than q is scanning q.   *)
LEMMA WidthBefore ==
    ASSUME Secrets, NEW q \in RawText, NEW y \in RawText, NEW i \in 1..Len(q),
           \A v \in values : Occurs(v, q \o y, i) => i + Len(v) <= Len(q) + 1
    PROVE  Width(q \o y, i) = Width(q, i)
<1>1. /\ q \o y \in RawText /\ Len(q \o y) = Len(q) + Len(y)
      /\ Len(q) \in Nat /\ Len(y) \in Nat
  BY ConcatProperties DEF RawText
<1>2. i \in 1..Len(q \o y)
  BY <1>1
<1>3. ASSUME NEW v \in values PROVE Occurs(v, q \o y, i) <=> Occurs(v, q, i)
  <2>1. v \in RawText /\ Len(v) > 0
    BY DEF Secrets
  <2>2. Occurs(v, q, i) => i + Len(v) <= Len(q) + 1
    BY DEF Occurs
  <2> QED BY <2>1, <2>2, OccursBefore DEF RawText
<1> QED BY <1>1, <1>2, <1>3, WidthSame DEF Secrets

LEMMA WidthAfter ==
    ASSUME Secrets, NEW q \in RawText, NEW y \in RawText, NEW j \in 1..Len(y)
    PROVE  Width(q \o y, Len(q) + j) = Width(y, j)
<1> DEFINE i == Len(q) + j
<1>1. /\ q \o y \in RawText /\ Len(q \o y) = Len(q) + Len(y)
      /\ Len(q) \in Nat /\ Len(y) \in Nat
  BY ConcatProperties DEF RawText
<1>2. i \in 1..Len(q \o y)
  BY <1>1
<1>3. \A v \in values : Occurs(v, q \o y, i) <=> Occurs(v, y, j)
  BY OccursAfter DEF Secrets, RawText
<1> HIDE DEF i
<1>4. Width(q \o y, i) = Width(y, j)
  BY <1>1, <1>2, <1>3, WidthSame DEF Secrets
<1> QED BY <1>4 DEF i

(* What comes after q is masked as if q had not been there.                *)
LEMMA SubAfter ==
    ASSUME Secrets, NEW q \in RawText, NEW y \in RawText
    PROVE  \A j \in 1..(Len(y) + 1) : SubFrom(q \o y)[Len(q) + j] = SubFrom(y)[j]
<1> DEFINE t == q \o y
           m == Len(q)
           n == Len(y)
           S == {j \in 1..(n + 1) : SubFrom(t)[m + j] = SubFrom(y)[j]}
<1>1. /\ t \in RawText /\ Len(t) = m + n /\ m \in Nat /\ n \in Nat
      /\ \A k \in 1..n : t[m + k] = y[k]
  BY ConcatProperties DEF RawText
<1>2. values \in SUBSET RawText
  BY DEF Secrets
<1>3. \A j \in 1..n : Width(t, m + j) = Width(y, j)
  BY WidthAfter
<1> HIDE DEF t, m
<1>4. n + 1 \in S
  <2>1. SubFrom(t)[Len(t) + 1] = <<>> /\ SubFrom(y)[n + 1] = <<>>
    BY <1>1, <1>2, SubIs
  <2>2. Len(t) + 1 = m + (n + 1) /\ n + 1 \in 1..(n + 1)
    BY <1>1
  <2> QED BY <2>1, <2>2
<1>5. ASSUME NEW j \in 1..n, \A k \in (j + 1)..(n + 1) : k \in S PROVE j \in S
  <2>1. m + j \in 1..Len(t) /\ j \in 1..(n + 1)
    BY <1>1
  <2>2. Jump(t, m + j) = m + Jump(y, j) /\ Piece(t, m + j) = Piece(y, j)
    <3>1. Width(y, j) \in Nat /\ j \in Nat
      BY <1>2, WidthIs DEF RawText
    <3> QED BY <1>1, <1>3, <3>1 DEF Jump, Piece
  <2>3. Jump(y, j) \in (j + 1)..(n + 1)
    BY <1>2, ScanIs
  <2>4. SubFrom(t)[m + Jump(y, j)] = SubFrom(y)[Jump(y, j)]
    BY <1>5, <2>3
  <2>5. SubFrom(t)[m + j] = Piece(t, m + j) \o SubFrom(t)[Jump(t, m + j)]
    BY <1>1, <1>2, <2>1, SubIs
  <2>6. SubFrom(y)[j] = Piece(y, j) \o SubFrom(y)[Jump(y, j)]
    BY <1>2, SubIs
  <2> QED BY <2>1, <2>2, <2>4, <2>5, <2>6
<1> HIDE DEF S
<1>6. \A j \in 1..(n + 1) : j \in S
  BY <1>1, <1>4, <1>5, FromTheEnd
<1> QED BY <1>6 DEF S, t, m

(* Where a scan of q \o y stops at the end of q, each part is masked apart. *)
LEMMA SubSplit ==
    ASSUME Secrets, NEW q \in RawText, NEW y \in RawText, NEW C \in SUBSET (1..(Len(q) + 1)),
           1 \in C, \A i \in C : i <= Len(q) => Jump(q \o y, i) \in C
    PROVE  Sub(q \o y) = Sub(q) \o Sub(y)
<1> DEFINE t == q \o y
           m == Len(q)
           n == Len(y)
           S == {i \in 1..(m + 1) : i \in C =>
                   SubFrom(t)[i] = SubFrom(q)[i] \o Sub(y)}
<1>1. /\ t \in RawText /\ Len(t) = m + n /\ m \in Nat /\ n \in Nat
      /\ \A k \in 1..m : t[k] = q[k]
  BY ConcatProperties DEF RawText
<1>2. values \in SUBSET RawText
  BY DEF Secrets
<1>3. SubFrom(t)[m + 1] = Sub(y)
  BY <1>1, SubAfter DEF Sub
<1>4. /\ Sub(y) \in Seq(Masked)
      /\ \A i \in 1..(m + 1) : SubFrom(q)[i] \in Seq(Masked)
  BY <1>1, <1>2, SubIs DEF Sub
<1>5. m + 1 \in S
  <2>1. SubFrom(q)[m + 1] = <<>> /\ m + 1 \in 1..(m + 1)
    BY <1>1, <1>2, SubIs
  <2> QED BY <1>3, <1>4, <2>1, ConcatEmptySeq
<1>0. \A i \in C : i \in 1..(m + 1) /\ (i <= m => Jump(t, i) \in C)
  OBVIOUS
<1> HIDE DEF t, m
<1>6. ASSUME NEW i \in 1..m, i \in C PROVE Jump(t, i) = Jump(q, i) /\ Piece(t, i) = Piece(q, i)
  <2>1. i \in 1..Len(t) /\ Jump(t, i) \in 1..(m + 1)
    <3>1. i \in 1..Len(t) /\ i <= m
      BY <1>1
    <3> QED BY <1>0, <1>6, <3>1
  <2>2. Width(t, i) \in Nat /\ i + Width(t, i) <= m + 1
    <3>1. Width(t, i) \in Nat
      BY <1>1, <1>2, <2>1, WidthIs
    <3> QED BY <1>1, <2>1, <3>1 DEF Jump
  <2>3. ASSUME NEW v \in values, Occurs(v, t, i) PROVE i + Len(v) <= m + 1
    <3>1. Len(v) <= Width(t, i) /\ Len(v) \in Nat
      BY <1>1, <1>2, <2>1, <2>3, WidthIs DEF RawText
    <3> QED BY <1>1, <2>2, <3>1
  <2>4. Width(t, i) = Width(q, i)
    BY <2>3, WidthBefore DEF t, m
  <2> QED BY <1>1, <2>4 DEF Jump, Piece
<1>7. ASSUME NEW i \in 1..m, \A k \in (i + 1)..(m + 1) : k \in S PROVE i \in S
  <2> SUFFICES ASSUME i \in C PROVE SubFrom(t)[i] = SubFrom(q)[i] \o Sub(y)
    BY <1>1
  <2>1. i \in 1..Len(t) /\ i \in 1..(m + 1) /\ i <= m
    BY <1>1
  <2>2. Jump(t, i) = Jump(q, i) /\ Piece(t, i) = Piece(q, i)
    BY <1>6
  <2>3. Jump(q, i) \in (i + 1)..(m + 1) /\ Jump(q, i) \in C /\ Piece(q, i) \in Seq(Masked)
    BY <1>2, <2>1, <2>2, ScanIs DEF t, m
  <2>4. SubFrom(t)[Jump(q, i)] = SubFrom(q)[Jump(q, i)] \o Sub(y)
    BY <1>7, <2>3
  <2>5. SubFrom(t)[i] = Piece(q, i) \o SubFrom(t)[Jump(q, i)]
    BY <1>1, <1>2, <2>1, <2>2, SubIs
  <2>6. SubFrom(q)[i] = Piece(q, i) \o SubFrom(q)[Jump(q, i)]
    BY <1>2, SubIs DEF m
  <2>7. SubFrom(q)[Jump(q, i)] \in Seq(Masked)
    BY <1>1, <1>4, <2>3
  <2>8. \A a, c, d \in Seq(Masked) : a \o (c \o d) = (a \o c) \o d
    BY ConcatAssociative
  <2>9. Piece(q, i) \o (SubFrom(q)[Jump(q, i)] \o Sub(y))
          = (Piece(q, i) \o SubFrom(q)[Jump(q, i)]) \o Sub(y)
    BY <1>4, <2>3, <2>7, <2>8
  <2> QED BY <2>4, <2>5, <2>6, <2>9
<1> HIDE DEF S
<1>8. \A i \in 1..(m + 1) : i \in S
  BY <1>1, <1>5, <1>7, FromTheEnd
<1>9. SubFrom(t)[1] = SubFrom(q)[1] \o Sub(y)
  BY <1>1, <1>8 DEF S
<1> QED BY <1>9 DEF Sub, t

(* _proper_prefix_suffix_len: no longer suffix begins a secret.            *)
LEMMA TailIs ==
    ASSUME Secrets, NEW b \in RawText
    PROVE  /\ PrefixSuffixLen(b) \in 0..Len(b)
           /\ \A n \in 1..Len(b), v \in values :
                Len(v) > n /\ SubSeq(v, 1, n) = Suffix(b, n) => n <= PrefixSuffixLen(b)
<1> DEFINE S == {0} \cup {n \in 1..Len(b) : \E v \in values :
                           Len(v) > n /\ SubSeq(v, 1, n) = Suffix(b, n)}
<1>1. Len(b) \in Nat
  BY DEF RawText
<1>2. S \in SUBSET (0..Len(b)) /\ 0 \in S
  BY <1>1
<1>3. PrefixSuffixLen(b) = Max(S)
  BY DEF PrefixSuffixLen
<1>4. \A n \in 1..Len(b), v \in values :
        Len(v) > n /\ SubSeq(v, 1, n) = Suffix(b, n) => n \in S
  OBVIOUS
<1> HIDE DEF S
<1>5. \E m \in S : \A j \in S : m >= j
  <2>1. PICK m \in S : \A j \in S : j <= m
    BY <1>1, <1>2, GreatestPlace
  <2>2. \A j \in S : m >= j
    BY <1>2, <2>1
  <2> QED BY <2>2
<1>6. Max(S) \in S /\ \A j \in S : Max(S) >= j
  BY <1>5 DEF Max
<1>7. Max(S) \in 0..Len(b) /\ \A j \in S : j <= Max(S)
  BY <1>2, <1>6
<1> QED BY <1>3, <1>4, <1>7

(* A match that begins before the tail is decided: more output, whatever   *)
(* it is, makes no difference to it.                                       *)
LEMMA Decided ==
    ASSUME Secrets, NEW b \in RawText, NEW x \in RawText,
           NEW i \in 1..Len(b), i <= Len(b) - PrefixSuffixLen(b)
    PROVE  Width(b \o x, i) = Width(b, i)
<1>1. /\ b \o x \in RawText /\ Len(b \o x) = Len(b) + Len(x)
      /\ Len(b) \in Nat /\ Len(x) \in Nat /\ i \in 1..Len(b \o x)
      /\ \A k \in 1..Len(b) : (b \o x)[k] = b[k]
  BY ConcatProperties DEF RawText
<1>2. ASSUME NEW v \in values, Occurs(v, b \o x, i), ~(i + Len(v) <= Len(b) + 1)
      PROVE  FALSE
  <2> DEFINE n == Len(b) - i + 1
  <2>1. v \in RawText /\ Len(v) \in Nat /\ Len(v) > 0
    BY DEF Secrets, RawText
  <2>2. n \in 1..Len(b) /\ Len(v) > n /\ Len(b) - n + 1 = i
    BY <1>1, <1>2, <2>1
  <2>3. \A k \in 1..Len(v) : v[k] = (b \o x)[i + k - 1]
    <3> DEFINE t == b \o x
    <3>1. t \in Seq(Read) /\ i \in 1..Len(t) /\ Occurs(v, t, i) /\ v \in Seq(Read)
      BY <1>1, <1>2, <2>1 DEF RawText
    <3> HIDE DEF t
    <3>2. \A k \in 1..Len(v) : v[k] = t[i + k - 1]
      BY <2>1, <3>1, OccursAt DEF Spells
    <3> QED BY <3>2 DEF t
  <2>4. ASSUME NEW k \in 1..n PROVE v[k] = b[i + k - 1]
    <3>1. k \in 1..Len(v) /\ i + k - 1 \in 1..Len(b)
      BY <1>1, <2>1, <2>2
    <3> QED BY <1>1, <2>3, <3>1
  <2>5. /\ SubSeq(v, 1, n) \in RawText /\ Len(SubSeq(v, 1, n)) = n
        /\ \A k \in 1..n : SubSeq(v, 1, n)[k] = v[k]
    <3>1. 1 \in Int /\ n \in Int /\ 1 <= n /\ n - 1 + 1 = n
          /\ \A k \in 1..n : v[k] \in Read /\ 1 + k - 1 = k
      BY <2>1, <2>2, ElementOfSeq DEF RawText
    <3> HIDE DEF n
    <3> QED BY <3>1, SubSeqProperties DEF RawText
  <2>6. /\ Suffix(b, n) \in RawText /\ Len(Suffix(b, n)) = n
        /\ \A k \in 1..n : Suffix(b, n)[k] = b[i + k - 1]
    <3>1. i \in Int /\ Len(b) \in Int /\ i <= Len(b) /\ Len(b) - i + 1 = n
          /\ \A k \in i..Len(b) : b[k] \in Read
      BY <1>1, <2>2, ElementOfSeq DEF RawText
    <3>2. /\ SubSeq(b, i, Len(b)) \in Seq(Read)
          /\ Len(SubSeq(b, i, Len(b))) = Len(b) - i + 1
          /\ \A k \in 1..(Len(b) - i + 1) : SubSeq(b, i, Len(b))[k] = b[i + k - 1]
      BY <3>1, SubSeqProperties
    <3> QED BY <2>2, <3>1, <3>2 DEF Suffix, RawText
  <2>7. SubSeq(v, 1, n) = Suffix(b, n)
    BY <2>4, <2>5, <2>6, SeqEqual DEF RawText
  <2>8. n <= PrefixSuffixLen(b) /\ PrefixSuffixLen(b) \in Nat
    <3> HIDE DEF n
    <3> QED BY <2>2, <2>7, TailIs
  <2> QED BY <1>1, <2>8
<1> QED BY <1>2, WidthBefore

(* mask(): whatever is still to come, what is emitted is masked as it      *)
(* would be in the whole.                                                  *)
LEMMA KeptIs ==
    ASSUME Secrets, NEW b \in RawText
    PROVE  /\ Kept(b) \in 0..Len(b)
           /\ \A x \in RawText : \E C \in SUBSET (1..(Len(b) - Kept(b) + 1)) :
                /\ 1 \in C
                /\ \A i \in C : i <= Len(b) - Kept(b) => Jump(b \o x, i) \in C
<1> DEFINE n == Len(b)
           start == n - PrefixSuffixLen(b)
           M == MatchesFrom(b)
           crossing == {m \in M[1] : m[1] <= start /\ start < m[2]}
<1>1. n \in Nat /\ start \in 0..n /\ PrefixSuffixLen(b) \in 0..n /\ n - start = PrefixSuffixLen(b)
  BY TailIs DEF RawText
<1>2. Kept(b) = IF crossing = {} THEN n - start
                ELSE n + 1 - (CHOOSE m \in crossing : TRUE)[1]
  BY DEF Kept, Matches
<1>3. /\ \A i \in 1..n : M[i] = FoundAt(b, i) \cup M[Jump(b, i)]
      /\ \A i \in 1..(n + 1) : \A m \in M[i] : m[1] \in i..n
  BY MatchesIs DEF Secrets
<1>4. \A i \in 1..n : Jump(b, i) \in (i + 1)..(n + 1)
  BY ScanIs DEF Secrets
<1>5. \A x \in RawText : \A i \in 1..start : Jump(b \o x, i) = Jump(b, i)
  <2> SUFFICES ASSUME NEW x \in RawText, NEW i \in 1..start
               PROVE  Jump(b \o x, i) = Jump(b, i)
    OBVIOUS
  <2>1. i \in 1..Len(b) /\ i <= Len(b) - PrefixSuffixLen(b)
    BY <1>1
  <2> QED BY <2>1, Decided DEF Jump
<1>6. \A i \in 1..n : Width(b, i) \in Nat
  BY WidthIs DEF Secrets, RawText
<1> HIDE DEF n, start, M
<1>7. CASE crossing = {}
  <2> DEFINE C == {i \in 1..(start + 1) : M[i] \subseteq M[1]}
  <2>1. 1 \in C
    BY <1>1
  <2>2. ASSUME NEW x \in RawText, NEW i \in C, i <= start PROVE Jump(b \o x, i) \in C
    <3>1. i \in 1..start /\ i \in 1..n /\ M[i] \subseteq M[1]
      BY <1>1, <2>2
    <3>2. Jump(b \o x, i) = Jump(b, i) /\ Jump(b, i) \in (i + 1)..(n + 1)
      BY <1>4, <1>5, <3>1
    <3>3. M[Jump(b, i)] \subseteq M[1] /\ FoundAt(b, i) \subseteq M[1]
      BY <1>3, <3>1
    <3>4. Jump(b, i) <= start + 1
      <4>1. CASE Width(b, i) = 0
        BY <1>1, <3>1, <4>1 DEF Jump
      <4>2. CASE Width(b, i) # 0
        <5>1. <<i, i + Width(b, i) - 1>> \in M[1]
          BY <3>3, <4>2 DEF FoundAt
        <5>2. ~(start < i + Width(b, i) - 1)
          BY <1>7, <3>1, <5>1
        <5> QED BY <1>1, <1>6, <3>1, <4>2, <5>2 DEF Jump
      <4> QED BY <4>1, <4>2
    <3> QED BY <1>1, <3>1, <3>2, <3>3, <3>4
  <2>3. Kept(b) = n - start /\ n - Kept(b) = start /\ Kept(b) \in 0..n
    BY <1>1, <1>2, <1>7
  <2>4. C \in SUBSET (1..(n - Kept(b) + 1))
    BY <2>3
  <2> HIDE DEF C
  <2> QED BY <2>1, <2>2, <2>3, <2>4 DEF n
<1>8. CASE crossing # {}
  <2> DEFINE met == CHOOSE m \in crossing : TRUE
             C == {i \in 1..met[1] : met \in M[i]}
  <2>1. met \in M[1] /\ met[1] <= start
    BY <1>8
  <2>2. met[1] \in 1..n
    BY <1>1, <1>3, <2>1
  <2>3. Kept(b) = n + 1 - met[1] /\ n - Kept(b) + 1 = met[1] /\ Kept(b) \in 0..n
        /\ n - Kept(b) = met[1] - 1
    BY <1>1, <1>2, <1>8, <2>2
  <2> HIDE DEF met
  <2>4. 1 \in C
    BY <2>1, <2>2
  <2>5. ASSUME NEW x \in RawText, NEW i \in C, i <= met[1] - 1 PROVE Jump(b \o x, i) \in C
    <3>1. i \in 1..start /\ i \in 1..n /\ met \in M[i] /\ i # met[1]
      BY <1>1, <2>1, <2>2, <2>5
    <3>2. Jump(b \o x, i) = Jump(b, i) /\ Jump(b, i) \in (i + 1)..(n + 1)
      BY <1>4, <1>5, <3>1
    <3>3. met \notin FoundAt(b, i)
      BY <3>1, ScanIs DEF Secrets, n
    <3>4. met \in M[Jump(b, i)]
      BY <1>3, <3>1, <3>3
    <3>5. Jump(b, i) \in 1..(n + 1)
      BY <1>1, <3>1, <3>2
    <3>6. met[1] \in Jump(b, i)..n
      BY <1>3, <3>4, <3>5
    <3>7. Jump(b, i) \in 1..met[1]
      BY <1>1, <2>2, <3>5, <3>6
    <3> QED BY <3>2, <3>4, <3>7
  <2>6. C \in SUBSET (1..(n - Kept(b) + 1))
    BY <2>3
  <2> HIDE DEF C
  <2> QED BY <2>3, <2>4, <2>5, <2>6 DEF n
<1> QED BY <1>7, <1>8

(* What is not the mask is as it was in the text.                          *)
LEMMA LettersStay ==
    ASSUME Secrets, Mask \notin Read, NEW t \in RawText
    PROVE  \A i \in 1..(Len(t) + 1) : \A k \in 1..Len(SubFrom(t)[i]) :
             (\A l \in 1..k : SubFrom(t)[i][l] \in Read) =>
               /\ i + k - 1 <= Len(t) /\ SubFrom(t)[i][k] = t[i + k - 1]
               /\ Width(t, i) = 0
<1> DEFINE n == Len(t)
           F == SubFrom(t)
           Kind(i) == \A k \in 1..Len(F[i]) : (\A l \in 1..k : F[i][l] \in Read) =>
                        /\ i + k - 1 <= n /\ F[i][k] = t[i + k - 1] /\ Width(t, i) = 0
           S == {i \in 1..(n + 1) : Kind(i)}
<1>1. n \in Nat /\ values \in SUBSET RawText
  BY DEF RawText, Secrets
<1>2. /\ \A i \in 1..(n + 1) : F[i] \in Seq(Masked)
      /\ F[n + 1] = <<>>
      /\ \A i \in 1..n : F[i] = Piece(t, i) \o F[Jump(t, i)]
  BY <1>1, SubIs
<1> HIDE DEF F, n
<1>3. n + 1 \in S
  <2>1. Len(F[n + 1]) = 0 /\ n + 1 \in 1..(n + 1)
    BY <1>1, <1>2
  <2> QED BY <2>1
<1>4. ASSUME NEW i \in 1..n, \A j \in (i + 1)..(n + 1) : j \in S PROVE i \in S
  <2>1. i \in 1..(n + 1) /\ i + 1 \in (i + 1)..(n + 1) /\ i + 1 \in 1..(n + 1)
    BY <1>1
  <2> SUFFICES ASSUME NEW k \in 1..Len(F[i]), \A l \in 1..k : F[i][l] \in Read
               PROVE  i + k - 1 <= n /\ F[i][k] = t[i + k - 1] /\ Width(t, i) = 0
    BY <2>1
  <2>2. /\ Jump(t, i) \in 1..(n + 1) /\ F[Jump(t, i)] \in Seq(Masked)
        /\ Piece(t, i) \in Seq(Masked) /\ Len(Piece(t, i)) = 1
    <3>1. /\ Jump(t, i) \in (i + 1)..(n + 1)
          /\ Piece(t, i) \in Seq(Masked) /\ Len(Piece(t, i)) = 1
      BY <1>1, ScanIs DEF n
    <3> QED BY <1>1, <1>2, <3>1
  <2>3. /\ Len(F[i]) = 1 + Len(F[Jump(t, i)]) /\ Len(F[Jump(t, i)]) \in Nat
        /\ F[i][1] = Piece(t, i)[1]
        /\ \A l \in 1..Len(F[Jump(t, i)]) : F[i][l + 1] = F[Jump(t, i)][l]
    <3> DEFINE p == Piece(t, i)
               w == F[Jump(t, i)]
    <3> HIDE DEF p, w
    <3>1. /\ p \in Seq(Masked) /\ w \in Seq(Masked) /\ Len(p) = 1 /\ Len(w) \in Nat
          /\ F[i] = p \o w
      <4>1. p \in Seq(Masked) /\ w \in Seq(Masked) /\ Len(p) = 1
        BY <2>2 DEF p, w
      <4>2. F[i] = p \o w
        BY <1>2 DEF p, w
      <4> QED BY <4>1, <4>2
    <3>2. /\ Len(p \o w) = Len(p) + Len(w)
          /\ \A l \in 1..(Len(p) + Len(w)) :
               (p \o w)[l] = IF l <= Len(p) THEN p[l] ELSE w[l - Len(p)]
      BY <3>1, ConcatProperties
    <3>3. 1 \in 1..(1 + Len(w)) /\ \A l \in 1..Len(w) : l + 1 \in 1..(1 + Len(w))
                                       /\ ~(l + 1 <= 1) /\ l + 1 - 1 = l
      BY <3>1
    <3>4. F[i][1] = p[1] /\ \A l \in 1..Len(w) : F[i][l + 1] = w[l]
      BY <3>1, <3>2, <3>3
    <3> QED BY <3>1, <3>2, <3>4 DEF p, w
  <2>4. Width(t, i) = 0
    <3>1. Piece(t, i)[1] \in Read
      BY <2>3
    <3> QED BY <3>1 DEF Piece
  <2>5. Piece(t, i)[1] = t[i] /\ Jump(t, i) = i + 1
    BY <2>4 DEF Piece, Jump
  <2>6. CASE k = 1
    <3>1. i + k - 1 = i /\ i <= n
      BY <1>1, <2>6
    <3> QED BY <2>3, <2>4, <2>5, <2>6, <3>1
  <2>7. CASE k # 1
    <3>1. k - 1 \in 1..Len(F[i + 1]) /\ k - 1 + 1 = k
      BY <2>3, <2>5, <2>7
    <3>2. \A l \in 1..(k - 1) : F[i + 1][l] \in Read
      <4>1. \A l \in 1..(k - 1) : l \in 1..Len(F[i + 1]) /\ l + 1 \in 1..k
        BY <2>3, <2>5, <3>1
      <4> QED BY <2>3, <2>5, <4>1
    <3>3. Kind(i + 1)
      BY <1>4, <2>1
    <3>4. i + 1 + (k - 1) - 1 <= n /\ F[i + 1][k - 1] = t[i + 1 + (k - 1) - 1]
      BY <3>1, <3>2, <3>3
    <3>5. i + 1 + (k - 1) - 1 = i + k - 1
      BY <2>1
    <3>6. F[i][k] = F[i + 1][k - 1]
      BY <2>3, <2>5, <3>1
    <3> QED BY <2>4, <3>4, <3>5, <3>6
  <2> QED BY <2>6, <2>7
<1> HIDE DEF S
<1>5. \A i \in 1..(n + 1) : i \in S
  BY <1>1, <1>3, <1>4, FromTheEnd
<1>6. \A i \in 1..(n + 1) : Kind(i)
  BY <1>5 DEF S
<1> QED BY <1>6 DEF F, n

(* Masking leaves no secret, not even one made of what was apart.          *)
LEMMA NoneLeft ==
    ASSUME Secrets, Mask \notin Read, NEW t \in RawText,
           NEW v \in values, NEW place \in 1..Len(Sub(t))
    PROVE  ~Occurs(v, Sub(t), place)
<1> DEFINE n == Len(t)
           F == SubFrom(t)
           S == {i \in 1..(n + 1) : \A j \in 1..Len(F[i]) : ~Occurs(v, F[i], j)}
<1>1. n \in Nat /\ values \in SUBSET RawText
  BY DEF RawText, Secrets
<1>2. /\ \A i \in 1..(n + 1) : F[i] \in Seq(Masked)
      /\ F[n + 1] = <<>>
      /\ \A i \in 1..n : F[i] = Piece(t, i) \o F[Jump(t, i)]
  BY <1>1, SubIs
<1>3. /\ v \in Seq(Read) /\ v \in Seq(Masked) /\ Len(v) \in Nat /\ Len(v) > 0
      /\ \A l \in 1..Len(v) : v[l] \in Read
  <2>1. v \in Seq(Read) /\ Len(v) > 0
    BY <1>1 DEF Secrets, RawText
  <2>2. Read \subseteq Masked
    BY DEF Masked
  <2>3. v \in Seq(Masked)
    BY <2>1, <2>2, SeqMonotonic
  <2> QED BY <2>1, <2>3, ElementOfSeq
<1> HIDE DEF F, n
<1>4. n + 1 \in S
  <2>1. Len(F[n + 1]) = 0 /\ n + 1 \in 1..(n + 1)
    BY <1>1, <1>2
  <2> QED BY <2>1
<1>5. ASSUME NEW i \in 1..n, \A j \in (i + 1)..(n + 1) : j \in S PROVE i \in S
  <2>1. i \in 1..(n + 1)
    BY <1>1
  <2> SUFFICES ASSUME NEW j \in 1..Len(F[i]), Occurs(v, F[i], j) PROVE FALSE
    BY <2>1
  <2>2. F[i] \in Seq(Masked)
    BY <1>2, <2>1
  <2>3. /\ j + Len(v) <= Len(F[i]) + 1
        /\ \A k \in 1..Len(v) : v[k] = F[i][j + k - 1]
    BY <1>3, <2>2, OccursAt DEF Spells
  <2>4. CASE j = 1
    <3>1. ASSUME NEW k \in 1..Len(v) PROVE k \in 1..Len(F[i]) /\ F[i][k] = v[k]
      <4>1. Len(F[i]) \in Nat /\ 1 + k - 1 = k
        BY <2>2
      <4> QED BY <1>3, <2>3, <2>4, <4>1
    <3>2. ASSUME NEW k \in 1..Len(v)
          PROVE  i + k - 1 <= n /\ v[k] = t[i + k - 1] /\ Width(t, i) = 0
      <4>1. \A l \in 1..k : F[i][l] \in Read
        <5>1. \A l \in 1..k : l \in 1..Len(v)
          BY <1>3
        <5> QED BY <1>3, <3>1, <5>1
      <4> QED BY <2>1, <3>1, <4>1, LettersStay DEF F, n
    <3>3. Len(v) \in 1..Len(v) /\ 1 \in 1..Len(v)
      BY <1>3
    <3>4. i + Len(v) <= n + 1
      BY <1>1, <1>3, <3>2, <3>3
    <3>5. Occurs(v, t, i)
      BY <1>3, <3>2, <3>4, OccursAt DEF n, RawText, Spells
    <3>6. Len(v) <= Width(t, i)
      BY <1>1, <3>5, WidthIs DEF n
    <3> QED BY <1>3, <3>2, <3>3, <3>6
  <2>5. CASE j # 1
    <3>1. /\ Jump(t, i) \in (i + 1)..(n + 1)
          /\ Piece(t, i) \in Seq(Masked) /\ Len(Piece(t, i)) = 1
      BY <1>1, ScanIs DEF n
    <3>2. Jump(t, i) \in 1..(n + 1) /\ F[Jump(t, i)] \in Seq(Masked)
      BY <1>1, <1>2, <3>1
    <3>3. F[i] = Piece(t, i) \o F[Jump(t, i)] /\ Len(F[i]) = 1 + Len(F[Jump(t, i)])
      <4> DEFINE p == Piece(t, i)
                 w == F[Jump(t, i)]
      <4>1. p \in Seq(Masked) /\ w \in Seq(Masked) /\ Len(p) = 1 /\ F[i] = p \o w
        BY <1>2, <3>1, <3>2
      <4> HIDE DEF p, w
      <4>2. Len(p \o w) = Len(p) + Len(w)
        BY <4>1, ConcatProperties
      <4> QED BY <4>1, <4>2 DEF p, w
    <3>4. j - 1 \in 1..Len(F[Jump(t, i)]) /\ 1 + (j - 1) = j
      BY <2>5, <3>2, <3>3
    <3>5. Occurs(v, Piece(t, i) \o F[Jump(t, i)], 1 + (j - 1))
            <=> Occurs(v, F[Jump(t, i)], j - 1)
      BY <1>3, <3>1, <3>2, <3>4, OccursAfter
    <3>6. Occurs(v, F[Jump(t, i)], j - 1)
      BY <3>3, <3>4, <3>5
    <3> QED BY <1>5, <3>1, <3>4, <3>6
  <2> QED BY <2>4, <2>5
<1> HIDE DEF S
<1>6. \A i \in 1..(n + 1) : i \in S
  BY <1>1, <1>4, <1>5, FromTheEnd
<1>7. 1 \in 1..(n + 1)
  BY <1>1
<1> QED BY <1>6, <1>7 DEF S, F, Sub

LEMMA TextAssoc == \A a, b, c \in RawText : (a \o b) \o c = a \o (b \o c)
BY ConcatAssociative DEF RawText

LEMMA MaskedAssoc ==
    \A a, b, c \in Seq(Masked) : (a \o b) \o c = a \o (b \o c)
BY ConcatAssociative

LEMMA TextConcat ==
    ASSUME NEW a \in RawText, NEW b \in RawText
    PROVE  a \o b \in RawText /\ Len(a \o b) = Len(a) + Len(b) /\ Len(a) \in Nat /\ Len(b) \in Nat
BY ConcatProperties DEF RawText

LEMMA SubType ==
    ASSUME Secrets, NEW t \in RawText
    PROVE  Sub(t) \in Seq(Masked)
<1>1. 1 \in 1..(Len(t) + 1)
  BY DEF RawText
<1> QED BY <1>1, SubIs DEF Sub, Secrets

(* A text cut in two.                                                      *)
LEMMA Cut ==
    ASSUME NEW b \in RawText, NEW n \in 0..Len(b)
    PROVE  /\ SubSeq(b, 1, Len(b) - n) \in RawText /\ Len(SubSeq(b, 1, Len(b) - n)) = Len(b) - n
           /\ Suffix(b, n) \in RawText /\ Len(Suffix(b, n)) = n
           /\ SubSeq(b, 1, Len(b) - n) \o Suffix(b, n) = b
<1> DEFINE k == Len(b) - n
<1>1. /\ b \in Seq(Read) /\ \A i \in 1..Len(b) : b[i] \in Read
      /\ Len(b) \in Nat /\ n \in Nat /\ k \in 0..Len(b) /\ Len(b) - k = n
  BY ElementOfSeq DEF RawText
<1> HIDE DEF k
<1>2. /\ SubSeq(b, 1, k) \in Seq(Read)
      /\ Len(SubSeq(b, 1, k)) = IF 1 <= k THEN k - 1 + 1 ELSE 0
  <2>1. 1 \in Int /\ k \in Int /\ \A i \in 1..k : b[i] \in Read
    BY <1>1
  <2> QED BY <2>1, SubSeqProperties
<1>3. /\ SubSeq(b, k + 1, Len(b)) \in Seq(Read)
      /\ Len(SubSeq(b, k + 1, Len(b))) = IF k + 1 <= Len(b) THEN Len(b) - (k + 1) + 1 ELSE 0
  <2> DEFINE l == Len(b)
             j == k + 1
  <2>1. j \in Int /\ l \in Int /\ \A i \in j..l : b[i] \in Read
    BY <1>1
  <2> HIDE DEF l, j
  <2>2. /\ SubSeq(b, j, l) \in Seq(Read)
        /\ Len(SubSeq(b, j, l)) = IF j <= l THEN l - j + 1 ELSE 0
    BY <2>1, SubSeqProperties
  <2> QED BY <2>2 DEF l, j
<1>4. SubSeq(b, 1, k) \o SubSeq(b, k + 1, Len(b)) = b
  <2>1. 1 \in 1..(Len(b) + 1) /\ k \in (1 - 1)..Len(b) /\ Len(b) \in k..Len(b)
    BY <1>1
  <2>2. SubSeq(b, 1, k) \o SubSeq(b, k + 1, Len(b)) = SubSeq(b, 1, Len(b))
    BY <1>1, <2>1, ConcatAdjacentSubSeq
  <2>3. SubSeq(b, 1, Len(b)) = b
    BY <1>1, SubSeqFull
  <2> QED BY <2>2, <2>3
<1>5. Len(SubSeq(b, 1, k)) = k /\ Len(SubSeq(b, k + 1, Len(b))) = n
  BY <1>1, <1>2, <1>3
<1>6. Suffix(b, n) = SubSeq(b, k + 1, Len(b))
  BY DEF Suffix, k
<1> QED BY <1>2, <1>3, <1>4, <1>5, <1>6 DEF k, RawText

(* Letters mask() withholds.                                               *)
Withheld(b) == IF values = {} THEN 0 ELSE Kept(b)

(* What mask() emits is masked as it would be in the whole, whatever comes. *)
LEMMA EmittedIs ==
    ASSUME Secrets, NEW b \in RawText
    PROVE  /\ Withheld(b) \in 0..Len(b)
           /\ \A x \in RawText : Sub(b \o x) = Sub(SubSeq(b, 1, Len(b) - Withheld(b)))
                                          \o Sub(Suffix(b, Withheld(b)) \o x)
<1> DEFINE n == Withheld(b)
           q == SubSeq(b, 1, Len(b) - n)
           rest == Suffix(b, n)
<1>1. n \in 0..Len(b)
  <2>1. Len(b) \in Nat
    BY DEF RawText
  <2> QED BY <2>1, KeptIs DEF Withheld
<1>2. /\ q \in RawText /\ Len(q) = Len(b) - n /\ rest \in RawText /\ q \o rest = b
  <2> HIDE DEF n
  <2> QED BY <1>1, Cut
<1>3. ASSUME NEW x \in RawText
      PROVE  \E C \in SUBSET (1..(Len(b) - n + 1)) :
               1 \in C /\ \A i \in C : i <= Len(b) - n => Jump(b \o x, i) \in C
  <2>1. CASE values = {}
    <3> DEFINE t == b \o x
               C == 1..(Len(b) + 1)
    <3>1. t \in RawText /\ Len(t) = Len(b) + Len(x) /\ Len(b) \in Nat /\ Len(x) \in Nat
      BY TextConcat
    <3> HIDE DEF t
    <3>2. \A i \in 1..Len(b) : Jump(t, i) = i + 1
      <4> SUFFICES ASSUME NEW i \in 1..Len(b) PROVE Jump(t, i) = i + 1
        OBVIOUS
      <4>1. i \in 1..Len(t)
        BY <3>1
      <4>2. Width(t, i) = 0
        BY <2>1, <3>1, <4>1, WidthIs DEF Secrets
      <4> QED BY <4>2 DEF Jump
    <3>3. n = 0 /\ Len(b) - n + 1 = Len(b) + 1 /\ Len(b) - n = Len(b)
      BY <2>1, <3>1 DEF Withheld
    <3>4. 1 \in C /\ \A i \in C : i <= Len(b) => Jump(t, i) \in C
      BY <3>1, <3>2
    <3> QED BY <3>3, <3>4 DEF t
  <2>2. CASE values # {}
    <3>1. n = Kept(b)
      BY <2>2 DEF Withheld
    <3> QED BY <3>1, KeptIs
  <2> QED BY <2>1, <2>2
<1>4. ASSUME NEW x \in RawText PROVE Sub(b \o x) = Sub(q) \o Sub(rest \o x)
  <2> HIDE DEF q, rest, n
  <2> DEFINE y == rest \o x
  <2>1. y \in RawText
    BY <1>2, TextConcat
  <2>a. (q \o rest) \o x = q \o y
    BY <1>2, TextAssoc
  <2>b. b \o x = q \o y
    BY <1>2, <2>a
  <2> HIDE DEF y
  <2>2. PICK C \in SUBSET (1..(Len(q) + 1)) :
          1 \in C /\ \A i \in C : i <= Len(q) => Jump(q \o y, i) \in C
    BY <1>2, <1>3, <2>b
  <2>3. Sub(q \o y) = Sub(q) \o Sub(y)
    BY <1>2, <2>1, <2>2, SubSplit
  <2> QED BY <2>b, <2>3 DEF y
<1> QED BY <1>1, <1>4

(* What has been logged, and what would be of what is withheld and of all  *)
(* that may still come, is the whole of what has been read, masked.        *)
WholeInv ==
    /\ ended => carry = <<>> /\ logged = Sub(seen)
    /\ ~ended => \A x \in RawText : Sub(seen \o x) = logged \o Sub(carry \o x)

(* Nothing else than the letters a chunk was cut in is decoded to another. *)
Clean(t) == \A i \in 1..Len(t) : t[i] # Garbled
DecodedInv == Clean(seen) => seen = output /\ ~half

MaskerInv == MaskerTypeOK /\ WholeInv /\ DecodedInv

LEMMA LettersRead == Seq(Letter) \subseteq Seq(Read)
BY SeqMonotonic DEF Read

LEMMA MaskerTypes ==
    ASSUME MaskerAssumption, MaskerTypeOK
    PROVE  /\ Secrets /\ Mask \notin Read /\ MaxText \in Nat
           /\ seen \in RawText /\ carry \in RawText /\ logged \in Seq(Masked)
<1>1. values \in SUBSET RawText /\ \A v \in values : Len(v) \in Nat /\ Len(v) >= MinLength
  BY LettersRead DEF MaskerTypeOK, RawText
<1>2. MinLength \in Nat /\ MinLength > 0
  BY DEF MaskerAssumption
<1> QED BY <1>1, <1>2 DEF Secrets, MaskerTypeOK, MaskerAssumption, RawText, Masked

(* The secrets of a run never change, nor does what masks as what.         *)
LEMMA SubStays ==
    ASSUME values' = values, NEW t
    PROVE  Sub(t)' = Sub(t)
BY DEF Sub, SubFrom, Width, Occurs

(* If nothing more comes, the withheld tail completes the output.          *)
LEMMA AllLogged ==
    ASSUME Secrets, WholeInv, ~ended, seen \in RawText, carry \in RawText
    PROVE  Sub(seen) = logged \o Sub(carry)
<1>1. <<>> \in RawText
  BY DEF RawText
<1>2. Sub(seen \o <<>>) = logged \o Sub(carry \o <<>>)
  BY <1>1 DEF WholeInv
<1>3. seen \o <<>> = seen /\ carry \o <<>> = carry
  BY ConcatEmptySeq DEF RawText
<1> QED BY <1>2, <1>3

(* What a chunk is decoded to, and that it is itself unless cut.           *)
LEMMA DecodedIs ==
    ASSUME MaskerAssumption, MaskerInv, NEW whole \in Chunk, NEW cut \in CutIn
    PROVE  /\ whole \in Seq(Letter) /\ cut \in Seq(Letter)
           /\ Decoded(whole, cut) \in RawText
           /\ Clean(seen \o Decoded(whole, cut)) =>
                /\ seen \o Decoded(whole, cut) = (output \o whole) \o cut
                /\ cut = <<>>
<1> DEFINE head == IF half THEN <<Garbled>> ELSE <<>>
           tail == IF cut = <<>> THEN <<>> ELSE <<Garbled>>
           text == (head \o whole) \o tail
<1>1. /\ seen \in Seq(Read) /\ output \in Seq(Letter) /\ Len(seen) \in Nat
      /\ Wide \subseteq Letter /\ MaxText \in Nat /\ Garbled \in Read
  BY DEF MaskerInv, MaskerTypeOK, MaskerAssumption, Read
<1>2. whole \in Seq(Letter) /\ whole \in Seq(Read)
  <2>1. PICK k \in 0..(MaxText - Len(seen)) : whole \in [1..k -> Letter]
    BY DEF Chunk
  <2>2. k \in Nat
    BY <1>1, <2>1
  <2> QED BY <2>1, <2>2, LettersRead
<1>3. cut \in Seq(Letter)
  <2>1. CASE cut = <<>>
    BY <2>1
  <2>2. CASE cut # <<>>
    <3>1. PICK c \in Letter : cut = <<c>>
      BY <1>1, <2>2 DEF CutIn
    <3> QED BY <3>1
  <2> QED BY <2>1, <2>2
<1>4. /\ head \in Seq(Read) /\ Len(head) = (IF half THEN 1 ELSE 0) /\ (half => head[1] = Garbled)
      /\ tail \in Seq(Read) /\ Len(tail) = (IF cut = <<>> THEN 0 ELSE 1)
      /\ (cut # <<>> => tail[1] = Garbled)
  BY <1>1
<1>5. Decoded(whole, cut) = text
  BY DEF Decoded
<1> HIDE DEF head, tail
<1>6. head \o whole \in Seq(Read) /\ Len(head \o whole) \in Nat
  BY <1>2, <1>4, ConcatProperties, LenProperties
<1>7. /\ text \in Seq(Read) /\ Len(text) = Len(head \o whole) + Len(tail)
      /\ \A i \in 1..(Len(head \o whole) + Len(tail)) :
           text[i] = IF i <= Len(head \o whole) THEN (head \o whole)[i]
                     ELSE tail[i - Len(head \o whole)]
  <2> DEFINE left == head \o whole
  <2>1. left \in Seq(Read) /\ text = left \o tail
    BY <1>6
  <2> HIDE DEF left, text
  <2>2. /\ text \in Seq(Read) /\ Len(text) = Len(left) + Len(tail)
        /\ \A i \in 1..(Len(left) + Len(tail)) :
             text[i] = IF i <= Len(left) THEN left[i] ELSE tail[i - Len(left)]
    BY <1>4, <2>1, ConcatProperties
  <2> QED BY <2>2 DEF left
<1> HIDE DEF text
<1>8. /\ Len(seen \o text) = Len(seen) + Len(text) /\ Len(text) \in Nat
      /\ \A i \in 1..(Len(seen) + Len(text)) :
           (seen \o text)[i] = IF i <= Len(seen) THEN seen[i] ELSE text[i - Len(seen)]
  <2>1. Len(text) \in Nat
    BY <1>7, LenProperties
  <2>2. text \in Seq(Read) /\ seen \in Seq(Read)
    BY <1>1, <1>7
  <2>3. /\ Len(seen \o text) = Len(seen) + Len(text)
        /\ \A i \in 1..(Len(seen) + Len(text)) :
             (seen \o text)[i] = IF i <= Len(seen) THEN seen[i] ELSE text[i - Len(seen)]
    BY <2>2, ConcatProperties
  <2> QED BY <2>1, <2>3
<1>9. ASSUME Clean(seen \o text)
      PROVE  /\ seen \o text = (output \o whole) \o cut
             /\ cut = <<>>
  <2>1. Clean(seen) /\ Clean(text)
    <3>1. \A i \in 1..Len(seen) : seen[i] # Garbled
      BY <1>1, <1>8, <1>9 DEF Clean
    <3>2. ASSUME NEW i \in 1..Len(text) PROVE text[i] # Garbled
      <4>1. /\ i + Len(seen) \in 1..(Len(seen) + Len(text))
            /\ (i + Len(seen)) - Len(seen) = i /\ ~(i + Len(seen) <= Len(seen))
        BY <1>1, <1>8
      <4>2. (seen \o text)[i + Len(seen)] = text[i]
        BY <1>8, <4>1
      <4> QED BY <1>8, <1>9, <4>1, <4>2 DEF Clean
    <3> QED BY <3>1, <3>2 DEF Clean
  <2>2. seen = output /\ ~half
    BY <2>1 DEF MaskerInv, DecodedInv
  <2>3. cut = <<>>
    <3> SUFFICES ASSUME cut # <<>> PROVE FALSE
      OBVIOUS
    <3> DEFINE n == Len(head \o whole) + 1
    <3>1. Len(tail) = 1 /\ tail[1] = Garbled /\ Len(head \o whole) \in Nat
      BY <1>4, <1>6
    <3>2. n \in 1..Len(text) /\ text[n] = Garbled
      BY <1>7, <3>1
    <3> QED BY <2>1, <3>2 DEF Clean
  <2>4. head = <<>> /\ tail = <<>>
    BY <2>2, <2>3 DEF head, tail
  <2>5. text = whole
    BY <1>2, <2>4, ConcatEmptySeq DEF text
  <2>6. (output \o whole) \o <<>> = output \o whole
    BY <1>1, <1>2, ConcatEmptySeq, ConcatProperties
  <2> QED BY <2>2, <2>3, <2>5, <2>6
<1> QED BY <1>2, <1>3, <1>5, <1>7, <1>9 DEF RawText

(* mask()                                                                  *)
LEMMA ChunkInv ==
    ASSUME MaskerAssumption, MaskerInv, NEW whole \in Chunk, NEW cut \in CutIn,
           MaskChunk(whole, cut)
    PROVE  MaskerInv'
<1> DEFINE chunk == Decoded(whole, cut)
           b == carry \o chunk
           q == SubSeq(b, 1, Len(b) - Withheld(b))
           rest == Suffix(b, Withheld(b))
           out == seen \o chunk
<1>1. /\ Secrets /\ seen \in RawText /\ carry \in RawText /\ logged \in Seq(Masked)
      /\ MaxText \in Nat /\ MaskerTypeOK
  BY MaskerTypes DEF MaskerInv
<1>2. chunk \in RawText /\ Len(seen) + Len(chunk) <= MaxText
  BY DecodedIs DEF MaskChunk
<1>3. /\ ~ended /\ ended' = ended /\ values' = values
      /\ seen' = out /\ carry' = rest /\ logged' = logged \o Sub(q)
  BY DEF MaskChunk, Withheld
<1>4. DecodedInv' /\ output' \in Seq(Letter) /\ half' \in BOOLEAN
  <2>1. output' = (output \o whole) \o cut /\ half' = (cut # <<>>) /\ seen' = seen \o chunk
    BY DEF MaskChunk
  <2>2. /\ whole \in Seq(Letter) /\ cut \in Seq(Letter)
        /\ Clean(seen \o chunk) => seen \o chunk = (output \o whole) \o cut /\ cut = <<>>
    BY DecodedIs
  <2>3. output' \in Seq(Letter)
    BY <1>1, <2>1, <2>2, ConcatProperties DEF MaskerTypeOK
  <2> HIDE DEF chunk
  <2>4. DecodedInv'
    BY <2>1, <2>2 DEF DecodedInv, Clean
  <2> QED BY <2>1, <2>3, <2>4
<1> HIDE DEF chunk
<1>5. b \in RawText /\ Len(b) = Len(carry) + Len(chunk) /\ Len(carry) \in Nat /\ Len(chunk) \in Nat
  BY <1>1, <1>2, TextConcat
<1>6. out \in RawText /\ Len(out) = Len(seen) + Len(chunk) /\ Len(seen) \in Nat
  BY <1>1, <1>2, TextConcat
<1> HIDE DEF b
<1>7. Withheld(b) \in 0..Len(b)
      /\ \A x \in RawText : Sub(b \o x) = Sub(q) \o Sub(rest \o x)
  BY <1>1, <1>5, EmittedIs
<1>8. q \in RawText /\ rest \in RawText /\ Len(rest) = Withheld(b)
  BY <1>5, <1>7, Cut
<1> HIDE DEF q, rest, out
<1>9. Sub(q) \in Seq(Masked) /\ logged \o Sub(q) \in Seq(Masked)
  BY <1>1, <1>8, SubType, ConcatProperties
<1>10. MaskerTypeOK'
  <2>1. Len(rest) <= Len(out) /\ Len(out) <= MaxText
    BY <1>1, <1>2, <1>5, <1>6, <1>7, <1>8 DEF MaskerTypeOK
  <2>2. \A v \in values : v \in Seq(Letter) /\ Len(v) >= MinLength
    BY <1>1 DEF MaskerTypeOK
  <2>3. \A v \in values' : v \in Seq(Letter) /\ Len(v) >= MinLength
    BY <1>3, <2>2
  <2>4. ended' \in BOOLEAN
    BY <1>1, <1>3 DEF MaskerTypeOK
  <2>5. seen' \in Seq(Read) /\ Len(seen') <= MaxText
    BY <1>3, <1>6, <2>1 DEF RawText
  <2>6. carry' \in Seq(Read) /\ Len(carry') <= Len(seen')
    BY <1>3, <1>8, <2>1 DEF RawText
  <2>7. logged' \in Seq(Read \cup {Mask})
    BY <1>3, <1>9 DEF Masked
  <2> QED BY <1>4, <2>3, <2>4, <2>5, <2>6, <2>7 DEF MaskerTypeOK
<1>11. ASSUME NEW x \in RawText
       PROVE  Sub(out \o x) = (logged \o Sub(q)) \o Sub(rest \o x)
  <2>1. chunk \o x \in RawText /\ rest \o x \in RawText
    BY <1>2, <1>8, TextConcat
  <2>2. out \o x = seen \o (chunk \o x)
    BY <1>1, <1>2, TextAssoc DEF out
  <2>3. carry \o (chunk \o x) = b \o x
    BY <1>1, <1>2, TextAssoc DEF b
  <2>4. Sub(seen \o (chunk \o x)) = logged \o Sub(carry \o (chunk \o x))
    BY <1>3, <2>1 DEF MaskerInv, WholeInv
  <2>5. Sub(b \o x) = Sub(q) \o Sub(rest \o x)
    BY <1>7
  <2>6. Sub(rest \o x) \in Seq(Masked)
    BY <1>1, <2>1, SubType
  <2>7. logged \o (Sub(q) \o Sub(rest \o x)) = (logged \o Sub(q)) \o Sub(rest \o x)
    BY <1>1, <1>9, <2>6, MaskedAssoc
  <2> QED BY <2>2, <2>3, <2>4, <2>5, <2>7
<1>12. WholeInv'
  <2> SUFFICES ASSUME NEW x \in RawText
               PROVE  Sub(seen \o x)' = logged' \o Sub(carry \o x)'
    BY <1>3 DEF WholeInv
  <2>1. PICK o, r : o = out /\ r = rest
    OBVIOUS
  <2>2. Sub(seen \o x)' = Sub(o \o x) /\ Sub(carry \o x)' = Sub(r \o x)
    BY <1>3, <2>1, SubStays
  <2>3. Sub(o \o x) = (logged \o Sub(q)) \o Sub(r \o x)
    BY <1>11, <2>1
  <2> QED BY <1>3, <2>2, <2>3
<1> QED BY <1>10, <1>12, <1>4 DEF MaskerInv

(* flush()                                                                 *)
LEMMA FlushInv ==
    ASSUME MaskerAssumption, MaskerInv, Flush
    PROVE  MaskerInv'
<1>1. /\ Secrets /\ seen \in RawText /\ carry \in RawText /\ logged \in Seq(Masked)
      /\ MaskerTypeOK
  BY MaskerTypes DEF MaskerInv
<1>2. /\ ~ended /\ ended' = TRUE /\ values' = values /\ seen' = seen
      /\ carry' = <<>> /\ logged' = logged \o Sub(carry)
  BY DEF Flush
<1>3. output' = output /\ half' = half
  BY DEF Flush
<1>4. logged \o Sub(carry) \in Seq(Masked)
  BY <1>1, SubType, ConcatProperties
<1>5. MaskerTypeOK'
  <2>1. \A v \in values' : v \in Seq(Letter) /\ Len(v) >= MinLength
    BY <1>1, <1>2 DEF MaskerTypeOK
  <2>2. /\ seen' \in Seq(Read) /\ Len(seen') <= MaxText
        /\ output' \in Seq(Letter) /\ half' \in BOOLEAN
    BY <1>1, <1>2, <1>3 DEF MaskerTypeOK
  <2>3. carry' \in Seq(Read) /\ Len(carry') <= Len(seen')
    BY <1>1, <1>2 DEF RawText
  <2>4. logged' \in Seq(Read \cup {Mask}) /\ ended' \in BOOLEAN
    BY <1>2, <1>4 DEF Masked
  <2> QED BY <2>1, <2>2, <2>3, <2>4 DEF MaskerTypeOK
<1>6. Sub(seen) = logged \o Sub(carry)
  BY <1>1, <1>2, AllLogged DEF MaskerInv
<1>7. Sub(seen)' = Sub(seen)
  <2>1. PICK o : o = seen
    OBVIOUS
  <2>2. Sub(seen)' = Sub(o)
    BY <1>2, <2>1, SubStays
  <2> QED BY <2>1, <2>2
<1>8. WholeInv'
  BY <1>2, <1>6, <1>7 DEF WholeInv
<1>9. DecodedInv'
  BY <1>2, <1>3 DEF MaskerInv, DecodedInv, Clean
<1> QED BY <1>5, <1>8, <1>9 DEF MaskerInv

LEMMA MaskerInitInv ==
    ASSUME MaskerAssumption, MaskerInit
    PROVE  MaskerInv
<1>1. PICK S \in SecretSets : values = {v \in S : Len(v) >= MinLength}
  BY DEF MaskerInit
<1>2. /\ output = <<>> /\ seen = <<>> /\ carry = <<>> /\ logged = <<>>
      /\ half = FALSE /\ ended = FALSE
  BY DEF MaskerInit
<1>3. MaskerTypeOK
  <2>1. \A v \in values : v \in Seq(Letter) /\ Len(v) >= MinLength
    BY <1>1 DEF MaskerAssumption
  <2>2. /\ <<>> \in Seq(Read) /\ <<>> \in Seq(Letter) /\ <<>> \in Seq(Read \cup {Mask})
        /\ Len(<<>>) = 0 /\ 0 <= MaxText
    BY DEF MaskerAssumption
  <2>3. /\ output \in Seq(Letter) /\ seen \in Seq(Read) /\ carry \in Seq(Read)
        /\ logged \in Seq(Read \cup {Mask})
    BY <1>2, <2>2
  <2>4. Len(seen) <= MaxText /\ Len(carry) <= Len(seen)
    BY <1>2, <2>2
  <2>5. ended \in BOOLEAN /\ half \in BOOLEAN
    BY <1>2
  <2> QED BY <2>1, <2>3, <2>4, <2>5 DEF MaskerTypeOK
<1>4. Secrets
  BY <1>3, MaskerTypes
<1>5. WholeInv
  <2> SUFFICES ASSUME NEW x \in RawText
               PROVE  Sub(seen \o x) = logged \o Sub(carry \o x)
    BY <1>2 DEF WholeInv
  <2>1. <<>> \o x = x
    BY ConcatEmptySeq DEF RawText
  <2>2. Sub(x) \in Seq(Masked)
    BY <1>4, SubType
  <2>3. <<>> \o Sub(x) = Sub(x)
    BY <2>2, ConcatEmptySeq
  <2> QED BY <1>2, <2>1, <2>3
<1>6. DecodedInv
  BY <1>2 DEF DecodedInv
<1> QED BY <1>3, <1>5, <1>6 DEF MaskerInv

LEMMA MaskerNextInv ==
    ASSUME MaskerAssumption, MaskerInv, [MaskerNext]_maskerVars
    PROVE  MaskerInv'
<1>1. ASSUME NEW whole \in Chunk, NEW cut \in CutIn, MaskChunk(whole, cut)
      PROVE  MaskerInv'
  BY <1>1, ChunkInv
<1>2. CASE Flush
  BY <1>2, FlushInv
<1>3. CASE UNCHANGED maskerVars
  <2>1. /\ values' = values /\ seen' = seen /\ carry' = carry
        /\ logged' = logged /\ ended' = ended /\ output' = output /\ half' = half
    BY <1>3 DEF maskerVars
  <2>2. PICK o, r : o = seen /\ r = carry
    OBVIOUS
  <2>3. MaskerTypeOK'
    BY <2>1 DEF MaskerInv, MaskerTypeOK
  <2>4. ended => carry = <<>> /\ logged = Sub(o)
    BY <2>2 DEF MaskerInv, WholeInv
  <2>5. ~ended => \A x \in RawText : Sub(o \o x) = logged \o Sub(r \o x)
    BY <2>2 DEF MaskerInv, WholeInv
  <2>6. Sub(seen)' = Sub(o)
    BY <2>1, <2>2, SubStays
  <2>7. ASSUME NEW x \in RawText
        PROVE  Sub(seen \o x)' = Sub(o \o x) /\ Sub(carry \o x)' = Sub(r \o x)
    BY <2>1, <2>2, SubStays
  <2>8. ended' => carry' = <<>> /\ logged' = Sub(seen)'
    BY <2>1, <2>4, <2>6
  <2>9. ~ended' => \A x \in RawText : Sub(seen \o x)' = logged' \o Sub(carry \o x)'
    BY <2>1, <2>5, <2>7
  <2>10. DecodedInv'
    BY <2>1 DEF MaskerInv, DecodedInv, Clean
  <2> QED BY <2>3, <2>8, <2>9, <2>10 DEF MaskerInv, WholeInv
<1> QED BY <1>1, <1>2, <1>3 DEF MaskerNext

LEMMA MaskerInvSound ==
    ASSUME MaskerAssumption, MaskerInv
    PROVE  MaskingSound
<1>1. /\ Secrets /\ seen \in RawText /\ carry \in RawText /\ logged \in Seq(Masked)
      /\ Mask \notin Read
  BY MaskerTypes DEF MaskerInv
<1>2. ChunkingHarmless
  BY DEF MaskerInv, WholeInv, ChunkingHarmless
<1>3. PICK r \in Seq(Masked) : Sub(seen) = logged \o r
  <2>1. CASE ended
    <3>1. Sub(seen) = logged \o <<>> /\ <<>> \in Seq(Masked)
      BY <1>1, <2>1, ConcatEmptySeq DEF MaskerInv, WholeInv
    <3> QED BY <3>1
  <2>2. CASE ~ended
    BY <1>1, <2>2, AllLogged, SubType DEF MaskerInv
  <2> QED BY <2>1, <2>2
<1>4. NoSecretInLog
  <2> SUFFICES ASSUME NEW v \in values, NEW i \in 1..Len(logged), Occurs(v, logged, i)
               PROVE  FALSE
    BY DEF NoSecretInLog
  <2>1. v \in RawText /\ Len(v) \in Nat /\ Len(v) > 0
    BY <1>1 DEF Secrets, RawText
  <2>2. v \in Seq(Masked)
    BY <2>1 DEF RawText, Masked
  <2>3. i + Len(v) <= Len(logged) + 1
    BY DEF Occurs
  <2>4. Occurs(v, logged \o r, i)
    BY <1>1, <1>3, <2>1, <2>2, <2>3, OccursBefore
  <2>5. i \in 1..Len(Sub(seen))
    <3>1. Len(logged \o r) = Len(logged) + Len(r) /\ Len(logged) \in Nat /\ Len(r) \in Nat
      BY <1>1, <1>3, ConcatProperties
    <3> QED BY <1>3, <3>1
  <2>6. Occurs(v, Sub(seen), i)
    BY <1>3, <2>4
  <2> QED BY <1>1, <2>5, <2>6, NoneLeft
<1>5. DecodedUnlessCut
  BY DEF MaskerInv, DecodedInv, DecodedUnlessCut, Clean
<1> QED BY <1>2, <1>4, <1>5 DEF MaskingSound

(* The invariant of SecretMasker.                                          *)
LEMMA MaskerInvariant == ASSUME MaskerAssumption PROVE MaskerSpec => []MaskerInv
<1>1. MaskerInit => MaskerInv
  BY MaskerInitInv
<1>2. MaskerInv /\ [MaskerNext]_maskerVars => MaskerInv'
  BY MaskerNextInv
<1> QED BY <1>1, <1>2, PTL DEF MaskerSpec

(* However the stream is cut into chunks, and whether or not the secrets   *)
(* overlap, no secret is in the log as it is, once the stream has ended    *)
(* the log is the decoded text masked in one piece, and that text is the   *)
(* output unless a chunk was cut inside a letter (mask, flush).            *)
THEOREM MaskingSoundHolds ==
    ASSUME MaskerAssumption
    PROVE  MaskerSpec => []MaskingSound
<1>1. MaskerSpec => []MaskerInv
  BY MaskerInvariant
<1>2. MaskerInv => MaskingSound
  BY MaskerInvSound
<1> QED BY <1>1, <1>2, PTL
=============================================================================
