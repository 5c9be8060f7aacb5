---------------------------- MODULE SecretMasker ----------------------------
(***************************************************************************)
(* The streaming masker of secrets between a script's output and its log   *)
(* (class SecretMasker of adapters/output/executor/docker_executor.py).    *)
(* A text is a sequence of letters; the regular expression finds leftmost  *)
(* matches, the longest value first where several begin at one place.      *)
(*                                                                         *)
(* The stream comes in chunks of bytes, each decoded on its own with       *)
(* errors="replace" (_stream_output): a cut inside a letter of several     *)
(* bytes leaves a mark at the end of one chunk and at the beginning of the *)
(* next. Abstraction: such a letter is cut once at most, and each part is  *)
(* one mark.                                                               *)
(***************************************************************************)
EXTENDS Naturals, Sequences, FiniteSets, FiniteSetsExt

CONSTANTS
    Letter,      \* letters of the output and of the secrets
    Wide,        \* those of several bytes
    Garbled,     \* what part of a letter is decoded to
    Mask,        \* what replaces a secret
    MinLength,   \* _MIN_SECRET_LENGTH
    SecretSets,  \* sets of values the environment may have
    MaxText      \* bound: length of the output

Read == Letter \cup {Garbled}  \* what a chunk is decoded to

(* Assumed of the constants, by the modules that give them values. *)
MaskerAssumption ==
    /\ Wide \subseteq Letter /\ Garbled \notin Letter /\ Mask \notin Read
    /\ MinLength \in Nat \ {0} /\ MaxText \in Nat
    /\ \A S \in SecretSets : IsFiniteSet(S) /\ S \subseteq Seq(Letter)

VARIABLES
    values,  \* the values that are masked
    output,  \* what the script has written, the letter being read included
    half,    \* whether only the first part of that letter has been read
    seen,    \* what the chunks were decoded to
    carry,   \* the tail withheld
    logged,  \* what the sink has received
    ended    \* whether the stream has ended

maskerVars == <<values, output, half, seen, carry, logged, ended>>

-----------------------------------------------------------------------------

MaskerTypeOK ==
    /\ \A v \in values : v \in Seq(Letter) /\ Len(v) >= MinLength
    /\ output \in Seq(Letter)
    /\ seen \in Seq(Read) /\ Len(seen) <= MaxText
    /\ carry \in Seq(Read) /\ Len(carry) <= Len(seen)
    /\ logged \in Seq(Read \cup {Mask})
    /\ half \in BOOLEAN /\ ended \in BOOLEAN

MaskerInit ==
    /\ \E S \in SecretSets : values = {v \in S : Len(v) >= MinLength}
    /\ output = <<>> /\ seen = <<>> /\ carry = <<>> /\ logged = <<>>
    /\ half = FALSE /\ ended = FALSE

Occurs(v, t, i) ==
    i + Len(v) <= Len(t) + 1 /\ SubSeq(t, i, i + Len(v) - 1) = v

(* Length of the match at place i of t, 0 if there is none. *)
Width(t, i) == Max({Len(v) : v \in {w \in values : Occurs(w, t, i)}} \cup {0})

(* The matches from place i on, each with its first and its last place. *)
MatchesFrom(t) ==
    LET from[i \in 1..(Len(t) + 1)] ==
          IF i > Len(t) THEN {}
          ELSE IF Width(t, i) = 0 THEN from[i + 1]
          ELSE {<<i, i + Width(t, i) - 1>>} \cup from[i + Width(t, i)]
    IN from

(* finditer() *)
Matches(t) == MatchesFrom(t)[1]

(* What is left of t from place i on once each match is the mask. *)
SubFrom(t) ==
    LET from[i \in 1..(Len(t) + 1)] ==
          IF i > Len(t) THEN <<>>
          ELSE IF Width(t, i) = 0 THEN <<t[i]>> \o from[i + 1]
          ELSE <<Mask>> \o from[i + Width(t, i)]
    IN from

(* sub() *)
Sub(t) == SubFrom(t)[1]

Suffix(t, n) == SubSeq(t, Len(t) - n + 1, Len(t))

(* _proper_prefix_suffix_len *)
PrefixSuffixLen(t) ==
    Max({0} \cup {n \in 1..Len(t) : \E v \in values :
                    Len(v) > n /\ SubSeq(v, 1, n) = Suffix(t, n)})

(* Mutant: a complete occurrence that meets the tail is cut in two. *)
Kept_uncrossed(t) == PrefixSuffixLen(t)

(* Letters withheld: the tail that may grow into a secret and the match    *)
(* that reaches into it.                                                   *)
Kept(t) ==
    LET start == Len(t) - PrefixSuffixLen(t)
        crossing == {m \in Matches(t) : m[1] <= start /\ start < m[2]} IN
      IF crossing = {} THEN Len(t) - start
      ELSE Len(t) + 1 - (CHOOSE m \in crossing : TRUE)[1]

(* A chunk: what is left of a letter cut before, whole letters, and the    *)
(* first part of one the chunk is cut in, if any.                          *)
Decoded(whole, cut) ==
    (IF half THEN <<Garbled>> ELSE <<>>) \o whole
        \o (IF cut = <<>> THEN <<>> ELSE <<Garbled>>)

(* mask() *)
MaskChunk(whole, cut) ==
    /\ ~ended
    /\ LET chunk == Decoded(whole, cut)
           buffer == carry \o chunk
           n == IF values = {} THEN 0 ELSE Kept(buffer) IN
         /\ chunk # <<>> /\ Len(seen) + Len(chunk) <= MaxText
         /\ seen' = seen \o chunk
         /\ carry' = Suffix(buffer, n)
         /\ logged' = logged \o Sub(SubSeq(buffer, 1, Len(buffer) - n))
    /\ output' = output \o whole \o cut
    /\ half' = (cut # <<>>)
    /\ UNCHANGED <<values, ended>>

(* flush(), at the end of the stream or the timeout. *)
Flush ==
    /\ ~ended /\ ended' = TRUE
    /\ logged' = logged \o Sub(carry)
    /\ carry' = <<>>
    /\ UNCHANGED <<values, output, half, seen>>

Chunk == UNION {[1..n -> Letter] : n \in 0..(MaxText - Len(seen))}
CutIn == {<<>>} \cup {<<c>> : c \in Wide}

MaskerNext ==
    \/ \E whole \in Chunk, cut \in CutIn : MaskChunk(whole, cut)
    \/ Flush

MaskerSpec == MaskerInit /\ [][MaskerNext]_maskerVars

-----------------------------------------------------------------------------

(* However the stream is cut into chunks, and whether or not values        *)
(* overlap, no value of the environment that is long enough is in the log  *)
(* as it is (SecretMasker.mask).                                           *)
NoSecretInLog ==
    \A v \in values, i \in 1..Len(logged) : ~Occurs(v, logged, i)

(* What is logged does not depend on how the decoded text came in chunks,  *)
(* even where values overlap: at the end it is that text with its secrets  *)
(* masked, all of it (SecretMasker.mask, flush; its docstring allows less).*)
ChunkingHarmless == ended => logged = Sub(seen)

(* The decoded text is what the script wrote, unless a chunk was cut       *)
(* inside a letter. Then a secret with that letter is broken up: the rest  *)
(* of it is logged unmasked (_stream_output, its decode()).                *)
DecodedUnlessCut == (\A i \in 1..Len(seen) : seen[i] # Garbled) => seen = output

(* The log hides every secret and alters nothing else, as above.           *)
MaskingSound == NoSecretInLog /\ ChunkingHarmless /\ DecodedUnlessCut
=============================================================================
