---------------------------- MODULE DiskSizeProofs ----------------------------
(***************************************************************************)
(* Theorems about DiskSize, for words of any width, any minimum and any    *)
(* alignment.  An integer is a word again after Wrap; the rest follows the *)
(* variable size from one call to the next.                                *)
(***************************************************************************)
EXTENDS DiskSize, TLAPS

\* What leaves the words on one side comes in on the other.
LEMMA WrapDown ==
  ASSUME NEW n \in Int, n \in (MaxInt + 1)..(MaxInt + Modulus)
  PROVE  Wrap(n) = n - Modulus
<1>1. Modulus \in Nat /\ Modulus > 0 /\ MinInt \in Int /\ MaxInt - MinInt + 1 = Modulus
  BY WordAssumption DEF Modulus, MinInt
<1> DEFINE k == n - MinInt - Modulus
<1>2. k \in 0..(Modulus - 1)
  BY <1>1, WordAssumption
<1>3. k % Modulus = k
  BY <1>1, <1>2
<1>4. (k + Modulus) % Modulus = k % Modulus
  BY <1>1, <1>2
<1> QED BY <1>1, <1>3, <1>4, WordAssumption DEF Wrap

LEMMA WrapWord ==
  ASSUME NEW n \in MinInt..MaxInt
  PROVE  Wrap(n) = n
<1>1. Modulus \in Nat /\ Modulus > 0 /\ MinInt \in Int /\ MaxInt - MinInt + 1 = Modulus
  BY WordAssumption DEF Modulus, MinInt
<1>2. n - MinInt \in 0..(Modulus - 1)
  BY <1>1, WordAssumption
<1>3. (n - MinInt) % Modulus = n - MinInt
  BY <1>1, <1>2
<1> QED BY <1>1, <1>3, WordAssumption DEF Wrap

\* Rounding up to the next multiple, without the words' limit.
LEMMA NextMultiple ==
  ASSUME NEW n \in Nat, NEW a \in Nat, a > 0, n % a # 0
  PROVE  (n + (a - (n % a))) % a = 0 /\ n % a \in 1..(a - 1)
<1>1. n % a \in 1..(a - 1)
  OBVIOUS
<1>2. PICK q \in Int : n = (a * q) + (n % a)
  <2>1. n = (a * (n \div a)) + (n % a) /\ n \div a \in Int
    OBVIOUS
  <2> QED BY <2>1
<1>3. n + (a - (n % a)) = a * (q + 1)
  BY <1>1, <1>2, Z3
<1>4. \A k \in Int : (a * k) % a = 0
  BY Z3
<1> QED BY <1>1, <1>2, <1>3, <1>4, Z3

\* What align returns for a word of a disk's size: the next multiple, or a
\* negative number if there is none among the words.
LEMMA AlignRoundsUp ==
  ASSUME NEW n \in Minimum..MaxInt
  PROVE  /\ Align(n, Alignment) \in MinInt..MaxInt
         /\ \/ /\ Align(n, Alignment) % Alignment = 0
               /\ n <= Align(n, Alignment)
               /\ Align(n, Alignment) < n + Alignment
            \/ Align(n, Alignment) < 0 /\ n \in Brink
<1>1. /\ n \in Nat /\ n > 0 /\ n <= MaxInt /\ MaxInt \in Nat
      /\ Alignment \in Nat /\ Alignment > 0 /\ Alignment <= MaxInt
  BY WordAssumption, SizesAssumption
<1>2. MinInt \in Int /\ MinInt < 0 /\ Modulus = MaxInt - MinInt + 1
  BY <1>1 DEF MinInt, Modulus
<1>3. CASE n % Alignment = 0
  BY <1>1, <1>2, <1>3 DEF Align
<1>4. CASE n % Alignment # 0
  <2> DEFINE up == n + (Alignment - (n % Alignment))
  <2>1. up % Alignment = 0 /\ n % Alignment \in 1..(Alignment - 1)
    BY <1>1, <1>4, NextMultiple
  <2>2. up \in Int /\ n < up /\ up < n + Alignment /\ Align(n, Alignment) = Wrap(up)
    BY <1>1, <1>4, <2>1 DEF Align
  <2>3. CASE up <= MaxInt
    <3>1. Wrap(up) = up
      BY <1>1, <1>2, <2>2, <2>3, WrapWord
    <3> QED BY <1>1, <1>2, <2>1, <2>2, <2>3, <3>1
  <2>4. CASE up > MaxInt
    <3>1. up \in (MaxInt + 1)..(MaxInt + Modulus)
      BY <1>1, <1>2, <2>2, <2>4 DEF MinInt
    <3>2. Wrap(up) = up - Modulus
      BY <3>1, <2>2, WrapDown
    <3>3. up - Modulus \in MinInt..MaxInt /\ up - Modulus < 0
      BY <1>1, <1>2, <3>1, <2>2 DEF MinInt
    <3>4. n \in Brink
      BY <1>1, <2>2, <2>4 DEF Brink
    <3> QED BY <2>2, <3>2, <3>3, <3>4
  <2> QED BY <1>1, <2>2, <2>3, <2>4
<1> QED BY <1>3, <1>4

-----------------------------------------------------------------------------
(* The variable size, step by step. *)

\* The doubled image as a word; then raised to the minimum; then to
\* --disk-size.
Doubled == IF 2 * image <= MaxInt THEN 2 * image ELSE 2 * image - Modulus

Floor == IF Doubled < Minimum THEN Minimum ELSE Doubled

Chosen == IF asked \in Int /\ asked > Floor THEN asked ELSE Floor

\* size is Chosen in whole blocks.
Rounded == size % Alignment = 0 /\ Chosen <= size /\ size < Chosen + Alignment

SizeTypes ==
  /\ sizeStep \in {"double", "minimum", "asked", "align", "truncate", "done", "refused"}
  /\ image \in 0..MaxInt
  /\ asked \in (0..MaxInt) \cup {MinInt, NoSize, Bad}
  /\ size \in MinInt..MaxInt

SizeInv ==
  /\ SizeTypes
  /\ sizeStep = "minimum" => size = Doubled
  /\ sizeStep = "asked" => size = Floor
  /\ sizeStep = "align" => size = Chosen
  /\ sizeStep = "truncate" => Rounded \/ (size < 0 /\ Chosen \in Brink)
  /\ sizeStep = "done" => Rounded
  /\ sizeStep = "refused" => asked = Bad \/ Chosen \in Brink

LEMMA WordFacts ==
  /\ MaxInt \in Nat /\ MinInt \in Int /\ MinInt < 0 /\ Modulus = MaxInt - MinInt + 1
  /\ Minimum \in Nat /\ Minimum > 0 /\ Minimum <= MaxInt
  /\ Alignment \in Nat /\ Alignment > 0
  BY WordAssumption, SizesAssumption DEF MinInt, Modulus

LEMMA ChosenIsWord ==
  ASSUME image \in 0..MaxInt, asked \in (0..MaxInt) \cup {MinInt, NoSize, Bad}
  PROVE  /\ Doubled \in MinInt..MaxInt
         /\ Floor \in Minimum..MaxInt
         /\ Chosen \in Minimum..MaxInt
<1>1. Doubled \in MinInt..MaxInt
  BY WordFacts DEF Doubled, MinInt
<1>2. Floor \in Minimum..MaxInt
  BY <1>1, WordFacts DEF Floor
<1>3. asked \in Int => asked <= MaxInt
  BY WordFacts, SizesAssumption
<1> QED BY <1>1, <1>2, <1>3, WordFacts DEF Chosen

LEMMA SizeStep == SizeInv /\ [SizeNext]_sizeVars => SizeInv'
<1> SUFFICES ASSUME SizeInv, [SizeNext]_sizeVars PROVE SizeInv'
  OBVIOUS
<1> USE DEF SizeInv, SizeTypes
<1>0. image \in 0..MaxInt /\ asked \in (0..MaxInt) \cup {MinInt, NoSize, Bad}
  OBVIOUS
<1>1. /\ Doubled \in MinInt..MaxInt
      /\ Floor \in Minimum..MaxInt
      /\ Chosen \in Minimum..MaxInt
  BY <1>0, ChosenIsWord
<1>2. ASSUME UNCHANGED <<image, asked>>
      PROVE  Doubled' = Doubled /\ Floor' = Floor /\ Chosen' = Chosen
  BY <1>2 DEF Doubled, Floor, Chosen
<1>3. Floor \in Int /\ Minimum..MaxInt \subseteq MinInt..MaxInt
  BY <1>1, WordFacts
<1>4. CASE Double
  <2>1. Wrap(image * 2) = Doubled
    <3>1. CASE 2 * image <= MaxInt
      BY <1>0, <3>1, WordFacts, WrapWord DEF Doubled
    <3>2. CASE 2 * image > MaxInt
      <4>1. image * 2 \in (MaxInt + 1)..(MaxInt + Modulus)
        BY <1>0, <3>2, WordFacts
      <4> QED BY <1>0, <3>2, <4>1, WordFacts, WrapDown DEF Doubled
    <3> QED BY <1>0, <3>1, <3>2, WordFacts
  <2> QED BY <1>1, <1>2, <1>4, <2>1 DEF Double, Then
<1>5. CASE RaiseToMinimum
  <2>1. size' = Floor
    BY <1>5 DEF RaiseToMinimum, Then, Floor
  <2> QED BY <1>1, <1>2, <1>3, <1>5, <2>1 DEF RaiseToMinimum, Then
<1>6. CASE RaiseToAsked
  <2>1. CASE asked = NoSize /\ Then("asked", "align", size)
    BY <1>1, <1>2, <1>3, <2>1, SizesAssumption DEF Then, Chosen
  <2>2. CASE asked = Bad /\ Then("asked", "refused", size)
    BY <1>2, <2>2 DEF Then
  <2>3. CASE asked \in Int /\ Then("asked", "align", IF size < asked THEN asked ELSE size)
    <3>1. size' = Chosen
      BY <1>3, <2>3 DEF Then, Chosen
    <3> QED BY <1>1, <1>2, <1>3, <2>3, <3>1 DEF Then
  <2> QED BY <1>6, <2>1, <2>2, <2>3 DEF RaiseToAsked
<1>7. CASE RoundUp
  <2>1. /\ size' \in MinInt..MaxInt
        /\ Rounded' \/ (size' < 0 /\ Chosen \in Brink)
    BY <1>1, <1>2, <1>7, AlignRoundsUp DEF RoundUp, Then, Rounded
  <2> QED BY <1>2, <1>7, <2>1 DEF RoundUp, Then
<1>8. CASE Ftruncate
  <2>1. Rounded => size >= 0
    BY <1>1, WordFacts DEF Rounded
  <2>2. Rounded' = Rounded
    BY <1>2, <1>8 DEF Ftruncate, Then, Rounded
  <2> QED BY <1>2, <1>8, <2>1, <2>2 DEF Ftruncate, Then
<1>9. CASE UNCHANGED sizeVars
  BY <1>2, <1>9 DEF sizeVars, Rounded
<1> QED BY <1>4, <1>5, <1>6, <1>7, <1>8, <1>9 DEF SizeNext

LEMMA SizeInvariant == SizeSpec => []SizeInv
<1>1. SizeInit => SizeInv
  BY WordFacts DEF SizeInit, SizeInv, SizeTypes
<1> QED BY <1>1, SizeStep, PTL DEF SizeSpec

-----------------------------------------------------------------------------
\* The disk holds twice the image, the minimum and --disk-size, in whole
\* blocks and not one too many, for words, minima and blocks of any size.
THEOREM DiskFitsAlways == SizeSpec => []DiskFits
<1>1. SizeInv => DiskFits
  <2> SUFFICES ASSUME SizeInv, sizeStep = "done", 2 * image <= MaxInt
               PROVE  size % Alignment = 0 /\ Wanted <= size /\ size < Wanted + Alignment
    BY DEF DiskFits
  <2>1. image \in 0..MaxInt /\ Rounded
    BY DEF SizeInv, SizeTypes
  <2>2. Floor = IF 2 * image > Minimum THEN 2 * image ELSE Minimum
    BY <2>1, WordFacts DEF Floor, Doubled
  <2>3. Wanted = Chosen
    BY <2>2 DEF Wanted, Chosen
  <2> QED BY <2>1, <2>3 DEF Rounded
<1> QED BY <1>1, SizeInvariant, PTL

\* Install refuses only a --disk-size that does not parse and sizes at the
\* end of the words, however the doubling and the rounding wrap.
THEOREM RefusesOnlyHuge == SizeSpec => []OnlyHugeRefused
<1>1. SizeInv => OnlyHugeRefused
  <2> SUFFICES ASSUME SizeInv, sizeStep = "refused", asked # Bad
               PROVE  asked \in Brink \/ Minimum \in Brink \/ 2 * image \in Brink
    BY DEF OnlyHugeRefused
  <2>1. /\ Chosen \in Brink /\ image \in 0..MaxInt
        /\ asked \in (0..MaxInt) \cup {MinInt, NoSize, Bad}
    BY DEF SizeInv, SizeTypes
  <2>2. Chosen \in {asked, Minimum, 2 * image}
    BY <2>1, WordFacts DEF Chosen, Floor, Doubled, MinInt
  <2> QED BY <2>1, <2>2
<1> QED BY <1>1, SizeInvariant, PTL
===============================================================================
