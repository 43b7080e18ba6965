------------------------------ MODULE DiskSize ------------------------------
(***************************************************************************)
(* The size of a new disk (bootcInstallImageToDisk and align in            *)
(* pkg/bootc/bootc_disk.go): twice the image, at least a minimum, at least *)
(* --disk-size, rounded up, all in signed words, and then the size given   *)
(* to ftruncate(2).                                                        *)
(***************************************************************************)
EXTENDS Integers

CONSTANTS MaxInt,     \* the greatest word: 2^63 - 1
          Minimum,    \* diskSizeMinimum
          Alignment,  \* 4096
          NoSize, Bad \* --disk-size not given; one that does not parse

MinInt == -MaxInt - 1

Modulus == 2 * (MaxInt + 1)

ASSUME WordAssumption == MaxInt \in Nat
ASSUME SizesAssumption == /\ Minimum \in 1..MaxInt /\ Alignment \in 1..MaxInt
                          /\ NoSize \notin Int /\ Bad \notin Int

VARIABLES sizeStep,  \* what comes next: the calls in order, then "done" or "refused"
          image,     \* the size podman reports of the image
          asked,     \* --disk-size
          size       \* the variable size; at "done" the size of the file

sizeVars == <<sizeStep, image, asked, size>>

\* int64 arithmetic.
Wrap(n) == ((n - MinInt) % Modulus) + MinInt

\* align, for n >= 0; what it is called with is never below Minimum.
Align(n, a) == IF n % a = 0 THEN n ELSE Wrap(n + (a - (n % a)))

Then(now, next, n) == /\ sizeStep = now
                      /\ sizeStep' = next
                      /\ size' = n
                      /\ UNCHANGED <<image, asked>>

Double == Then("double", "minimum", Wrap(image * 2))

\* Mutant: without the minimum.
RaiseToMinimumNot == Then("minimum", "asked", size)

RaiseToMinimum == Then("minimum", "asked", IF size < Minimum THEN Minimum ELSE size)

\* Mutant: --disk-size replaces the size.
SetToAsked == \/ asked = NoSize /\ Then("asked", "align", size)
              \/ asked = Bad /\ Then("asked", "refused", size)
              \/ asked \in Int /\ Then("asked", "align", asked)

\* units.FromHumanSize and the comparison with it.
RaiseToAsked ==
  \/ asked = NoSize /\ Then("asked", "align", size)
  \/ asked = Bad /\ Then("asked", "refused", size)
  \/ asked \in Int /\ Then("asked", "align", IF size < asked THEN asked ELSE size)

RoundUp == Then("align", "truncate", Align(size, Alignment))

\* ftruncate(2) refuses negative sizes (external); others are assumed to fit.
Ftruncate == Then("truncate", IF size < 0 THEN "refused" ELSE "done", size)

\* FromHumanSize refuses negative numbers; what does not fit an int64 turns
\* into the least one on some machines, into the greatest on others.
SizeInit ==
  /\ sizeStep = "double"
  /\ size = 0
  /\ image \in 0..MaxInt
  /\ asked \in (0..MaxInt) \cup {MinInt, NoSize, Bad}

SizeNext == Double \/ RaiseToMinimum \/ RaiseToAsked \/ RoundUp \/ Ftruncate

SizeSpec == SizeInit /\ [][SizeNext]_sizeVars

-----------------------------------------------------------------------------
\* The size without the word's limit, before it is aligned.
Wanted == LET least == IF 2 * image > Minimum THEN 2 * image ELSE Minimum
          IN  IF asked \in Int /\ asked > least THEN asked ELSE least

\* A disk has room for the doubled image, the minimum and what was asked for,
\* in whole blocks and not one too many, as long as the doubled image is a
\* word.  (A larger image gets the minimum: the doubling wraps to a negative
\* number.)
DiskFits ==
  sizeStep = "done" /\ 2 * image <= MaxInt =>
    size % Alignment = 0 /\ Wanted <= size /\ size < Wanted + Alignment

\* The words that cannot be rounded up.
Brink == (MaxInt - Alignment + 1)..MaxInt

\* Install refuses a size only if it does not parse or is at the end of the
\* words: no wrapped number, of a doubling or a rounding, decides it, and none
\* gets past ftruncate.
OnlyHugeRefused ==
  sizeStep = "refused" =>
    asked = Bad \/ asked \in Brink \/ Minimum \in Brink \/ 2 * image \in Brink
=============================================================================
