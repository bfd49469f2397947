--------------------------- MODULE BerlekampWelch ---------------------------
(***************************************************************************)
(* Robust decoding (rs_decode.py and utils/bw.py): find the polynomials of *)
(* degree d, one for each component of the values at m points, that differ *)
(* from the values at no more than e points.  A point is a party's number. *)
(* berlekamp_welch_decode tries the polynomial through the first points    *)
(* and falls back on the linear system of Berlekamp and Welch;             *)
(* decode_poly_valued solves such a system for every component.            *)
(*                                                                         *)
(* One step per column of the Gaussian elimination.  A polynomial of degree*)
(* N at most is its coefficients, a function from 0..N to the field of p.  *)
(***************************************************************************)
EXTENDS Decoding, Sequences, FiniteSetsExt

CONSTANTS
  p,        \* the field's prime
  Codes,    \* [m, at, d, e]: number of points, the points, degree, max_errors
  Inputs    \* Inputs[c]: the values to decode under code c, by component

Field == 0..(p - 1)
Poly(N) == [0..N -> Field]

\* mod_inv: by Fermat's theorem.
Inv(a) == (a ^ (p - 2)) % p

\* p is prime: a power of a number is its inverse.
ASSUME FieldAssumption ==
  /\ p \in Nat /\ p > 1
  /\ \A a \in 1..(p - 1) : Inv(a) \in Field /\ (a * Inv(a)) % p = 1

ASSUME CodeAssumption ==
  /\ \A c \in Codes :
       /\ c.m \in Nat \ {0} /\ c.d \in Nat /\ c.e \in Nat
       /\ c.at \in [1..c.m -> Field] /\ \A x, y \in 1..c.m : c.at[x] = c.at[y] => x = y
  /\ \A c \in Codes : Inputs[c] \subseteq Seq([1..c.m -> Field]) \ {<<>>}

VARIABLES
  code,     \* the element of Codes
  fast,     \* berlekamp_welch_decode with fast_path, or one component at a time
  words,    \* words[k][x]: component k of the value at the x-th point
  phase,    \* "sample", "build", "eliminate", "read" or "done"
  system,   \* system[x]: a row, the right-hand side last
  col,      \* next column
  pivots,   \* columns that have a pivot; the i-th one is in row i
  polys,    \* the components decoded so far
  result    \* {} or {the components' polynomials}

decodeVars == <<code, fast, words, phase, system, col, pivots, polys, result>>

Points == 1..code.m
Unknowns == code.d + 2 * code.e + 1

\* poly_eval, by Horner's rule: what is reached at the coefficient of each exponent.
Horner(N, f, x) ==
  LET from[k \in 0..N] == IF k = N THEN f[k] ELSE (from[k + 1] * x + f[k]) % p
  IN  from
Eval(N, f, x) == Horner(N, f, x)[0]

Mismatches(f, word) == {x \in Points : Eval(code.d, f, code.at[x]) # word[x]}

DecodeInit ==
  /\ code \in Codes
  /\ words \in Inputs[code]
  /\ fast \in {Len(words) = 1, FALSE}
  /\ phase = IF fast THEN "sample" ELSE "build"
  /\ system = <<>>
  /\ col = 0
  /\ pivots = <<>>
  /\ polys = <<>>
  /\ result = {}

-----------------------------------------------------------------------------
(* The fast path.                                                          *)

\* UniPoly.interpolate of the first d + 1 points.
Interpolate(word) ==
  CHOOSE f \in Poly(code.d) : \A x \in 1..(code.d + 1) : Eval(code.d, f, code.at[x]) = word[x]

EnoughAgree_OneLess(f, word) == Cardinality(Mismatches(f, word)) <= code.e + 1

EnoughAgree(f, word) == code.m - Cardinality(Mismatches(f, word)) >= code.m - code.e

Sample ==
  /\ phase = "sample"
  /\ LET candidate == Interpolate(words[1])
     IN  IF code.m > code.d /\ EnoughAgree(candidate, words[1])
         THEN phase' = "done" /\ result' = {<<candidate>>}
         ELSE phase' = "build" /\ UNCHANGED result
  /\ UNCHANGED <<code, fast, words, system, col, pivots, polys>>

-----------------------------------------------------------------------------
(* The linear system: Q(x) = y E(x), with E monic of degree e.             *)

Powers(x) ==
  LET power[k \in 0..(code.d + code.e)] == IF k = 0 THEN 1 ELSE (power[k - 1] * x) % p
  IN  power

Row(x, y) ==
  LET power == Powers(x)
      q == code.d + code.e + 1
  IN  [k \in 0..Unknowns |->
         IF k < q THEN power[k]
         ELSE IF k < Unknowns THEN ((p - y) * power[k - q]) % p
         ELSE (y * power[code.e]) % p]

\* The decoder refuses too few points; its callers take that for "no result".
BuildSystem ==
  /\ phase = "build"
  /\ \/ /\ code.m < Unknowns
        /\ phase' = "done"
        /\ UNCHANGED <<system, col, pivots>>
     \/ /\ code.m >= Unknowns
        /\ phase' = "eliminate"
        /\ system' = [x \in Points |-> Row(code.at[x], words[Len(polys) + 1][x])]
        /\ col' = 0
        /\ pivots' = <<>>
  /\ UNCHANGED <<code, fast, words, polys, result>>

Swap(M, r, s) == [M EXCEPT ![r] = M[s], ![s] = M[r]]

\* Column j is cleared everywhere but in row r, which becomes 1 there.
Reduce_LeftOnly(M, r, j) ==
  LET one == [k \in 0..Unknowns |->
                IF k < Unknowns THEN (M[r][k] * Inv(M[r][j])) % p ELSE M[r][k]]
  IN  [x \in Points |->
         IF x = r THEN one
         ELSE [k \in 0..Unknowns |->
                 IF k < Unknowns THEN (M[x][k] + (p - M[x][j]) * one[k]) % p ELSE M[x][k]]]

Reduce(M, r, j) ==
  LET one == [k \in 0..Unknowns |-> (M[r][k] * Inv(M[r][j])) % p]
  IN  [x \in Points |->
         IF x = r THEN one
         ELSE [k \in 0..Unknowns |-> (M[x][k] + (p - M[x][j]) * one[k]) % p]]

EliminateColumn ==
  /\ phase = "eliminate"
  /\ LET r == Len(pivots) + 1
         candidates == {x \in r..code.m : system[x][col] # 0}
     IN  /\ IF candidates = {} THEN UNCHANGED <<system, pivots>>
            ELSE /\ system' = Reduce(Swap(system, r, Min(candidates)), r, col)
                 /\ pivots' = Append(pivots, col)
         /\ col' = col + 1
         /\ phase' = IF col' = Unknowns \/ Len(pivots') = code.m THEN "read" ELSE phase
  /\ UNCHANGED <<code, fast, words, polys, result>>

-----------------------------------------------------------------------------
(* The result.                                                             *)

Inconsistent ==
  \E x \in Points : system[x][Unknowns] # 0 /\ \A k \in 0..(Unknowns - 1) : system[x][k] = 0

\* Unknowns without a pivot are 0.
Solution ==
  [k \in 0..(Unknowns - 1) |->
     IF \E i \in DOMAIN pivots : pivots[i] = k
     THEN system[CHOOSE i \in DOMAIN pivots : pivots[i] = k][Unknowns]
     ELSE 0]

Numerator == [k \in 0..(code.d + code.e) |-> Solution[k]]
Locator ==
  [k \in 0..code.e |-> IF k = code.e THEN 1 ELSE Solution[code.d + code.e + 1 + k]]

\* poly_divmod by a monic E, from the highest term down: quotient and remainder
\* when the terms from the s-th on are found.
Division(Q, E) ==
  LET down[s \in 0..(code.d + 1)] ==
        IF s = code.d + 1 THEN [quot |-> [k \in 0..code.d |-> 0], rem |-> Q]
        ELSE LET above == down[s + 1]
                 c == above.rem[s + code.e]
             IN  [quot |-> [above.quot EXCEPT ![s] = c],
                  rem  |-> [k \in 0..(code.d + code.e) |->
                              IF k \in s..(s + code.e)
                              THEN (above.rem[k] + (p - c) * E[k - s]) % p
                              ELSE above.rem[k]]]
  IN  down
Divide(Q, E) == Division(Q, E)[0]

\* The positions where any component differs count together, once each.
ErrorPositions(fs) == UNION {Mismatches(fs[k], words[k]) : k \in DOMAIN fs}

Finish(fs) ==
  /\ polys' = fs
  /\ IF Len(fs) < Len(words)
     THEN phase' = "build" /\ UNCHANGED result
     ELSE /\ phase' = "done"
          /\ result' = IF Cardinality(ErrorPositions(fs)) <= code.e THEN {fs} ELSE {}

ReadSolution ==
  /\ phase = "read"
  /\ LET division == Divide(Numerator, Locator)
         found == /\ ~Inconsistent
                  /\ \A k \in DOMAIN division.rem : division.rem[k] = 0
                  /\ Cardinality(Mismatches(division.quot, words[Len(polys) + 1])) <= code.e
     IN  \/ found /\ Finish(Append(polys, division.quot))
         \/ ~found /\ phase' = "done" /\ UNCHANGED <<polys, result>>
  /\ UNCHANGED <<code, fast, words, system, col, pivots>>

DecodeNext == Sample \/ BuildSystem \/ EliminateColumn \/ ReadSolution

DecodeSpec == DecodeInit /\ [][DecodeNext]_decodeVars

-----------------------------------------------------------------------------
(* Properties.                                                             *)

Near(k) ==
  {f \in Poly(code.d) : Cardinality(Mismatches(f, words[k])) <= code.e}

\* The polynomials that differ from the values at e points at most.
Decodable ==
  {fs \in [1..Len(words) -> Poly(code.d)] : Cardinality(ErrorPositions(fs)) <= code.e}

\* With enough points the decoder returns the polynomials within e errors when
\* there are any, and nothing else, on the fast path as on the slow one.  With
\* too few it never returns others.
DecodesNearest ==
  phase = "done" =>
    /\ result \subseteq Decodable
    /\ code.m >= Unknowns => result = Decodable

\* What the protocol models take for decoding: whichever polynomial is taken
\* for the right one, the result is one of the outcomes for the number of
\* values that differ from it.
OutcomesCover ==
  phase = "done" /\ fast =>
    \A f \in Poly(code.d) :
      (CASE result = {} -> "none" [] result = {<<f>>} -> "right" [] OTHER -> "wrong")
        \in Outcomes(code.m, code.d, code.e, Cardinality(Mismatches(f, words[1])))

\* The product of a polynomial of degree N and one of degree e.
Product(N, f, E) ==
  LET from[k \in 0..N] ==
        [j \in 0..(N + code.e) |->
           ((IF j <= code.e THEN f[k] * E[j] ELSE 0)
              + (IF k < N /\ j > 0 THEN from[k + 1][j - 1] ELSE 0)) % p]
  IN  from[0]

\* Monic polynomials of degree e that are 0 where the values are not f's.
Locators(f, word) ==
  {E \in Poly(code.e) :
     E[code.e] = 1 /\ \A x \in Mismatches(f, word) : Eval(code.e, E, code.at[x]) = 0}

\* The left-hand side of a row, for what the unknowns z stand for.
Dot(row, z) ==
  LET upto[k \in 0..Unknowns] ==
        IF k = 0 THEN 0 ELSE (upto[k - 1] + row[k - 1] * z[k - 1]) % p
  IN  upto[Unknowns]

Solves(z, M) == \A x \in Points : Dot(M[x], z) = M[x][Unknowns]

\* While the elimination runs, the right answer stays a solution of every row,
\* for any locator of e points that vanishes where a value is wrong.
AnswerIsKept ==
  phase \in {"eliminate", "read"} =>
    LET word == words[Len(polys) + 1]
    IN  \A f \in Near(Len(polys) + 1) : \A E \in Locators(f, word) :
          LET Q == Product(code.d, f, E)
          IN  Solves([k \in 0..(Unknowns - 1) |->
                        IF k <= code.d + code.e THEN Q[k] ELSE E[k - code.d - code.e - 1]],
                     system)
=============================================================================
