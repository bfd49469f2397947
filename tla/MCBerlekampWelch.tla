-------------------------- MODULE MCBerlekampWelch --------------------------
(* Instances of BerlekampWelch for TLC.                                    *)
EXTENDS BerlekampWelch

\* As few points as the decoder accepts, for a share, a product of shares and a
\* constant with two errors; too few; and too few for the fast path.  They are
\* those of all parties or of some, in any order.
Share == [m |-> 4, at |-> <<1, 2, 3, 4>>, d |-> 1, e |-> 1]
Square == [m |-> 5, at |-> <<6, 2, 3, 5, 1>>, d |-> 2, e |-> 1]
Constant == [m |-> 5, at |-> <<1, 2, 4, 5, 6>>, d |-> 0, e |-> 2]
TooFew == [m |-> 3, at |-> <<2, 4, 3>>, d |-> 1, e |-> 1]
NoSample == [m |-> 2, at |-> <<5, 1>>, d |-> 2, e |-> 0]

MCCodes == {Share, Square, Constant, TooFew, NoSample}

Starting(m, heads) == {v \in [1..m -> Field] : \A i \in DOMAIN heads : v[i] \in heads[i]}

\* The first values are fixed up to what decides between the branches; two
\* components of a share take the values 0 and 1 only.
MCInputs ==
  [c \in MCCodes |->
     CASE c = Share -> {<<v>> : v \in Starting(4, <<0..1, 0..1>>)}
                       \union {<<v, w>> : v \in Starting(4, <<{0}, 0..1, 0..1, 0..1>>),
                                         w \in Starting(4, <<{0}, {0}, 0..1, 0..1>>)}
       [] c = Square -> {<<v>> : v \in Starting(5, <<{0}, {0}, 0..1, 0..3>>)}
       [] c = Constant -> {<<v>> : v \in Starting(5, <<{1}, 0..1, 0..2, 0..2>>)}
       [] c = TooFew -> {<<v>> : v \in Starting(3, <<0..1, 0..1>>)}
       [] c = NoSample -> {<<v>> : v \in Starting(2, <<0..1, 0..1>>)}]
=============================================================================
