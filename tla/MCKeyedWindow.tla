--------------------------- MODULE MCKeyedWindow ---------------------------
(* Instances of KeyedWindow for TLC. *)
EXTENDS KeyedWindow, TLC

Shape(kind, size, slide, maxItems, maxKeys) ==
  [kind |-> kind, size |-> size, slide |-> slide, maxItems |-> maxItems, maxKeys |-> maxKeys]

\* Each policy with and without limits.  The third shape has a size no
\* instant can hold, so its windows do not end by time; the fourth is refused.
MCSpecs ==
  {Shape("tumbling", 2, 2, 2, None), Shape("tumbling", 2, 2, None, 2),
   Shape("tumbling", 9, 9, 2, 1), Shape("tumbling", 0, 0, None, None),
   Shape("session", 1, 1, 2, None), Shape("session", 2, 2, None, 1),
   Shape("sliding", 3, 2, None, None), Shape("sliding", 2, 1, 2, 2)}

\* Sessions only, to see the order in which keys close.
MCSessions == {Shape("session", 2, 2, None, None)}

\* Keys are only compared.
MCSymmetry == Permutations(Keys)
=============================================================================
