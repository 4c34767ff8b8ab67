-------------------------- MODULE MCErrorCollector --------------------------
(* A small instance of ErrorCollector: two ids, a feature of each kind. *)
EXTENDS ErrorCollector, TLC

CONSTANTS A, B

Feature(id, big, bad, codes, over) ==
  [id |-> id, big |-> big, bad |-> bad, codes |-> codes, over |-> over]

Codes == {<<>>, <<"geometryValidity">>, <<"resolution">>, <<"smallGeometries">>,
          <<"smallHoles">>, <<"smallGeometries", "smallHoles">>, <<"notYetKnown", "unknown">>}

MCFeatures ==
       {Feature(id, FALSE, FALSE, codes, FALSE) : id \in {A, B}, codes \in Codes}
  \cup {Feature(id, FALSE, FALSE, <<"resolution">>, TRUE) : id \in {A, B}}
  \cup {Feature(id, FALSE, TRUE, <<>>, FALSE) : id \in {A, B, UNKNOWN_ID}}
  \cup {Feature(id, TRUE, FALSE, <<>>, FALSE) : id \in {A, B}}
  \cup {Feature(id, TRUE, TRUE, <<>>, FALSE) : id \in {A, B, UNKNOWN_ID}}

IdSymmetry == Permutations({A, B})

=============================================================================
