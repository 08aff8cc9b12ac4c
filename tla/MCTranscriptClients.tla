------------------------- MODULE MCTranscriptClients -------------------------
(* A manifest with each kind of element: sent as bytes, sent as a point or a   *)
(* field element, and derived by the verifier.                                 *)
EXTENDS TranscriptClients

Entry(name, num_bytes, derived) ==
    [name |-> name, num_bytes |-> num_bytes, derived_by_verifier |-> derived]
Round(elems, challenge, num_challenges) ==
    [elements |-> elems, challenge |-> challenge, num_challenges |-> num_challenges]

\* A field element takes 2 bytes and a point 4: serialized, twice that.
MCround_manifests ==
    <<Round(<<Entry("circuit_size", 4, FALSE)>>, "init", 1),
      Round(<<Entry("public_inputs", 0, TRUE), Entry("W_1", 8, FALSE)>>, "beta", 2),
      Round(<<>>, "gamma", 0),
      Round(<<Entry("t", 4, FALSE), Entry("w_1", 4, TRUE)>>, "nu", 3)>>

MCKind == [e \in {"circuit_size", "public_inputs", "W_1", "t", "w_1"} |->
    CASE e = "circuit_size" -> "bytes"
      [] e = "public_inputs" -> "vector"
      [] e = "W_1" -> "group"
      [] OTHER -> "field"]
MCValues == [e \in DOMAIN MCKind |->
    CASE e = "public_inputs" -> {<<"a">>, <<"a", "b">>}
      [] e = "circuit_size" -> {"eight"}
      [] e = "W_1" -> {"P", "Q"}
      [] OTHER -> {"a"}]
==============================================================================
