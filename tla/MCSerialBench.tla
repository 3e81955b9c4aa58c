----------------------------- MODULE MCSerialBench -----------------------------
(* Small vector files for SerialBench.  Bytes have four values, so the     *)
(* header is 0 3 0 and a two-byte length stays below 16.                   *)
EXTENDS SerialBench

Vec(m, k, n, t) ==
  [message |-> m, key |-> k, nonce |-> n, ctLen |-> Len(m), tagLen |-> t]

File(words, v) == [path |-> words, vecs |-> v]

(* Payloads that contain the header's bytes, at different alignments.      *)
MCGood  == File({"pobc"}, <<Vec(<<0, 3>>, <<0>>, <<3>>, 1), Vec(<<3>>, <<0>>, <<0>>, 1)>>)
MCLarge == File({"pobc"}, <<Vec(<<1>>, <<0>>, <<3>>, 1), Vec(<<0, 3, 0>>, <<0>>, <<0>>, 1)>>)
MCEmpty == File({"siv"}, <<Vec(<<>>, <<0>>, <<3>>, 1)>>)
MCHuge  == File({}, <<Vec([i \in 1 .. 16 |-> 1], <<0>>, <<3>>, 1)>>)
(* A nonce firmware's vectors below a directory whose name has "pobc".     *)
MCMisread == File({"pobc", "siv"}, <<Vec(<<0, 3>>, <<0>>, <<3>>, 1)>>)

(* Files for the SIV firmware, which reads no nonce.                       *)
MCSivFiles ==
  {File({"pobc", "siv"}, <<Vec(<<0, 3>>, <<0>>, <<3>>, 1), Vec(<<3>>, <<0>>, <<0>>, 1)>>),
   File({"pobc", "siv"}, <<Vec(<<>>, <<3>>, <<0>>, 1)>>)}

MCMisreadFiles == {MCMisread}

MCFaultFiles == {MCGood, MCLarge, MCEmpty, MCHuge, MCMisread}
=============================================================================
