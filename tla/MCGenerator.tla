----------------------------- MODULE MCGenerator -----------------------------
(* Command lines for Generator: every outcome of main and of generate, one *)
(* or two message lengths, lengths on both sides of a block boundary.      *)
EXTENDS Generator

Run(check, p, nums) == [check |-> check, primitive |-> p, nums |-> nums]

MCArgLists ==
  {Run(FALSE, <<"aes", "pobc">>, <<16, 2, 16, 1>>),
   Run(FALSE, <<"aes", "pobc", "siv">>, <<8, 1>>),
   Run(FALSE, <<"aes", "gcm", "siv", "128">>, <<8, 2>>),
   Run(FALSE, <<"aes", "gcm", "128">>, <<8, 1, 16>>),
   Run(FALSE, <<"jolteon", "aes", "128">>, <<8, 2>>),
   Run(FALSE, <<"espeon", "aes", "128">>, <<8, -1>>),
   Run(FALSE, <<"espeon", "aes", "128">>, <<1, 1, 16, 1>>),
   Run(FALSE, <<"pmac", "aes", "128">>, <<8, 1, 8, 1>>),
   Run(TRUE,  <<"pmac", "aes">>, <<16, 1, 8, 2>>),
   Run(TRUE,  <<"htmac", "aes">>, <<24, 1, 24, 2>>),
   Run(TRUE,  <<"aes", "gcm", "128">>, <<16, 1>>),
   Run(TRUE,  <<"htmac", "aes">>, <<>>),
   Run(FALSE, <<"htmac", "aes">>, <<>>),
   Run(FALSE, <<"aes">>, <<16, 1>>),
   Run(FALSE, <<"pmac", "aes">>, <<8, 1, 16, 0>>)}

MCSivArgLists  == {Run(FALSE, <<"aes", "pobc", "siv">>, <<16, 1>>)}
MCPmacArgLists == {Run(TRUE, <<"pmac", "aes">>, <<8, 1>>)}
=============================================================================
