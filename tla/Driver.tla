------------------------------- MODULE Driver -------------------------------
(***************************************************************************)
(* MPC/code/benchmark.mpc. compile.py of MP-SPDZ runs it to compile one    *)
(* circuit: it imports the decryptions, reads its arguments, and calls the *)
(* decryption that the circuit's name stands for. What decryptions compute *)
(* is in MpcModes; here it matters whether the call is reached at all.     *)
(***************************************************************************)
EXTENDS Integers, Sequences, FiniteSets

CONSTANTS
  CommandLines,   \* the arguments of compile.py, sequences of words
  Numerals        \* the words that int() accepts

VARIABLES
  argv,     \* the arguments; argv[n] is Python's sys.argv[n]
  pc,       \* what the program does next: import, parse, dispatch
  names,    \* the decryptions imported so far
  status    \* how the program ended

vars == <<argv, pc, names, status>>

\* What is imported, from which module, in this order.
Imports ==
  << <<"aes_gcm", "aes_gcm_128_decrypt">>,
     <<"aes_pobc64", "aes_pobc64_128_decrypt">>,
     <<"aes_pobc_siv", "aes_pobc_siv_128_decrypt">>,
     <<"aes_gcm_siv", "aes_gcm_siv_128_decrypt">>,
     <<"aes_modes", "dec_pmac_aes128">>,
     <<"aes_modes", "dec_htmac_aes128">> >>

\* The decryptions that a module defines; what is commented out is not defined.
Defined ==
  [aes_gcm      |-> {"aes_gcm_128_decrypt"},
   aes_pobc64   |-> {"aes_pobc64_128_decrypt"},
   aes_pobc_siv |-> {"aes_pobc_siv_128_decrypt"},
   aes_gcm_siv  |-> {"aes_gcm_siv_128_decrypt"},
   aes_modes    |-> {"dec_pmac_aes128"}]

\* The decryption that a circuit calls. The lengths it gets are those that it
\* asserts; for PMAC the ciphertext is rounded up to blocks.
Circuit ==
  [aes_gcm64     |-> "aes_gcm_128_decrypt",
   aes_pobc64    |-> "aes_pobc64_128_decrypt",
   aes_pobc_siv  |-> "aes_pobc_siv_128_decrypt",
   aes_gcm_siv64 |-> "aes_gcm_siv_128_decrypt",
   pmac_aes64    |-> "dec_pmac_aes128"]

Init ==
  /\ argv \in CommandLines
  /\ pc = "import" /\ names = {} /\ status = "running"

End(s) == pc' = "done" /\ status' = s

Import ==
  /\ pc = "import"
  /\ LET import == Imports[Cardinality(names) + 1]
     IN  IF import[2] \in Defined[import[1]]
         THEN /\ names' = names \cup {import[2]}
              /\ pc' = IF Cardinality(names') = Len(Imports) THEN "parse" ELSE pc
              /\ UNCHANGED status
         ELSE End("ImportError") /\ UNCHANGED names
  /\ UNCHANGED argv

\* The place of the word benchmark, or the end; before it stand compile.py's own.
Found == CHOOSE n \in 1..(Len(argv) + 1) :
           /\ n <= Len(argv) => argv[n] = "benchmark"
           /\ \A k \in 1..(n - 1) : argv[k] # "benchmark"

\* How reading argument n by int() ends, or else what follows.
Reading(n, next) ==
  IF n > Len(argv) THEN "IndexError" ELSE IF argv[n] \in Numerals THEN next ELSE "ValueError"

\* sys.argv has the name of the program in front of the arguments.
Parse ==
  /\ pc = "parse"
  /\ LET outcome == IF Len(argv) + 1 < 4 THEN "usage"
                    ELSE Reading(Found + 2, Reading(Found + 3, "parsed"))
     IN  IF outcome = "parsed" THEN pc' = "dispatch" /\ UNCHANGED status ELSE End(outcome)
  /\ UNCHANGED <<argv, names>>

Dispatch ==
  /\ pc = "dispatch"
  /\ LET circuit == argv[Found + 1]
     IN  End(CASE circuit \notin DOMAIN Circuit -> "AssertionError"
               [] circuit \in DOMAIN Circuit /\ Circuit[circuit] \notin names -> "NameError"
               [] circuit \in DOMAIN Circuit /\ Circuit[circuit] \in names -> "compiled")
  /\ UNCHANGED <<argv, names>>

Next == Import \/ Parse \/ Dispatch

Spec == Init /\ [][Next]_vars

(***************************************************************************)
(* Properties                                                              *)
(***************************************************************************)
\* A command line as the README of MPC gives it: benchmark, one of its circuits
\* that benchmark.mpc has a branch for, the SIMD factor, the message's length.
WellFormed ==
  /\ Len(argv) = 4 /\ argv[1] = "benchmark" /\ argv[2] \in DOMAIN Circuit
  /\ {argv[3], argv[4]} \subseteq Numerals

\* With such a command line the circuit is compiled.
CompilesAll == pc = "done" /\ WellFormed => status = "compiled"
=============================================================================
