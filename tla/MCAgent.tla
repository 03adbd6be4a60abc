------------------------------- MODULE MCAgent -------------------------------
(* Instances of Agent for TLC. *)
EXTENDS Agent

TwoProviders == <<"gemini", "ollama">>
Modes == [gemini |-> 2, ollama |-> 1]

Banks == {"hdfc", "sbi"}
Traffic(n, ok) == [baseN |-> 400, baseOk |-> 320, n |-> n, ok |-> ok]
\* Nothing much; an outage of one issuer; a bad afternoon for everyone; too few
\* attempts to tell; an issuer that has no history and one nobody tries.
Afternoons ==
  {[hdfc |-> Traffic(50, 40), sbi |-> Traffic(50, 38)],
   [hdfc |-> Traffic(50, 15), sbi |-> Traffic(50, 40)],
   [hdfc |-> Traffic(50, 20), sbi |-> Traffic(50, 20)],
   [hdfc |-> Traffic(20, 0), sbi |-> Traffic(50, 38)],
   [hdfc |-> [baseN |-> 10, baseOk |-> 9, n |-> 50, ok |-> 5], sbi |-> Traffic(0, 0)]}
=============================================================================
