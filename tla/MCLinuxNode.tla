----------------------------- MODULE MCLinuxNode -----------------------------
(* LinuxNode for TLC. *)
EXTENDS LinuxNode, TLC

CONSTANTS a, b, c, nvidia, amd, llama, vllm

\* Two models a node with an AMD card can run, and one that it cannot.
TheCatalog ==
  <<[alias |-> a, variants |-> <<[vendor |-> nvidia, backend |-> vllm], [vendor |-> amd, backend |-> llama]>>],
    [alias |-> b, variants |-> <<[vendor |-> amd, backend |-> llama]>>],
    [alias |-> c, variants |-> <<[vendor |-> amd, backend |-> vllm], [vendor |-> amd, backend |-> llama]>>]>>
=============================================================================
