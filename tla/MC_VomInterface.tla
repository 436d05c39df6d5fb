--------------------------- MODULE MC_VomInterface ---------------------------
(* Bounds for VomInterface: a port, a loopback and a tap in a route      *)
(* domain, and a BVI outside it.                                         *)
EXTENDS VomInterface

MCNames == {1, 2, 3, 4}

\* name 1 is a dumped ethernet port, 2 a loopback, 3 a BVI, 4 a tap
MCItfType == (1 :> "ethernet") @@ (2 :> "loopback") @@ (3 :> "bvi") @@ (4 :> "tap")

\* the loopback and the tap are built with a route domain; the port as
\* dumped has none
MCRdOf == (1 :> FALSE) @@ (2 :> TRUE) @@ (3 :> FALSE) @@ (4 :> TRUE)

MCPhysHandle == 1 :> 1

MCHandles == 0 .. 4
==============================================================================
