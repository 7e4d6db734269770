------------------------------ MODULE MCRadio -------------------------------
(* Values for the constants of DspRadio that a configuration file cannot write. *)
EXTENDS DspRadio, TLC

MCDefault == (FM :> 20) @@ (AM :> 5)
MCMax     == (FM :> 22) @@ (AM :> 5)
MCStep    == (FM :> 2) @@ (AM :> 1)

MCStations ==
    {[type |-> FM, num |-> 1, ch |-> 2, freq |-> 22], [type |-> FM, num |-> 31, ch |-> 0, freq |-> 20],
     [type |-> AM, num |-> 3, ch |-> 255, freq |-> 5], [type |-> None, num |-> 1, ch |-> 1, freq |-> 20]}

MCPresets == {[type |-> FM, num |-> 1, freq |-> 22]}

=============================================================================
