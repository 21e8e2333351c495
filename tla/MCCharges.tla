------------------------------ MODULE MCCharges ------------------------------
(* Values for the constants of Charges. *)
EXTENDS Charges

CONSTANTS p1, c1, h1

\* The provider may authorize the payment without taking it, and refund it.
AllMoves ==
    {<<"pending", "authorized">>, <<"pending", "approved">>, <<"pending", "rejected">>,
     <<"approved", "refunded">>}

==============================================================================
