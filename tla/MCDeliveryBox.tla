--------------------------- MODULE MCDeliveryBox ----------------------------
(* Model values for DeliveryBox.                                              *)
EXTENDS DeliveryBox
CONSTANTS friend, nobody
MCNames == {friend, nobody}
MCChars == {friend}
=============================================================================
