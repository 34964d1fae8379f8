------------------------------- MODULE MCTsb -------------------------------
(* A small instance of Tsb: plain images of two pages, one that ends in the     *)
(* middle of a page and one that ends with it, with the bytes that also steer   *)
(* the protocol on either side of the end of a page.                            *)
EXTENDS Tsb

Steering == {REQUEST, CONFIRM, WRITE_FLASH}

MCImages == {i \in {<<j, k, "a">> : j, k \in Steering}
                     \cup {<<Wake[1], k>> : k \in Steering}
                     \cup {<<"a", "a", k>> : k \in {REQUEST, CONFIRM}} : PlainImage(i)}
=============================================================================
