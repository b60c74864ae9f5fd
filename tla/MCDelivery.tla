----------------------------- MODULE MCDelivery -----------------------------
(* Answers of a few pieces, streamed or put together.                      *)
EXTENDS Delivery

Piece(call, think, text, err) ==
  [call |-> call, think |-> think, text |-> text, err |-> err]

Plain == {Piece(FALSE, TRUE, FALSE, "none"), Piece(FALSE, FALSE, TRUE, "none"),
          Piece(FALSE, TRUE, TRUE, "none"), Piece(FALSE, FALSE, TRUE, "error"),
          Piece(FALSE, FALSE, FALSE, "eof")}

WithCalls == Plain \cup {Piece(TRUE, FALSE, FALSE, "none"),
                         Piece(TRUE, TRUE, TRUE, "none")}
=============================================================================
