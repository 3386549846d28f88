-------------------------- MODULE MCSessionService --------------------------
(***************************************************************************)
(* SessionService with two requests that open the session, one of them     *)
(* cancellable, and three writes, two of them cancellable.                 *)
(***************************************************************************)
EXTENDS SessionService

CONSTANTS c1, c2, w1, w2, w3

MCCreators == {c1, c2}
MCNoCreators == {}
MCWriters == {w1, w2, w3}
MCCancellable == {c1, w1, w2} \cap Calls
=============================================================================
