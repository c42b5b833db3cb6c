-------------------------- MODULE MCClientTransport ---------------------------
(***************************************************************************)
(* Two goroutines share a queue sender; or one producer makes up to three  *)
(* HTTP calls, whose handlers may overlap, with every request the endpoint *)
(* or the service tells apart, and a temporary and a final error.          *)
(***************************************************************************)
EXTENDS ClientTransport

MCRequest(json, body, success, failure) ==
    [json |-> json, body |-> body, success |-> success, failure |-> failure]

MCKind(authorized, tooLarge, request) ==
    [authorized |-> authorized, tooLarge |-> tooLarge, request |-> request]

MCKinds ==
    {MCKind(TRUE, FALSE, MCRequest(TRUE, TRUE, TRUE, TRUE)),
     MCKind(TRUE, FALSE, MCRequest(TRUE, TRUE, FALSE, FALSE)),
     MCKind(TRUE, FALSE, MCRequest(TRUE, FALSE, FALSE, TRUE)),
     MCKind(TRUE, FALSE, MCRequest(FALSE, TRUE, FALSE, FALSE)),
     MCKind(TRUE, TRUE, MCRequest(TRUE, TRUE, FALSE, FALSE)),
     MCKind(FALSE, FALSE, MCRequest(TRUE, TRUE, TRUE, TRUE))}

=============================================================================
