------------------------------ MODULE JWSDocs ------------------------------
(****************************************************************************)
(* What the public header says of the JWS parsers and the code does not do. *)
(****************************************************************************)
EXTENDS MCJWS

\* jws.hpp: the overloads marked noexcept are empty if the input could not be
\* parsed; they never end the process.
NothrowParsersReturn == alive
=============================================================================
