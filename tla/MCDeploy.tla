------------------------------ MODULE MCDeploy ------------------------------
(***************************************************************************)
(* The registry is empty, as it is in the repository, or has one or two    *)
(* units.  Four processes and two handshake attempts are enough for the    *)
(* unit to be restarted between the two reads of a handshake while another *)
(* unit takes the lock.  What a second run of the script would do to the   *)
(* units, Boot and Die already do.                                         *)
(***************************************************************************)
EXTENDS Deploy

MCRegistries == {<<>>, <<"keel">>, <<"keel", "moray">>}
=============================================================================
