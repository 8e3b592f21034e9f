----------------------------- MODULE EcuEntryMC -----------------------------
(***************************************************************************)
(* Small instances of EcuEntry: lists of one or two rows that between them *)
(* hold every kind of test.                                                *)
(***************************************************************************)
EXTENDS EcuEntry

\* One-wire CAN and J1939; CAN FD and the first honda entry; J1850, where one test leaves
\* its link behind; the rest of the K line.
AllKinds == {<<0, 8>>, <<3, 6>>, <<1, 2>>, <<5, 7>>, <<9>>}
=============================================================================
