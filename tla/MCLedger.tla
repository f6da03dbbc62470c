------------------------------ MODULE MCLedger ------------------------------
(* Ledger for TLC: the frames of Narrow ask for applications only, all the  *)
(* others for everything; every Mac enrols under the same name, for the     *)
(* names are interchangeable.                                               *)
EXTENDS Ledger

CONSTANTS Narrow, FirstDates, FirstName

Scopes == [f \in Readers |-> IF f \in Narrow THEN {"applications"} ELSE Sections]
Enrolled == [date: FirstDates, content: [general: {FirstName}, applications: SUBSET Apps], ver: {1}]
=============================================================================
