------------------------------ MODULE MCLogger ------------------------------
(***************************************************************************)
(* Instance of Logger for TLC: two threads log at levels below and at INFO.*)
(***************************************************************************)
EXTENDS Logger

DEBUG == 0
MCLevels == {DEBUG, INFO}
=============================================================================
