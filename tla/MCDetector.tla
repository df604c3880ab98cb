------------------------------ MODULE MCDetector ------------------------------
(* Constants of Detector for model checking: two of the five alarms, one of  *)
(* the four notices and two of the four commands of the sketch.              *)
EXTENDS Detector

MCAlarms   == {"8230000000FD", "8220200000EE"}
MCNotices  == {"8222000004F2"}
MCCommands == <<"0969", "0B72">>
===============================================================================
