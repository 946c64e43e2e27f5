------------------------------- MODULE Layer --------------------------------
(***************************************************************************)
(* The state of one part of the library, a record.  Its field kind says    *)
(* which part; the modules that extend this one describe the parts, and    *)
(* MCLayers lets a behaviour be one of any of them.                        *)
(***************************************************************************)
VARIABLE h
=============================================================================
