---------------------------- MODULE MC_TagParser ----------------------------
(* TLC instance of TagParser: files of up to two lines of up to three     *)
(* characters, enough for "a=a", " #=" and two lines with one key.        *)
EXTENDS TagParser

MCMaxLines == 2
MCMaxLen == 3
=============================================================================
