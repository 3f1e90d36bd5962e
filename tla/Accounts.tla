------------------------------- MODULE Accounts -------------------------------
(***************************************************************************)
(* What the sign-in flows of backend/internal/auth have in common: the     *)
(* accounts they sign in, and the processes (HTTP requests) that run them. *)
(* A row's column that is NULL holds NoOne.                                *)
(***************************************************************************)

CONSTANTS Users, NoOne

ASSUME NoOneIsNoUser == NoOne \notin Users
===============================================================================
