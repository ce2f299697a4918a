----------------------------- MODULE MCUserList -----------------------------
(* A small system for the user list: one ordinary and one system account  *)
(* in the accounts service, two names in the password file, two sessions  *)
(* of different users.                                                     *)
EXTENDS UserList

MCPaths == {"/User1000", "/User999"}
MCSystemPaths == {"/User999"}
MCNames == {"alice", "bob"}
MCSessionPaths == {"/Session0", "/Session1"}
MCLangs == {"en_US.UTF-8", "fr_FR.UTF-8"}
MCSessionUser == [s \in MCSessionPaths |-> IF s = "/Session0" THEN "alice" ELSE "bob"]
MCRank == [u \in MCPaths \cup MCNames |->
             CASE u = "/User999" -> 0 [] u = "/User1000" -> 1
               [] u = "alice" -> 1 [] u = "bob" -> 2]
====
