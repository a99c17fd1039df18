---------------------------- MODULE MCCredentials ------------------------------
(* Credentials of a root CA, two intermediate CAs below each other, and one    *)
(* client in whose home directory two commands may run at the same time: one   *)
(* enrolls and reenrolls, the other asks for the chain.                        *)
EXTENDS Credentials

MCParent == [n \in {"int", "sub", "home"} |->
                CASE n = "int" -> "root" [] n = "sub" -> "int" [] n = "home" -> "sub"]
MCHome == [p \in Commands |-> "home"]
MCAllowance == [n \in {"int", "sub", "home"} |-> 2]
MCMaxCerts == [x \in Processes |-> CASE x = "p" -> 2 [] x = "q" -> 0 [] OTHER -> 3]
=============================================================================
