---------------------------- MODULE MCSystemUser ----------------------------
(* The system user, checked on two pods and two operator processes: FIPS    *)
(* mode and TLS are turned on and off, one at a time or one for the other.  *)
EXTENDS SystemUser

MCModes == {[fips |-> FALSE, tls |-> FALSE], [fips |-> TRUE, tls |-> FALSE],
            [fips |-> FALSE, tls |-> TRUE]}
=============================================================================
