--------------------------- MODULE MCHostCommand ---------------------------
(***************************************************************************)
(* Platforms and devices for TLC: both drivers, with and without LMS and   *)
(* TLS on the local ports, a system with standard manageability, firmware  *)
(* before and after the operational state; a device out of the box, one    *)
(* whose MEBx password was set and activated ones that hold the opposite   *)
(* of the defaults.                                                        *)
(***************************************************************************)
EXTENDS HostCommand

Platform(os, tls, lms, ism, version, uefi) ==
    [os |-> os, tls |-> tls, lms |-> lms, ism |-> ism, version |-> version, uefi |-> uefi]

MCMachines ==
    {Platform("linux", FALSE, FALSE, FALSE, 16, TRUE),
     Platform("windows", TRUE, TRUE, TRUE, 11, FALSE)}

OutOfTheBox ==
    [mode |-> 0, password |-> Nothing, mebx |-> Nothing,
     ider |-> FALSE, sol |-> FALSE, listener |-> FALSE, kvm |-> FALSE, consent |-> "all",
     proxies |-> {}, clock |-> FALSE, name |-> FALSE,
     sync |-> FALSE, uefi |-> FALSE, wifi |-> FALSE]

Used(m) ==
    [mode |-> m, password |-> Admin, mebx |-> Admin,
     ider |-> TRUE, sol |-> FALSE, listener |-> TRUE, kvm |-> TRUE, consent |-> "kvm",
     proxies |-> Proxies, clock |-> FALSE, name |-> FALSE,
     sync |-> TRUE, uefi |-> TRUE, wifi |-> FALSE]

MCSettings0 == {OutOfTheBox} \cup {Used(m) : m \in 0..2}
=============================================================================
