------------------------------ MODULE Addresses ------------------------------
(***************************************************************************)
(* What the index of a row becomes: addresses, a MAC and the name of a     *)
(* TAP.  VMLifecycle has the index alone for all of them.                  *)
(*                                                                         *)
(* The index is the rowid less one, and VMLifecycle has the rowid.  An     *)
(* address is the part of it that varies.                                  *)
(***************************************************************************)
EXTENDS VMLifecycle, Integers

\* The last group of an IPv6 address: up to four digits, which are decimal
\* here and read as hexadecimal ones.
IsGroup(digits) == digits \in Nat /\ digits <= 9999

AllocateGuestIP(index, service) == index * 10 + service + 2

AllocateGuestGlobalIP(index) == 3 + index

IsIPv4(bytes) == \A i \in DOMAIN bytes : bytes[i] \in 0 .. 255

AllocateGuestIPv4(index) == <<172, 26, index, 2>>

\* The index shifted as the service is.
GenerateMAC_Shifted(index, service) ==
    <<(index \div 256) % 256, (service \div 256) % 256, service % 256>>

\* The last three bytes.
GenerateMAC(index, service) ==
    <<index % 256, (service \div 256) % 256, service % 256>>

AllocateTapName(index, service) == <<index, service>>

\* Every project has one service.
AddressesOf(index) ==
    [ip     |-> AllocateGuestIP(index, 0),
     ipv4   |-> AllocateGuestIPv4(index),
     global |-> AllocateGuestGlobalIP(index),
     mac    |-> GenerateMAC(index, 0),
     tap    |-> AllocateTapName(index, "main")]

\* Addresses that can be written, and that neither the bridge (group 1 and
\* 172.26.0.1) nor the host (global group 2) has.
Usable(a) ==
    /\ IsGroup(a.ip) /\ a.ip # 1
    /\ IsGroup(a.global) /\ a.global # 2
    /\ IsIPv4(a.ipv4) /\ a.ipv4 # <<172, 26, 0, 1>>

NoneShared(a, b) == \A f \in DOMAIN a : a[f] # b[f]

-----------------------------------------------------------------------------
\* Indexes that the third byte of an IPv4 address has room for, and the MAC.
Indexes == 0 .. 255

IndexOf(row) == row.net - 1

\* No project has an address, MAC or TAP name of another, or one that cannot be
\* used, whatever fails or is killed, as long as indexes are small enough; nothing
\* in the code keeps them so (network.go:160, network.go:184).
RowsHaveOwnAddresses ==
    \A m, n \in Names :
       /\ HasService(rows[m]) /\ IndexOf(rows[m]) \in Indexes
       /\ HasService(rows[n]) /\ IndexOf(rows[n]) \in Indexes
       => /\ Usable(AddressesOf(IndexOf(rows[m])))
          /\ m # n => NoneShared(AddressesOf(IndexOf(rows[m])),
                                 AddressesOf(IndexOf(rows[n])))
=============================================================================
