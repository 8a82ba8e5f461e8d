----------------------------- MODULE Addresses -----------------------------
(***************************************************************************)
(* RdmaAddress (core/common/RdmaAddress.h) and the enumeration of          *)
(* interfaces (core/linux/RdmaEnumeration.cpp and its Windows twin).       *)
(*                                                                         *)
(* A numeric host is one of a few names, a string is a host with the scope *)
(* id written after '%' (0: none), and an address is the family, host,     *)
(* port and scope id of a sockaddr_storage.  An operation that throws      *)
(* returns the code in "error".                                            *)
(***************************************************************************)
EXTENDS Integers, Sequences, SequencesExt

V4Hosts        == {"v4"}
LinkLocalHosts == {"linklocal"}
V6Hosts        == {"v6"} \cup LinkLocalHosts

FamilyOf(host) ==
    CASE host \in V4Hosts -> "INET" [] host \in V6Hosts -> "INET6" [] OTHER -> "UNSPEC"

NoAddress == [family |-> "UNSPEC", host |-> "none", port |-> 0, scope |-> 0]

\* external: getaddrinfo with AI_NUMERICHOST, which keeps a numeric scope id as glibc does.
Numeric(str) ==
    \/ str.host \in V4Hosts /\ str.scope = 0
    \/ str.host \in V6Hosts

getaddrinfo(str, port) ==
    [family |-> FamilyOf(str.host), host |-> str.host, port |-> port, scope |-> str.scope]

\* The pattern has to match the whole string: only "%3" is such a string, never an
\* address with its scope id.
ScopeIdMatches(str) == str.host = "none" /\ str.scope # 0

ParseAddress(str, port) ==
    IF ~Numeric(str)
        THEN [error |-> "InvalidAddress", address |-> NoAddress]
    ELSE IF ~ScopeIdMatches(str)
        THEN [error |-> "Success", address |-> getaddrinfo(str, port)]
    ELSE IF FamilyOf(str.host) = "INET6"
        THEN [error |-> "InternalError", address |-> NoAddress]  \* stoi("%3") throws
    ELSE [error |-> "InvalidAddress", address |-> NoAddress]

IsIpV6LinkLocal(a) == a.family = "INET6" /\ a.host \in LinkLocalHosts

\* Mutant: the scope id is never written, as in the build for Windows
AddrStringWithoutScope(a, linux) ==
    [host |-> IF a.family = "UNSPEC" THEN "*" ELSE a.host, scope |-> 0]

SockAddrToIpAddrString(a, linux) ==
    [host  |-> IF a.family = "UNSPEC" THEN "*" ELSE a.host,
     scope |-> IF linux /\ IsIpV6LinkLocal(a) THEN a.scope ELSE 0]

GetPort(a) == IF a.family = "UNSPEC" THEN 0 ELSE a.port

SetScopeId(a, id) == [a EXCEPT !.scope = id]

\* easyrdma_AddressFamily_AF_UNSPEC, _AF_INET and _AF_INET6 are 0, 4 and 6.
RdmaAddressFamilyToNative(family) ==
    CASE family = 0 -> "UNSPEC" [] family = 4 -> "INET" [] family = 6 -> "INET6"
      [] OTHER -> "InvalidArgument"

-----------------------------------------------------------------------------
(* An interface of the machine has a name, its index, whether it is the    *)
(* loopback interface, whether an RDMA device is behind it, and the hosts  *)
(* of its addresses; the system gives a link-local address the index as    *)
(* its scope id.                                                           *)

ifaddrs(if) ==
    {[family |-> FamilyOf(h), host |-> h, port |-> 0,
      scope |-> IF h \in LinkLocalHosts THEN if.index ELSE 0] : h \in if.hosts}

\* Both passes of GetInterfaces: the addresses of every interface that is not a loopback
\* one, as strings.  An address of another family has no host here: it is skipped.
GetInterfaces(ifs) ==
    [i \in {j \in ifs : ~j.loopback} |->
        {SockAddrToIpAddrString(a, TRUE) : a \in {b \in ifaddrs(i) : b.family # "UNSPEC"}}]

\* external: rdma_bind_addr finds a device for the address, given its interface.
Bindable(a, if) ==
    if.rdma /\ (IsIpV6LinkLocal(a) => a.scope = if.index)

\* IsAddressRdmaCompatible tries to bind the address.
IsAddressRdmaCompatible(a, if) == Bindable(a, if)

\* What EnumerateInterfaces makes of one address of an interface.
Usable(str, if) ==
    LET a == ParseAddress(str, 0).address
    IN  IF IsIpV6LinkLocal(a) THEN SetScopeId(a, if.index) ELSE a

EnumerateLinux(ifs, filter) ==
    LET native == RdmaAddressFamilyToNative(filter)
        raw    == GetInterfaces(ifs)
    IN  UNION {{SockAddrToIpAddrString(Usable(s, i), TRUE) :
                  s \in {r \in raw[i] : /\ filter = 0 \/ Usable(r, i).family = native
                                        /\ IsAddressRdmaCompatible(Usable(r, i), i)}}
               : i \in DOMAIN raw}

\* NdQueryAddressList (external) lists the addresses of the RDMA devices.
EnumerateWindows(ifs, filter) ==
    LET native == RdmaAddressFamilyToNative(filter)
    IN  UNION {{SockAddrToIpAddrString(a, FALSE) :
                  a \in {b \in ifaddrs(i) : native = "UNSPEC" \/ native = b.family}}
               : i \in {j \in ifs : j.rdma}}

EnumerateInterfaces(ifs, filter, linux) ==
    IF linux THEN EnumerateLinux(ifs, filter) ELSE EnumerateWindows(ifs, filter)

=============================================================================
