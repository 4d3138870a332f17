----------------------------- MODULE Descriptors -----------------------------
(***************************************************************************)
(* The searches of a plugin's descriptor (src/pi_plugin_unknown.c).  A     *)
(* descriptor names the API version its module was built against and lists *)
(* capabilities, in order and possibly more than once.                     *)
(***************************************************************************)
EXTENDS Naturals, Sequences

Flags == {"REQUIRED", "OPTIONAL", "PROVIDES"}

Version == [major : Nat, minor : Nat]
Descriptor(iids) ==
  [api_version : Version,
   capabilities : Seq([iid : iids, flags : SUBSET Flags])]

\* The same major, and a plugin not newer than the host.
VersionCompatible(host, version) ==
  host.major = version.major /\ version.minor <= host.minor

\* Where a capability is listed first, if it is; later entries are not looked at.
FindCapability(descriptor, iid) ==
  {i \in DOMAIN descriptor.capabilities :
     /\ descriptor.capabilities[i].iid = iid
     /\ \A j \in 1 .. i - 1 : descriptor.capabilities[j].iid # iid}

DescriptorProvides(descriptor, iid) ==
  \E i \in FindCapability(descriptor, iid) :
    "PROVIDES" \in descriptor.capabilities[i].flags

=============================================================================
