---------------------------- MODULE MCFileModes ----------------------------
(***************************************************************************)
(* The instance of FileModes that TLC checks.                              *)
(***************************************************************************)
EXTENDS FileModes

\* All modes, those that have a flag, those that have not.
Hit ==
  LET g == {{f} : f \in Flags \cup {"in"}}
  IN  {<<{}, {}>>} \cup (g \X {{}}) \cup ({{}} \X g)

\* One flag is taken for missing, or for given, in all or in some of the modes.
OneFault ==
  {Correct} \cup {Fault({f}, {}, h[1], h[2]) : f \in Flags, h \in Hit}
            \cup {Fault({}, {f}, h[1], h[2]) : f \in Flags, h \in Hit}

\* Or two flags are, in the same modes.
TwoFaults ==
  OneFault \cup {Fault({f, g}, {}, h[1], h[2]) : f \in Flags, g \in Flags, h \in Hit}
           \cup {Fault({f}, {g}, h[1], h[2]) : f \in Flags, g \in Flags, h \in Hit}
           \cup {Fault({}, {f, g}, h[1], h[2]) : f \in Flags, g \in Flags, h \in Hit}

=============================================================================
