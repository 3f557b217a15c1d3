------------------------- MODULE PackageClassifier --------------------------
(***************************************************************************)
(* Whose code a file is: the functions of packages_resolver.py and the     *)
(* configuration of code_correlation/config.py.                            *)
(*                                                                         *)
(* A root module is a sequence of one or two names: <<"flask">>, or        *)
(* <<"google", "cloud">> for a namespace package.  A file record has its   *)
(* `home`, "std", "site" (site-packages) or "elsewhere", and `at`, a       *)
(* function from the directories that hold it to its location below: the   *)
(* first two `parts`, and whether the first is a `package` (has an         *)
(* __init__.py).  Files in site-packages have one directory, "site".       *)
(***************************************************************************)
EXTENDS Integers, Sequences, FiniteSets

CONSTANTS Files,           \* file id -> record
          Distributions,   \* the installed ones in their order, <<>> when they cannot be read
          Listed,          \* 3rd.txt
          Depth            \* directory -> Nat, larger for nested ones

(* from_env: `object` tells that the variable holds a JSON object; a field *)
(* that is absent is an empty list.                                        *)
Strings(config, field) ==
  IF config.object /\ config[field].list
    THEN { item.text : item \in { i \in config[field].items : i.string } }
    ELSE {}

ThirdParty(config) == (Listed \cup Strings(config, "include")) \ Strings(config, "exclude")

(* Distribution files: their first two `parts`, whether the first is a     *)
(* directory without an __init__.py (`namespace`), and `metadata` for      *)
(* .dist-info, .egg-info and "..".                                         *)
MappedRoot(file) == IF file.namespace /\ Len(file.parts) > 1 THEN file.parts ELSE <<file.parts[1]>>

MappedRoots(n) == { MappedRoot(file) : file \in { f \in Distributions[n].files : ~f.metadata } }

Owners(root) == { n \in DOMAIN Distributions : root \in MappedRoots(n) }
First(set)   == CHOOSE n \in set : \A m \in set : n <= m

(* The values of the mapping: those that come first for some root.         *)
Mapped == { First(Owners(root)) : root \in UNION { MappedRoots(n) : n \in DOMAIN Distributions } }

(* resolve_package_from_filename: the number of a distribution, 0 if none. *)
PackageOf(root) ==
  LET namesakes == { n \in Mapped : <<Distributions[n].name>> = root }
  IN  IF Owners(root) # {} THEN First(Owners(root))
      ELSE IF namesakes # {} THEN First(namesakes) ELSE 0

(* _determine_effective_root.                                              *)
EffectiveRoot(location) == IF location.package THEN <<location.parts[1]>> ELSE location.parts

NoRoot == <<>>

(* The deepest of the directories, which leaves the shortest path.         *)
RootFrom(f, dirs) ==
  LET holding == DOMAIN Files[f].at \cap dirs
      deepest == CHOOSE d \in holding : \A e \in holding : Depth[e] <= Depth[d]
  IN  IF holding = {} THEN NoRoot ELSE EffectiveRoot(Files[f].at[deepest])

(* is_third_party_package of a file with this package.                     *)
ThirdPartyPackage(n, config) == n # 0 /\ Distributions[n].lower \in ThirdParty(config)
=============================================================================
