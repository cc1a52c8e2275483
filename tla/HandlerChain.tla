------------------------------ MODULE HandlerChain ------------------------------
(***************************************************************************)
(* Which handler an external command meets: the call hook, then the chain  *)
(* that wireHandlers (sandbox.go) builds from the dispatcher, the package  *)
(* shims, the Python runtime and the isolated execution.  The dispatcher   *)
(* compares the command as it was typed, the others its last path element. *)
(***************************************************************************)
EXTENDS Naturals, Sequences

(* A command: its program, whether it was typed without a directory, and what it asks for. *)
Verbs    == {"install", "uninstall", "update", "-m pip install", "-m pip uninstall", "-y install", "other"}
Programs == {"pip", "python", "apt-get", "ln", "other"}
External == [program : Programs, bare : BOOLEAN, verb : Verbs]

PipMatches(c) ==
    \/ c.program = "pip" /\ c.verb \in {"install", "uninstall"}
    \/ c.program = "python" /\ c.verb \in {"-m pip install", "-m pip uninstall"}

(* The subcommand is looked for in the second place only. *)
AptMatches(c) == c.program = "apt-get" /\ c.verb \in {"install", "uninstall", "update"}

(* opts: whether the Python runtime is WASM, and the programs on the block list. *)
Takes(layer, c, opts) ==
    CASE layer = "blocked"  -> c.bare /\ c.program \in opts.block
      [] layer = "ln"       -> c.bare /\ c.program = "ln"
      [] layer = "pip"      -> PipMatches(c)
      [] layer = "apt"      -> AptMatches(c)
      [] layer = "wasm"     -> opts.wasm /\ c.program = "python"
      [] layer = "isolated" -> TRUE

(* Mutation: the Python runtime comes before the package shims. *)
WasmFirst == <<"blocked", "ln", "wasm", "pip", "apt", "isolated">>

Chain == <<"blocked", "ln", "pip", "apt", "wasm", "isolated">>

(* The first layer that takes the command. *)
Handler(c, opts) ==
    Chain[CHOOSE i \in 1..Len(Chain) :
            Takes(Chain[i], c, opts) /\ \A j \in 1..(i - 1) : ~Takes(Chain[j], c, opts)]

(* Commands that install a package in a form the shims recognise. *)
Installs(c) ==
    \/ c.program \in {"pip", "apt-get"} /\ c.verb = "install"
    \/ c.program = "python" /\ c.verb = "-m pip install"

=============================================================================
