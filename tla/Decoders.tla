------------------------------ MODULE Decoders ------------------------------
(***************************************************************************)
(* Decoder files, the dictionary that load_decoders makes of them, and the *)
(* decoding of a line (app/parsers/router.py, app/decoder/engine.py).      *)
(*                                                                         *)
(* load_decoders names a new, empty dictionary and puts what it has read   *)
(* of a file into whatever dictionary is named then; it takes no lock.     *)
(* Lines and patterns are abstracted to which lines a decoder takes: the   *)
(* fields of the event it makes are left out, as are listings, tests and   *)
(* the AI's drafts of decoders, which change nothing.                      *)
(***************************************************************************)
EXTENDS Requests, FiniteSets, Sequences, SequencesExt

CONSTANTS
  Lines,             (* log lines, numbers                                 *)
  Sources,           (* names that lines are sent under                    *)
  DecoderNames,      (* names of custom decoders, numbers in their order   *)
  BuiltinDecoders,   (* what the built-in files say, in their order        *)
  CustomDecoders,    (* the custom files there are at first                *)
  DecoderDocs        (* YAML that administrators send                      *)

NoFile == [kind |-> "none"]
Blank  == [kind |-> "blank"]

(* A document: its source and type, whether it has all the required keys,  *)
(* whether its pattern nests quantifiers, the lines it takes and those it  *)
(* raises an exception at.                                                 *)
DecoderDoc ==
  [kind : {"decoder"}, source : Sources, type : {"regex", "json", "kv", "csv"},
   complete : BOOLEAN, nested : BOOLEAN, takes : SUBSET Lines, raises : SUBSET Lines]

ASSUME DecodersAssumption ==
  /\ DecoderNames \subseteq Nat /\ IsFiniteSet(DecoderNames)
  /\ BuiltinDecoders \in Seq(DecoderDoc)
  /\ CustomDecoders \in [DecoderNames -> DecoderDoc \cup {NoFile}]
  /\ DecoderDocs \subseteq DecoderDoc

(* The documents that there may be.                                        *)
Docs ==
  DecoderDocs \cup ToSet(BuiltinDecoders) \cup ({CustomDecoders[n] : n \in DecoderNames} \ {NoFile})

VARIABLES
  decoderFiles,   (* decoders/custom/*.yaml                                *)
  decoders,       (* _decoders: the decoder of each source, or NoFile      *)
  load,           (* what a handler of decoder files works on              *)
  torn            (* history: files whose write failed                     *)

decoderVars == <<decoderFiles, decoders, load, torn>>

-----------------------------------------------------------------------------

Risky(doc) == doc.type = "regex" /\ doc.nested

(* _validate_parser_yaml.                                                  *)
Valid(doc) == doc.complete /\ ~Risky(doc)

(* A custom file that is loaded; a blank one raises and is skipped.        *)
Loads(doc) == doc.kind = "decoder" /\ ~Risky(doc)

Present == {n \in DecoderNames : decoderFiles[n] # NoFile}

(* What a load finds that nobody disturbs: of the files for a source, the  *)
(* last one, and a custom file before a built-in one.                      *)
BuiltinFor(source) == {i \in DOMAIN BuiltinDecoders : BuiltinDecoders[i].source = source}
CustomFor(source) ==
  {n \in DecoderNames : Loads(decoderFiles[n]) /\ decoderFiles[n].source = source}
Latest(docs, places) == IF places = {} THEN NoFile ELSE docs[Max(places)]
Expected ==
  [s \in Sources |-> IF CustomFor(s) # {} THEN Latest(decoderFiles, CustomFor(s))
                     ELSE Latest(BuiltinDecoders, BuiltinFor(s))]

Load(name, doc) == [name |-> name, doc |-> doc, builtin |-> 0, todo |-> {}, read |-> NoFile]
NoLoad == Load(0, NoFile)

DecodersInit ==
  /\ decoderFiles = CustomDecoders /\ decoders = Expected
  /\ load = [a \in Admins |-> NoLoad] /\ torn = {}

-----------------------------------------------------------------------------

(* POST /parsers is refused when the custom file exists, PUT and DELETE    *)
(* when it does not.                                                       *)
CreateDecoder(a, n, doc) ==
  /\ Arrive(a, "open")
  /\ Valid(doc) /\ decoderFiles[n] = NoFile
  /\ load' = [load EXCEPT ![a] = Load(n, doc)]
  /\ UNCHANGED <<decoderFiles, decoders, torn>>

UpdateDecoder(a, n, doc) ==
  /\ Arrive(a, "open")
  /\ Valid(doc) /\ decoderFiles[n] # NoFile
  /\ load' = [load EXCEPT ![a] = Load(n, doc)]
  /\ UNCHANGED <<decoderFiles, decoders, torn>>

DeleteDecoder(a, n) ==
  /\ Arrive(a, "unlink")
  /\ decoderFiles[n] # NoFile
  /\ load' = [load EXCEPT ![a] = Load(n, NoFile)]
  /\ UNCHANGED <<decoderFiles, decoders, torn>>

(* write_text opens the file and so empties or makes it, then writes it.   *)
OpenDecoder(a) ==
  /\ At(a, "open") /\ Goto(a, "write")
  /\ decoderFiles' = [decoderFiles EXCEPT ![load[a].name] = Blank]
  /\ UNCHANGED <<decoders, load, torn>>

(* What is written to a file that was unlinked in the meantime goes        *)
(* nowhere.                                                                *)
Lost(a) == load[a].doc = NoFile
WriteDecoder(a) ==
  /\ At(a, "write") /\ Goto(a, "new")
  /\ decoderFiles' = IF Lost(a) THEN decoderFiles
                     ELSE [decoderFiles EXCEPT ![load[a].name] = load[a].doc]
  /\ torn' = IF Lost(a) THEN torn ELSE torn \ {load[a].name}
  /\ load' = [load EXCEPT ![a] = NoLoad]
  /\ UNCHANGED decoders

(* The disk is full: the request fails, the decoders are not loaded.       *)
WriteDecoderFails(a) ==
  /\ At(a, "write") /\ Goto(a, "idle")
  /\ torn' = IF Lost(a) THEN torn ELSE torn \cup {load[a].name}
  /\ load' = [load EXCEPT ![a] = NoLoad]
  /\ UNCHANGED <<decoderFiles, decoders>>

(* unlink raises when another request has deleted the file.  Who has the   *)
(* file open keeps it, without a name.                                     *)
UnlinkDecoder(a) ==
  LET n == load[a].name IN
  /\ At(a, "unlink")
  /\ Goto(a, IF decoderFiles[n] = NoFile THEN "idle" ELSE "new")
  /\ decoderFiles' = [decoderFiles EXCEPT ![n] = NoFile]
  /\ torn' = torn \ {n}
  /\ load' = [b \in Admins |-> IF b = a THEN NoLoad
                               ELSE IF At(b, "write") /\ load[b].name = n THEN Load(n, NoFile)
                               ELSE load[b]]
  /\ UNCHANGED decoders

-----------------------------------------------------------------------------

(* load_decoders names a new dictionary.  Mutated form: it keeps the old.  *)
KeepDictionary(a) ==
  /\ At(a, "new") /\ Goto(a, "builtin")
  /\ UNCHANGED decoderVars
NewDictionary(a) ==
  /\ At(a, "new") /\ Goto(a, "builtin")
  /\ decoders' = [s \in Sources |-> NoFile]
  /\ UNCHANGED <<decoderFiles, load, torn>>

(* Built-in files, which never change, are read and put one by one.        *)
PutBuiltin(a) ==
  /\ At(a, "builtin") /\ Goto(a, "builtin")
  /\ load[a].builtin < Len(BuiltinDecoders)
  /\ load' = [load EXCEPT ![a].builtin = @ + 1]
  /\ LET doc == BuiltinDecoders[load[a].builtin + 1]
     IN  decoders' = [decoders EXCEPT ![doc.source] = doc]
  /\ UNCHANGED <<decoderFiles, torn>>

(* Then the custom files are looked up; without any, this is the end.  They *)
(* are read in the order of their names.                                   *)
GlobDecoders(a) ==
  /\ At(a, "builtin") /\ load[a].builtin = Len(BuiltinDecoders)
  /\ Goto(a, IF Present = {} THEN "idle" ELSE "read")
  /\ load' = [load EXCEPT ![a] = [NoLoad EXCEPT !.todo = Present]]
  /\ UNCHANGED <<decoderFiles, decoders, torn>>

(* A file is read; one that is gone, blank or risky is skipped.            *)
Current(a) == Min(load[a].todo)
Unread(a) == load[a].todo \ {Current(a)}
AfterFile(a) == IF Unread(a) = {} THEN "idle" ELSE "read"
ReadDecoder(a) ==
  /\ At(a, "read")
  /\ LET doc == decoderFiles[Current(a)]
     IN  IF Loads(doc)
         THEN Goto(a, "put") /\ load' = [load EXCEPT ![a].read = doc]
         ELSE Goto(a, AfterFile(a)) /\ load' = [load EXCEPT ![a].todo = Unread(a)]
  /\ UNCHANGED <<decoderFiles, decoders, torn>>

(* What it says goes into the dictionary that is named now.                *)
PutDecoder(a) ==
  /\ At(a, "put") /\ Goto(a, AfterFile(a))
  /\ decoders' = [decoders EXCEPT ![load[a].read.source] = load[a].read]
  /\ load' = [load EXCEPT ![a] = [NoLoad EXCEPT !.todo = Unread(a)]]
  /\ UNCHANGED <<decoderFiles, torn>>

DecodersStep(a) ==
  \/ \E n \in DecoderNames, doc \in DecoderDocs : CreateDecoder(a, n, doc) \/ UpdateDecoder(a, n, doc)
  \/ \E n \in DecoderNames : DeleteDecoder(a, n)
  \/ OpenDecoder(a) \/ WriteDecoder(a) \/ WriteDecoderFails(a) \/ UnlinkDecoder(a)
  \/ NewDictionary(a) \/ PutBuiltin(a) \/ GlobDecoders(a) \/ ReadDecoder(a) \/ PutDecoder(a)

DecodersRestart ==
  /\ decoders' = Expected /\ load' = [a \in Admins |-> NoLoad] /\ torn' = {}
  /\ UNCHANGED decoderFiles

-----------------------------------------------------------------------------

(* decode(): no decoder, a decoder that does not match and one that raises *)
(* are one outcome.  CSV rows need the header of their file.               *)
Matches(doc, line) == line \in doc.takes \ doc.raises
Decodes(source, line) ==
  LET doc == decoders[source]
  IN  doc.kind = "decoder" /\ doc.type # "csv" /\ Matches(doc, line)

(* However loads overlap, when all are done no source lacks a decoder that *)
(* the files have for it; unless they overlapped, it is the one they have. *)
DecodersSettle ==
  Quiet /\ torn = {} =>
    /\ \A s \in Sources : Expected[s] # NoFile => decoders[s] # NoFile
    /\ ~overlap => decoders = Expected

=============================================================================
