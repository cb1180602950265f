------------------------------ MODULE MCCliRun ------------------------------
(***************************************************************************)
(* The instance of CliRun for TLC: every mode with every choice of paths   *)
(* under the default output, and the two modes that encode with every      *)
(* choice of output under two choices of paths.                            *)
(***************************************************************************)
EXTENDS CliRun

Plain == [mode |-> "process", input |-> TRUE, output |-> "", wav |-> "", workDir |-> "",
          outDir |-> "", keep |-> "", padding |-> 100, rate |-> 16000, format |-> "ogg",
          codec |-> "libopus", bitrate |-> "32k", sampleFormat |-> "s16"]

Paths ==
  {[Plain EXCEPT !.mode = m, !.input = i, !.output = o, !.wav = w, !.workDir = d,
                 !.outDir = s, !.keep = k] :
     m \in Modes \cup {"unknown"}, i \in BOOLEAN, o \in {"", "--output"},
     w \in {"", "--wav"}, d \in {"", "--work-dir"}, s \in {"", "--out-dir"},
     k \in {"", "false", "text"}}

Outputs ==
  {[Plain EXCEPT !.mode = m, !.outDir = s, !.padding = p, !.rate = r, !.format = f,
                 !.codec = c, !.bitrate = b, !.sampleFormat = a] :
     m \in {"split", "process"}, s \in {"", "--out-dir"}, p \in {0, 50}, r \in {0, 8000},
     f \in {"", "opus", "ogg", "wav", "flac", "aac", ".m4a", "..m4a", "mkv"},
     c \in {"", "libopus", "aac", "flac", "pcm_s16le"}, b \in {"", "32k", "64k"},
     a \in {"", "s16", "24bit", "f32"}}

AllCommands == Paths \cup Outputs
=============================================================================
