\* Three lines are a block with a setting, an empty block beside one, or a setting
\* made again; they name a database or a Nacos server, or turn TCP off, and reach
\* every step of main.  Two requests per server let one finish while the other
\* holds the shutdown.
SPECIFICATION Spec
CONSTANTS
    Texts = {"0", "", "listen"}
    EOF = EOF
    Ints <- MCInts
    Durations <- MCDurations
    Floats <- MCFloats
    MaxLines = 3
    MaxBusy = 2
INVARIANTS ParsesAsMeant DamageDetected RequestsDrain
PROPERTY SignalEnds
CHECK_DEADLOCK FALSE
