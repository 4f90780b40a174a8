\* One import while the instance shows a QR code, and a second instance that may
\* take over.  Epochs and saves are bounded, so the system stops.
SPECIFICATION AuthSpec
CONSTANTS
  Workers = {w1, w2}
  Imports = {a}
  Pairing = Pairing
  Absent = Absent
  Candidates = 2
  Attempts = 2
  MaxEpoch = 2
  MaxSaves = 1
PROPERTY
  ImportLoaded
CHECK_DEADLOCK FALSE
